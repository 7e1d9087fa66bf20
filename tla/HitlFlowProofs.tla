--------------------------- MODULE HitlFlowProofs ---------------------------
(***************************************************************************)
(* Theorems of HitlFlow, for every graph, policy, number of sessions and     *)
(* number of concurrent calls.                                              *)
(***************************************************************************)
EXTENDS HitlReplay, TLAPS

\* What the program counter of a call says about its other fields.
Shape(r) ==
  /\ r.pc = "run" => r.node \in Nodes /\ r.agent = GraphOf[r.node]
  /\ r.pc \in {"audit_resume", "compile", "close_read", "close_write",
               "close_audit", "returned"} => r.kind = "resume"
  /\ (r.pc = "audit_pause" \/ (r.pc \in Running /\ r.kind = "resume"))
       => r.st.session \in Sessions
  /\ r.pc = "close_write" => r.found # Unset

ShapeOK == \A c \in Calls : Shape(call[c])

-----------------------------------------------------------------------------
(* Operators. *)

\* A patch keeps the routed fields in their type.
LEMMA PatchDataType ==
  ASSUME NEW data \in [Fields -> Values], NEW policy, NEW choice, NEW p \in Patches
  PROVE  PatchData(data, ResumePatch(policy, choice, p), ResumeTarget(policy, choice))
           \in [Fields -> Values]
<1> DEFINE patch == ResumePatch(policy, choice, p)
           target == ResumeTarget(policy, choice)
<1>1. ASSUME NEW f \in Fields, target = Unset, f \in DOMAIN patch
      PROVE  patch[f] \in Values
  <2>1. CASE choice = "modified"
    <3>1. policy.target = Unset
      BY <1>1, <2>1 DEF ResumeTarget
    <3>2. PatchSource(p, policy.target) = p.flat
      BY <3>1 DEF PatchSource
    <3>3. f \in DOMAIN p.flat /\ patch[f] = p.flat[f]
      BY <1>1, <2>1, <3>2 DEF ResumePatch, FilteredPatch, FilterPatch, Restrict
    <3> QED BY <3>3, PatchAssumption
  <2>2. CASE choice # "modified"
    <3>1. patch = <<>>
      BY <2>2 DEF ResumePatch
    <3> QED BY <1>1, <3>1
  <2> QED BY <2>1, <2>2
<1> QED BY <1>1 DEF PatchData

\* The bag a decision is merged into stays a bag of the session.
LEMMA MergeType ==
  ASSUME NEW st \in Bag, NEW s \in Sessions, NEW g \in Ids, NEW d \in HitlDecisions
  PROVE  /\ MergeDecision(st, s, g, d) \in Bag
         /\ MergeDecision(st, s, g, d).session = s
         /\ MergeDecision(st, s, g, d).resume_at = g
         /\ MergeDecision(st, s, g, d).decisions = [st.decisions EXCEPT ![g] = d]
         /\ MergeDecision(st, s, g, d).skip = st.skip
         /\ MergeDecision(st, s, g, d).enabled = st.enabled
BY DEF MergeDecision, Bag, Decision
-----------------------------------------------------------------------------
(* Type correctness. *)

\* A step of one call that moves it to a well-shaped state.
LEMMA CallStep ==
  ASSUME TypeOK, ShapeOK, NEW c \in Calls, NEW r \in Call, Shape(r),
         call' = [call EXCEPT ![c] = r]
  PROVE  call' \in [Calls -> Call] /\ ShapeOK'
<1>1. \A d \in Calls : call'[d] = IF d = c THEN r ELSE call[d]
  BY DEF TypeOK
<1>2. \A d \in Calls : Shape(call'[d])
  BY <1>1 DEF ShapeOK
<1> QED BY <1>1, <1>2 DEF TypeOK, ShapeOK

\* The state Advance moves call c to.
Moved(c, st, ran) ==
  LET m == Succ[call[c].node][Label(call[c].node, st)]
  IN  [call[c] EXCEPT !.st = st, !.ran = @ \cup ran, !.node = m,
                      !.pc = IF m = End THEN AfterRun(c, st) ELSE "run"]

LEMMA LabelType ==
  ASSUME NEW n \in Nodes, NEW st \in Bag
  PROVE  Label(n, st) \in Labels
BY GraphAssumption DEF Label, Bag, Labels

LEMMA AdvanceMoves ==
  ASSUME TypeOK, NEW c \in Calls, NEW st, NEW ran, Advance(c, st, ran)
  PROVE  call' = [call EXCEPT ![c] = Moved(c, st, ran)]
BY DEF Advance, Moved, TypeOK

LEMMA MovedType ==
  ASSUME TypeOK, ShapeOK, NEW c \in Calls, call[c].pc = "run",
         NEW st \in Bag, st.session = call[c].st.session,
         NEW ran \in SUBSET (Agents \X Ids)
  PROVE  Moved(c, st, ran) \in Call /\ Shape(Moved(c, st, ran))
<1> DEFINE n == call[c].node
           m == Succ[n][Label(n, st)]
           r == Moved(c, st, ran)
<1>1. call[c] \in Call /\ n \in Nodes /\ call[c].agent = GraphOf[n]
  BY DEF TypeOK, ShapeOK, Shape
<1>2. m \in Nodes \cup {End} /\ (m # End => GraphOf[m] = GraphOf[n])
  BY <1>1, LabelType, GraphAssumption
<1>3. AfterRun(c, st) \in {"done", "close_read", "returned"}
      /\ (AfterRun(c, st) # "done" => call[c].kind = "resume")
  BY <1>1 DEF AfterRun, Call
<1>4. /\ r.st = st /\ r.node = m /\ r.kind = call[c].kind /\ r.agent = call[c].agent
      /\ r.pc = IF m = End THEN AfterRun(c, st) ELSE "run"
      /\ r.found = call[c].found /\ r.gate = call[c].gate /\ r.choice = call[c].choice
      /\ r.before = call[c].before /\ r.ran = call[c].ran \cup ran
  BY <1>1 DEF Moved, Call
<1>5. r \in Call
  BY ZenonT(40), <1>1, <1>2, <1>3, <1>4 DEF Moved, Call, PCs, Running
<1>6. Shape(r)
  BY <1>1, <1>2, <1>3, <1>4 DEF Shape, ShapeOK, Running
<1> QED BY <1>5, <1>6

TypeInv == TypeOK /\ ShapeOK

LEMMA FreshBagType == \A i \in Inputs : FreshBag(i) \in Bag
BY GraphAssumption DEF FreshBag, Bag, Decision, Labels

LEMMA NoCallType == NoCall \in Call /\ Shape(NoCall)
<1>1. (CHOOSE i \in Inputs : TRUE) \in Inputs
  BY GraphAssumption
<1>2. FreshBag(CHOOSE i \in Inputs : TRUE) \in Bag
  BY <1>1, FreshBagType
<1>3. NoCall \in Call
  BY <1>2 DEF NoCall, Call, PCs, Decision
<1> QED BY <1>3 DEF Shape, NoCall, Running

LEMMA InitType == Init => TypeInv
<1> SUFFICES ASSUME Init PROVE TypeInv
  OBVIOUS
<1>1. TypeOK
  BY NoCallType DEF Init, TypeOK
<1>2. ShapeOK
  BY NoCallType DEF Init, ShapeOK
<1> QED BY <1>1, <1>2 DEF TypeInv

LEMMA InvokeType ==
  ASSUME TypeInv, NEW c \in Calls, NEW a \in Agents, NEW i \in Inputs, Invoke(c, a, i)
  PROVE  TypeInv'
<1> DEFINE r == [NoCall EXCEPT !.pc = "run", !.agent = a, !.node = Start[a],
                               !.st = FreshBag(i)]
<1>1. r \in Call
  BY NoCallType, FreshBagType, GraphAssumption DEF Call, PCs, Running
<1>2. Shape(r)
  BY GraphAssumption, NoCallType DEF Shape, NoCall, Running
<1>3. call' = [call EXCEPT ![c] = r]
  BY DEF Invoke
<1> HIDE DEF r
<1>4. call' \in [Calls -> Call] /\ ShapeOK'
  BY <1>1, <1>2, <1>3, CallStep DEF TypeInv
<1> QED BY <1>4 DEF TypeInv, TypeOK, Invoke

LEMMA ResumeBag ==
  ASSUME NEW r \in Record, NEW s \in Sessions, NEW d \in HitlDecisions
  PROVE  /\ MergeDecision(r.st, s, r.gate, d) \in Bag
         /\ MergeDecision(r.st, s, r.gate, d).session = s
<1>1. r.st \in Bag /\ r.gate \in Ids
  BY DEF Record
<1>2. MergeDecision(r.st, s, r.gate, d) \in Bag
  BY <1>1, MergeType
<1>3. MergeDecision(r.st, s, r.gate, d).session = s
  BY <1>1 DEF MergeDecision, Bag
<1> QED BY <1>2, <1>3

LEMMA ResumeType ==
  ASSUME TypeInv, NEW c \in Calls, NEW s \in Sessions, NEW d \in HitlDecisions,
         NEW p \in Patches, NEW known \in BOOLEAN, Resume(c, s, d, p, known)
  PROVE  TypeInv'
<1> DEFINE r == store[s]
           policy == PolicyFor(r, known)
           st == MergeDecision(r.st, s, r.gate, d)
           data == PatchData(st.data, ResumePatch(policy, d, p), ResumeTarget(policy, d))
           st2 == [st EXCEPT !.data = data]
           n == [pc |-> "audit_resume", kind |-> "resume",
                 agent |-> IF known THEN r.agent ELSE Unset, node |-> End,
                 st |-> st2, gate |-> r.gate, choice |-> d, found |-> Unset,
                 before |-> r.done, ran |-> {}]
<1>1. r \in Record
  BY DEF Resume, MayKnow, TypeInv, TypeOK
<1>2. st \in Bag /\ st.session = s
  BY <1>1, ResumeBag
<1>3. data \in [Fields -> Values]
  <2>1. st.data \in [Fields -> Values]
    BY <1>2 DEF Bag
  <2> QED BY <2>1, PatchDataType
<1>4. st2 \in Bag /\ st2.session = s
  BY <1>2, <1>3 DEF Bag
<1> HIDE DEF st2
<1>5. n \in Call
  BY <1>1, <1>4 DEF Call, Record, PCs, Running, Decision
<1>6. Shape(n)
  BY <1>4 DEF Shape, Running
<1>7. call' = [call EXCEPT ![c] = n]
  BY DEF Resume, st2
<1> HIDE DEF n
<1>8. call' \in [Calls -> Call] /\ ShapeOK'
  BY <1>5, <1>6, <1>7, CallStep DEF TypeInv
<1> QED BY <1>8 DEF TypeInv, TypeOK, Resume

LEMMA ResumeRefusedType ==
  ASSUME TypeInv, NEW c \in Calls, NEW s, NEW d, NEW p, NEW known,
         ResumeRefused(c, s, d, p, known)
  PROVE  TypeInv'
<1> DEFINE r == [call[c] EXCEPT !.pc = "failed", !.kind = "resume"]
<1>1. call[c] \in Call
  BY DEF TypeInv, TypeOK
<1>2. r \in Call /\ Shape(r)
  BY <1>1 DEF Call, PCs, Shape, Running
<1>3. call' = [call EXCEPT ![c] = r]
  BY <1>1 DEF ResumeRefused, TypeInv, TypeOK
<1> HIDE DEF r
<1>4. call' \in [Calls -> Call] /\ ShapeOK'
  BY <1>2, <1>3, CallStep DEF TypeInv
<1> QED BY <1>4 DEF TypeInv, TypeOK, ResumeRefused

\* Steps that only move the program counter of c (and write no record).
LEMMA PcStepType ==
  ASSUME TypeInv, NEW c \in Calls, NEW r \in Call, Shape(r),
         call' = [call EXCEPT ![c] = r],
         store' \in [Sessions -> Record \cup {Unset}],
         issued' \subseteq Sessions, audit' \subseteq Event, persisted' \subseteq Calls
  PROVE  TypeInv'
<1>1. call' \in [Calls -> Call] /\ ShapeOK'
  BY CallStep DEF TypeInv
<1> QED BY <1>1 DEF TypeInv, TypeOK

LEMMA AdvanceType ==
  ASSUME TypeInv, NEW c \in Calls, call[c].pc = "run",
         NEW st \in Bag, st.session = call[c].st.session,
         NEW ran \in SUBSET (Agents \X Ids),
         Advance(c, st, ran), UNCHANGED <<store, issued, audit, persisted>>
  PROVE  TypeInv'
<1>1. Moved(c, st, ran) \in Call /\ Shape(Moved(c, st, ran))
  BY MovedType DEF TypeInv
<1>2. call' = [call EXCEPT ![c] = Moved(c, st, ran)]
  BY AdvanceMoves DEF TypeInv
<1> QED BY <1>1, <1>2, PcStepType DEF TypeInv, TypeOK

\* At a node, its bag and its place are typed.
LEMMA AtNodeType ==
  ASSUME TypeInv, NEW c \in Calls, call[c].pc = "run"
  PROVE  /\ call[c] \in Call /\ call[c].st \in Bag /\ call[c].node \in Nodes
         /\ call[c].agent = GraphOf[call[c].node]
         /\ YamlNode(call[c].node) \in Agents \X Ids
<1>1. call[c] \in Call /\ call[c].node \in Nodes /\ call[c].agent = GraphOf[call[c].node]
  BY DEF TypeInv, TypeOK, ShapeOK, Shape
<1>2. call[c].st \in Bag
  BY <1>1 DEF Call
<1> QED BY <1>1, <1>2, GraphAssumption DEF YamlNode

\* The bags a node leaves behind.
LEMMA WorkBag ==
  ASSUME NEW st \in Bag, NEW f \in Fields, NEW v \in Values
  PROVE  /\ [st EXCEPT !.data[f] = v] \in Bag
         /\ [st EXCEPT !.data[f] = v].session = st.session
BY DEF Bag

LEMMA ApplyBag ==
  ASSUME NEW st \in Bag, NEW n \in Nodes
  PROVE  ApplyOutcome(n, st) \in Bag /\ ApplyOutcome(n, st).session = st.session
BY GraphAssumption DEF ApplyOutcome, Bag, Labels

GateBag(n, st) == [st EXCEPT !.status = "resumed", !.resume_at = Unset,
                             !.decision = st.decisions[GateId[n]]]

LEMMA GateBagType ==
  ASSUME NEW st \in Bag, NEW n \in Nodes
  PROVE  GateBag(n, st) \in Bag /\ GateBag(n, st).session = st.session
BY GraphAssumption DEF GateBag, Bag

Snapshot(n, st, s) == [st EXCEPT !.session = s, !.status = "waiting_hitl",
                                 !.resume_at = GateId[n]]

LEMMA SnapshotType ==
  ASSUME NEW st \in Bag, NEW n \in Nodes, NEW s \in Sessions
  PROVE  /\ Snapshot(n, st, s) \in Bag
         /\ Snapshot(n, st, s).session = s
         /\ Snapshot(n, st, s).decisions = st.decisions
         /\ Snapshot(n, st, s).skip = st.skip
         /\ Snapshot(n, st, s).enabled = st.enabled
BY GraphAssumption DEF Snapshot, Bag

LEMMA GraphStepType ==
  ASSUME TypeInv, NEW c \in Calls,
         \/ SkipNode(c) \/ WorkNode(c) \/ ApplyNode(c) \/ GateBypass(c) \/ GateResume(c)
  PROVE  TypeInv'
<1> DEFINE n == call[c].node
           st == call[c].st
<1>0. call[c].pc = "run"
  BY DEF SkipNode, WorkNode, ApplyNode, GateBypass, GateResume, AtNode
<1>1. st \in Bag /\ n \in Nodes /\ YamlNode(n) \in Agents \X Ids
  BY <1>0, AtNodeType
<1>2. CASE SkipNode(c)
  BY <1>0, <1>1, <1>2, AdvanceType DEF SkipNode
<1>3. CASE WorkNode(c)
  <2>1. CASE WriteField[n] = Unset
    <3>1. Advance(c, st, {YamlNode(n)}) /\ UNCHANGED <<store, issued, audit, persisted>>
      BY <1>3, <2>1 DEF WorkNode
    <3> QED BY <1>0, <1>1, <3>1, AdvanceType
  <2>2. CASE WriteField[n] # Unset
    <3>0. \E v \in Values : Advance(c, [st EXCEPT !.data[WriteField[n]] = v], {YamlNode(n)})
      BY <1>3, <2>2, Zenon DEF WorkNode
    <3>1. PICK v \in Values : Advance(c, [st EXCEPT !.data[WriteField[n]] = v], {YamlNode(n)})
      BY <3>0
    <3>2. WriteField[n] \in Fields
      BY <1>1, <2>2, GraphAssumption
    <3>3. /\ [st EXCEPT !.data[WriteField[n]] = v] \in Bag
          /\ [st EXCEPT !.data[WriteField[n]] = v].session = st.session
      BY <1>1, <3>2, WorkBag
    <3>4. UNCHANGED <<store, issued, audit, persisted>>
      BY <1>3 DEF WorkNode
    <3> DEFINE w == [st EXCEPT !.data[WriteField[n]] = v]
    <3>5. w \in Bag /\ w.session = st.session /\ Advance(c, w, {YamlNode(n)})
      BY <3>1, <3>3
    <3> HIDE DEF w
    <3> QED BY <1>0, <1>1, <3>4, <3>5, AdvanceType
  <2> QED BY <2>1, <2>2
<1>4. CASE ApplyNode(c)
  <2>1. ApplyOutcome(n, st) \in Bag /\ ApplyOutcome(n, st).session = st.session
    BY <1>1, ApplyBag
  <2> QED BY <1>0, <1>1, <1>4, <2>1, AdvanceType DEF ApplyNode
<1>5. CASE GateBypass(c)
  BY <1>0, <1>1, <1>5, AdvanceType DEF GateBypass
<1>6. CASE GateResume(c)
  <2>1. GateBag(n, st) \in Bag /\ GateBag(n, st).session = st.session
    BY <1>1, GateBagType
  <2>2. Advance(c, GateBag(n, st), {}) /\ UNCHANGED <<store, issued, audit, persisted>>
    BY <1>6 DEF GateResume, GateBag
  <2> QED BY <1>0, <1>1, <2>1, <2>2, AdvanceType
<1> QED BY <1>2, <1>3, <1>4, <1>5, <1>6

LEMMA GatePauseType ==
  ASSUME TypeInv, NEW c \in Calls, GatePause(c)
  PROVE  TypeInv'
<1> DEFINE n == call[c].node
           st == call[c].st
<1>0. call[c].pc = "run"
  BY DEF GatePause, AtNode
<1>1. call[c] \in Call /\ st \in Bag /\ n \in Nodes
  BY <1>0, AtNodeType
<1>2. PICK s \in IF st.session = Unset THEN Sessions \ issued ELSE {st.session} :
        /\ store' = [store EXCEPT ![s] =
              [agent |-> Owner[n], status |-> "waiting_hitl", gate |-> GateId[n],
               st |-> Snapshot(n, st, s), done |-> call[c].before \cup call[c].ran]]
        /\ issued' = issued \cup {s}
        /\ call' = [call EXCEPT ![c].pc = "audit_pause", ![c].st = Snapshot(n, st, s)]
  BY DEF GatePause, Snapshot
<1>3. s \in Sessions
  BY <1>1, <1>2 DEF Bag
<1>4. Snapshot(n, st, s) \in Bag /\ Snapshot(n, st, s).session = s
  BY <1>1, <1>3, SnapshotType
<1> DEFINE r == [call[c] EXCEPT !.pc = "audit_pause", !.st = Snapshot(n, st, s)]
<1>5. r \in Call /\ Shape(r)
  BY <1>1, <1>3, <1>4 DEF Call, PCs, Running, Shape
<1>6. call' = [call EXCEPT ![c] = r]
  BY <1>2 DEF TypeInv, TypeOK
<1>7. [agent |-> Owner[n], status |-> "waiting_hitl", gate |-> GateId[n],
       st |-> Snapshot(n, st, s), done |-> call[c].before \cup call[c].ran] \in Record
  BY <1>1, <1>4, GraphAssumption DEF Record, Call
<1>8. store' \in [Sessions -> Record \cup {Unset}] /\ issued' \subseteq Sessions
  BY <1>2, <1>3, <1>7 DEF TypeInv, TypeOK
<1>9. audit' \subseteq Event /\ persisted' \subseteq Calls
  BY DEF GatePause, TypeInv, TypeOK
<1> HIDE DEF r
<1> QED BY <1>5, <1>6, <1>8, <1>9, PcStepType

\* A change of pc alone that keeps the shape.
LEMMA PcOnlyType ==
  ASSUME TypeInv, NEW c \in Calls, NEW pc \in PCs,
         Shape([call[c] EXCEPT !.pc = pc]),
         call' = [call EXCEPT ![c].pc = pc],
         store' \in [Sessions -> Record \cup {Unset}],
         issued' \subseteq Sessions, audit' \subseteq Event, persisted' \subseteq Calls
  PROVE  TypeInv'
<1> DEFINE r == [call[c] EXCEPT !.pc = pc]
<1>1. r \in Call
  BY DEF TypeInv, TypeOK, Call
<1>2. call' = [call EXCEPT ![c] = r]
  BY DEF TypeInv, TypeOK
<1> HIDE DEF r
<1>3. Shape(r)
  BY DEF r
<1> QED BY <1>1, <1>2, <1>3, PcStepType

LEMMA AuditType ==
  ASSUME TypeInv, NEW c \in Calls, AuditResume(c) \/ AuditPause(c) \/ CloseAudit(c)
  PROVE  TypeInv'
<1>1. call[c] \in Call /\ Shape(call[c]) /\ call[c].st \in Bag
  BY DEF TypeInv, TypeOK, ShapeOK, Call
<1>2. /\ UNCHANGED <<store, issued, persisted>>
      /\ store \in [Sessions -> Record \cup {Unset}]
      /\ issued \subseteq Sessions /\ audit \subseteq Event /\ persisted \subseteq Calls
  BY DEF TypeInv, TypeOK, AuditResume, AuditPause, CloseAudit
<1>3. call[c].st.session \in Sessions
  BY <1>1 DEF AuditResume, AuditPause, CloseAudit, Shape, Running
<1>4. CASE AuditResume(c)
  <2>1. [action |-> "hitl.resume", call |-> c, session |-> call[c].st.session,
         gate |-> call[c].gate, decision |-> call[c].choice] \in Event
    BY <1>1, <1>3 DEF Event, Call
  <2>2. Shape([call[c] EXCEPT !.pc = "compile"])
    BY <1>1, <1>3, <1>4 DEF AuditResume, Shape, Running, Call
  <2> QED BY <1>2, <1>4, <2>1, <2>2, PcOnlyType DEF AuditResume, PCs, Running
<1>5. CASE AuditPause(c)
  <2> DEFINE pc == IF call[c].kind = "invoke" THEN "done" ELSE "returned"
  <2>1. [action |-> "hitl.pause", call |-> c, session |-> call[c].st.session,
         gate |-> call[c].st.resume_at, decision |-> Unset] \in Event
    BY <1>1, <1>3 DEF Event, Bag, Decision
  <2>2. Shape([call[c] EXCEPT !.pc = pc])
    BY <1>1, <1>3, <1>5 DEF AuditPause, Shape, Running, Call
  <2>3. call' = [call EXCEPT ![c].pc = pc]
    BY <1>5 DEF AuditPause
  <2>4. pc \in PCs
    BY DEF PCs, Running
  <2>5. audit' \subseteq Event
    BY <1>2, <1>5, <2>1 DEF AuditPause
  <2> HIDE DEF pc
  <2> QED BY <1>2, <2>2, <2>3, <2>4, <2>5, PcOnlyType
<1>6. CASE CloseAudit(c)
  <2>1. [action |-> "hitl.close", call |-> c, session |-> call[c].st.session,
         gate |-> Unset, decision |-> Unset] \in Event
    BY <1>1, <1>3 DEF Event, Decision
  <2>2. Shape([call[c] EXCEPT !.pc = "returned"])
    BY <1>1, <1>3, <1>6 DEF CloseAudit, Shape, Running, Call
  <2> QED BY <1>2, <1>6, <2>1, <2>2, PcOnlyType DEF CloseAudit, PCs, Running
<1> QED BY <1>4, <1>5, <1>6

LEMMA CreateAgentType ==
  ASSUME TypeInv, NEW c \in Calls, CreateAgent(c)
  PROVE  TypeInv'
<1> DEFINE r == IF call[c].agent # Unset
                THEN [call[c] EXCEPT !.pc = "run", !.node = Start[call[c].agent]]
                ELSE [call[c] EXCEPT !.pc = "failed"]
<1>1. call[c] \in Call /\ Shape(call[c])
  BY DEF TypeInv, TypeOK, ShapeOK
<1>2. r \in Call /\ Shape(r)
  BY ZenonT(40), <1>1, GraphAssumption DEF CreateAgent, Call, PCs, Running, Shape
<1>3. call' = [call EXCEPT ![c] = r]
  BY <1>1 DEF CreateAgent, TypeInv, TypeOK
<1> HIDE DEF r
<1> QED BY <1>2, <1>3, PcStepType DEF CreateAgent, TypeInv, TypeOK

LEMMA CloseType ==
  ASSUME TypeInv, NEW c \in Calls, CloseRead(c) \/ CloseWrite(c)
  PROVE  TypeInv'
<1>1. call[c] \in Call /\ Shape(call[c]) /\ call[c].st \in Bag
  BY DEF TypeInv, TypeOK, ShapeOK, Call
<1>2. call[c].st.session \in Sessions
  BY <1>1 DEF CloseRead, CloseWrite, Shape, Running
<1>3. CASE CloseRead(c)
  <2> DEFINE x == store[call[c].st.session]
             r == [call[c] EXCEPT !.found = x,
                                  !.pc = IF x = Unset THEN "returned" ELSE "close_write"]
  <2>1. x \in Record \cup {Unset}
    BY <1>2 DEF TypeInv, TypeOK
  <2>2. r \in Call /\ Shape(r)
    <3> HIDE DEF x
    <3> QED BY ZenonT(40), <1>1, <1>2, <1>3, <2>1 DEF CloseRead, Call, PCs, Running, Shape
  <2>3. call' = [call EXCEPT ![c] = r]
    BY <1>3 DEF CloseRead, TypeInv, TypeOK
  <2> HIDE DEF r
  <2> QED BY <1>3, <2>2, <2>3, PcStepType DEF CloseRead, TypeInv, TypeOK
<1>4. CASE CloseWrite(c)
  <2> DEFINE r == [call[c] EXCEPT !.pc = "close_audit", !.found = Unset]
             x == [call[c].found EXCEPT !.status = "closed", !.st = call[c].st,
                                        !.done = call[c].before \cup call[c].ran]
  <2>1. r \in Call /\ Shape(r)
    BY <1>1, <1>2, <1>4 DEF CloseWrite, Call, PCs, Running, Shape
  <2>2. call' = [call EXCEPT ![c] = r]
    BY <1>4 DEF CloseWrite, TypeInv, TypeOK
  <2>3. call[c].found \in Record
    BY <1>1, <1>4 DEF CloseWrite, Shape, Call
  <2>4. x \in Record
    BY <1>1, <2>3 DEF Record, Call
  <2>5. store' \in [Sessions -> Record \cup {Unset}]
    BY <1>2, <1>4, <2>4 DEF CloseWrite, TypeInv, TypeOK
  <2> HIDE DEF r
  <2> QED BY <1>4, <2>1, <2>2, <2>5, PcStepType DEF CloseWrite, TypeInv, TypeOK
<1> QED BY <1>3, <1>4

LEMMA EndType ==
  ASSUME TypeInv, NEW c \in Calls, HostPersist(c) \/ Abort(c)
  PROVE  TypeInv'
<1> DEFINE pc == IF HostPersist(c) THEN "done" ELSE "failed"
<1>1. call' = [call EXCEPT ![c].pc = pc]
  BY DEF HostPersist, Abort
<1>2. Shape([call[c] EXCEPT !.pc = pc]) /\ pc \in PCs
  BY DEF TypeInv, TypeOK, Call, Shape, PCs, Running
<1>3. /\ store' = store /\ issued' = issued /\ audit' = audit
      /\ persisted' \subseteq persisted \cup {c}
  BY DEF HostPersist, Abort
<1> HIDE DEF pc
<1> QED BY <1>1, <1>2, <1>3, PcOnlyType DEF TypeInv, TypeOK

LEMMA TypeStep == TypeInv /\ [Next]_vars => TypeInv'
<1> SUFFICES ASSUME TypeInv, [Next]_vars PROVE TypeInv'
  OBVIOUS
<1>1. CASE UNCHANGED vars
  BY <1>1 DEF vars, TypeInv, TypeOK, ShapeOK, Shape
<1>2. ASSUME NEW c \in Calls, NEW a \in Agents, NEW i \in Inputs, Invoke(c, a, i)
      PROVE  TypeInv'
  BY <1>2, InvokeType
<1>3. ASSUME NEW c \in Calls, NEW s \in Sessions, NEW d \in HitlDecisions,
             NEW p \in Patches, NEW known \in BOOLEAN,
             Resume(c, s, d, p, known) \/ ResumeRefused(c, s, d, p, known)
      PROVE  TypeInv'
  BY <1>3, ResumeType, ResumeRefusedType
<1>4. ASSUME NEW c \in Calls, Step(c)
      PROVE  TypeInv'
  BY <1>4, GraphStepType, GatePauseType, AuditType, CreateAgentType, CloseType, EndType
     DEF Step
<1>5. ASSUME NEW c \in Calls, Abort(c)
      PROVE  TypeInv'
  BY <1>5, EndType
<1>6. ASSUME NEW s \in Sessions, DeleteSession(s)
      PROVE  TypeInv'
  <2>1. store' \in [Sessions -> Record \cup {Unset}]
    BY <1>6 DEF DeleteSession, TypeInv, TypeOK
  <2> QED BY <1>6, <2>1 DEF DeleteSession, TypeInv, TypeOK, ShapeOK
<1>7. CASE AllReturned
  BY <1>1, <1>7 DEF AllReturned
<1> QED BY <1>1, <1>2, <1>3, <1>4, <1>5, <1>6, <1>7 DEF Next

\* Every variable keeps its type, whatever the graphs and however calls interleave.
\* Code: all of hitl/sessions.py and hitl/gate.py.
THEOREM TypeCorrect == Spec => []TypeOK
<1>1. TypeInv => TypeOK
  BY DEF TypeInv
<1> QED BY <1>1, InitType, TypeStep, PTL DEF Spec
-----------------------------------------------------------------------------
(* No node behind a gate runs without that gate's decision.

   GuardedRuns alone is not inductive: it says nothing of a call that is still
   skipping, nor of the snapshot a later call will start from.  While a bag carries
   hitl_resume_at, the nodes with that id must be safe to run (SafeTarget); a record
   that waits must become safe once its own gate is decided (RecordGuard). *)

SafeTarget(st, a, x) ==
  \A m \in Nodes : (GraphOf[m] = a /\ Id[m] = x) => \A g \in Gated[m] : Cleared(g, st)

CallGuard(r) ==
  /\ (r.pc \in {"audit_resume", "compile"} /\ r.agent # Unset) =>
       r.st.resume_at # Unset /\ SafeTarget(r.st, r.agent, r.st.resume_at)
  /\ r.pc = "run" =>
       IF r.st.resume_at = Unset
       THEN \A g \in Gated[r.node] : Cleared(g, r.st)
       ELSE SafeTarget(r.st, r.agent, r.st.resume_at)

RecordGuard(r) ==
  r.status = "waiting_hitl" =>
    \A m \in Nodes : (GraphOf[m] = r.agent /\ Id[m] = r.gate) =>
      \A g \in Gated[m] : GateId[g] = r.gate \/ Cleared(g, r.st)

GuardInv ==
  /\ \A c \in Calls : CallGuard(call[c])
  /\ \A s \in Sessions : store[s] # Unset => RecordGuard(store[s])

\* What a gate looks at.
SameGateKeys(st, st2) ==
  st2.decisions = st.decisions /\ st2.skip = st.skip /\ st2.enabled = st.enabled

LEMMA ClearedSame ==
  ASSUME NEW st, NEW st2, SameGateKeys(st, st2), NEW g, Cleared(g, st)
  PROVE  Cleared(g, st2)
BY DEF Cleared, SameGateKeys

LEMMA SafeTargetSame ==
  ASSUME NEW st, NEW st2, SameGateKeys(st, st2), NEW a, NEW x, SafeTarget(st, a, x)
  PROVE  SafeTarget(st2, a, x)
BY ClearedSame DEF SafeTarget

LEMMA GatesAreNodes == \A n \in Nodes : Gated[n] \subseteq Nodes
BY GatedAssumption DEF Gates

\* Following an edge: what the bag must satisfy for the next node.
LEMMA MovedGuard ==
  ASSUME TypeInv, NEW c \in Calls, call[c].pc = "run", NEW st \in Bag, NEW ran,
         st.resume_at = Unset =>
           \A g \in Gated[call[c].node] \cup ({call[c].node} \cap Gates) : Cleared(g, st),
         st.resume_at # Unset => SafeTarget(st, call[c].agent, st.resume_at)
  PROVE  CallGuard(Moved(c, st, ran))
<1> DEFINE n == call[c].node
           m == Succ[n][Label(n, st)]
           r == Moved(c, st, ran)
<1>1. call[c] \in Call /\ n \in Nodes
  BY AtNodeType
<1>2. Label(n, st) \in Labels
  BY <1>1, LabelType
<1>3. m # End => Gated[m] \subseteq Gated[n] \cup ({n} \cap Gates)
  BY <1>1, <1>2, GatedAssumption
<1>4. AfterRun(c, st) \in {"done", "close_read", "returned"}
  BY DEF AfterRun
<1>5. /\ r.st = st /\ r.node = m /\ r.agent = call[c].agent
      /\ r.pc = IF m = End THEN AfterRun(c, st) ELSE "run"
  BY <1>1 DEF Moved, Call
<1>6. CallGuard(r)
  <2> HIDE DEF r, m
  <2>1. r.pc = "run" => m # End /\ r.pc \notin {"audit_resume", "compile"}
    BY <1>4, <1>5
  <2>2. CASE st.resume_at = Unset
    BY <1>3, <1>4, <1>5, <2>1, <2>2 DEF CallGuard
  <2>3. CASE st.resume_at # Unset
    BY <1>4, <1>5, <2>1, <2>3 DEF CallGuard
  <2> QED BY <2>2, <2>3
<1> QED BY <1>6

\* A step of c that writes no record.
LEMMA CallGuardStep ==
  ASSUME TypeInv, GuardInv, NEW c \in Calls, NEW r, CallGuard(r),
         call' = [call EXCEPT ![c] = r], UNCHANGED store
  PROVE  GuardInv'
<1>1. \A d \in Calls : call'[d] = IF d = c THEN r ELSE call[d]
  BY DEF TypeInv, TypeOK
<1>2. \A d \in Calls : CallGuard(call'[d])
  BY <1>1 DEF GuardInv
<1>3. \A s \in Sessions : store'[s] # Unset => RecordGuard(store'[s])
  BY DEF GuardInv
<1> QED BY <1>2, <1>3 DEF GuardInv

LEMMA InitGuard == Init => GuardInv
<1>1. NoCall.pc = "idle"
  BY DEF NoCall
<1> QED BY <1>1 DEF Init, GuardInv, CallGuard

LEMMA InvokeGuard ==
  ASSUME TypeInv, GuardInv, NEW c \in Calls, NEW a \in Agents, NEW i \in Inputs,
         Invoke(c, a, i)
  PROVE  GuardInv'
<1> DEFINE r == [NoCall EXCEPT !.pc = "run", !.agent = a, !.node = Start[a],
                               !.st = FreshBag(i)]
<1>1. r.pc = "run" /\ r.node = Start[a] /\ r.st.resume_at = Unset
  BY DEF NoCall, FreshBag
<1>2. CallGuard(r)
  BY <1>1, GatedAssumption DEF CallGuard
<1>3. call' = [call EXCEPT ![c] = r] /\ UNCHANGED store
  BY DEF Invoke
<1> HIDE DEF r
<1> QED BY <1>2, <1>3, CallGuardStep

\* A decision for the gate of a record makes its snapshot safe to resume.
LEMMA MergeGuard ==
  ASSUME NEW r \in Record, r.status = "waiting_hitl", RecordGuard(r),
         NEW s \in Sessions, NEW d \in HitlDecisions, NEW st \in Bag,
         SameGateKeys(MergeDecision(r.st, s, r.gate, d), st)
  PROVE  SafeTarget(st, r.agent, r.gate)
<1>1. r.st \in Bag /\ r.gate \in Ids /\ d # Unset
  BY GraphAssumption DEF Record
<1>2. /\ st.decisions = [r.st.decisions EXCEPT ![r.gate] = d]
      /\ st.skip = r.st.skip /\ st.enabled = r.st.enabled
  BY <1>1 DEF SameGateKeys, MergeDecision, Bag
<1>3. ASSUME NEW g \in Nodes, GateId[g] = r.gate \/ Cleared(g, r.st)
      PROVE  Cleared(g, st)
  <2>1. GateId[g] \in Ids /\ r.st.decisions \in [Ids -> Decision]
    BY <1>1, GraphAssumption DEF Bag
  <2> QED BY <1>1, <1>2, <1>3, <2>1 DEF Cleared
<1> SUFFICES ASSUME NEW m \in Nodes, GraphOf[m] = r.agent, Id[m] = r.gate,
                    NEW g \in Gated[m]
             PROVE  Cleared(g, st)
  BY DEF SafeTarget
<1>4. g \in Nodes
  BY GatesAreNodes
<1>5. GateId[g] = r.gate \/ Cleared(g, r.st)
  BY DEF RecordGuard
<1> QED BY <1>3, <1>4, <1>5

LEMMA ResumeGuard ==
  ASSUME TypeInv, GuardInv, NEW c \in Calls, NEW s \in Sessions, NEW d \in HitlDecisions,
         NEW p \in Patches, NEW known \in BOOLEAN, Resume(c, s, d, p, known)
  PROVE  GuardInv'
<1> DEFINE r == store[s]
           policy == PolicyFor(r, known)
           st == MergeDecision(r.st, s, r.gate, d)
           data == PatchData(st.data, ResumePatch(policy, d, p), ResumeTarget(policy, d))
           st2 == [st EXCEPT !.data = data]
           n == [pc |-> "audit_resume", kind |-> "resume",
                 agent |-> IF known THEN r.agent ELSE Unset, node |-> End,
                 st |-> st2, gate |-> r.gate, choice |-> d, found |-> Unset,
                 before |-> r.done, ran |-> {}]
<1>1. r \in Record /\ r.status = "waiting_hitl" /\ RecordGuard(r)
  BY DEF Resume, Resumable, Waiting, MayKnow, TypeInv, TypeOK, GuardInv
<1>2. r.st \in Bag /\ r.gate \in Ids /\ r.gate # Unset
  BY <1>1, GraphAssumption DEF Record
<1>3. st \in Bag /\ st.resume_at = r.gate
  BY <1>2 DEF MergeDecision, Bag, Decision
<1>4. data \in [Fields -> Values]
  <2>1. st.data \in [Fields -> Values]
    BY <1>3 DEF Bag
  <2> QED BY <2>1, PatchDataType
<1>5. st2 \in Bag /\ SameGateKeys(st, st2) /\ st2.resume_at = r.gate
  <2> HIDE DEF st, data
  <2> QED BY <1>3, <1>4 DEF Bag, SameGateKeys
<1>6. SafeTarget(st2, r.agent, r.gate)
  <2> HIDE DEF r, st2
  <2> QED BY <1>1, <1>5, MergeGuard
<1>7. CallGuard(n)
  <2> HIDE DEF r, st2
  <2> QED BY <1>2, <1>5, <1>6 DEF CallGuard
<1>8. call' = [call EXCEPT ![c] = n] /\ UNCHANGED store
  BY DEF Resume
<1> HIDE DEF n
<1> QED BY <1>7, <1>8, CallGuardStep

\* A node that runs has all the gates behind it cleared, the one a resume restarts at
\* included.
LEMMA RunsCleared ==
  ASSUME TypeInv, GuardInv, NEW c \in Calls, Executing(c)
  PROVE  \A g \in Gated[call[c].node] : Cleared(g, call[c].st)
<1> DEFINE n == call[c].node
           st == call[c].st
<1>1. n \in Nodes /\ call[c].agent = GraphOf[n] /\ CallGuard(call[c])
  BY AtNodeType DEF Executing, GuardInv
<1>2. CASE st.resume_at = Unset
  BY <1>1, <1>2 DEF CallGuard, Executing
<1>3. CASE st.resume_at # Unset
  <2>1. st.resume_at = Id[n]
    BY <1>3 DEF Executing, Skipping
  <2>2. SafeTarget(st, GraphOf[n], Id[n])
    BY <1>1, <1>3, <2>1 DEF CallGuard, Executing
  <2> QED BY <1>1, <2>2 DEF SafeTarget
<1> QED BY <1>2, <1>3

\* A node that ran, and a gate only if it is cleared.
LEMMA NodeGuard ==
  ASSUME TypeInv, GuardInv, NEW c \in Calls, Executing(c),
         call[c].node \in Gates => Cleared(call[c].node, call[c].st),
         NEW st \in Bag, SameGateKeys(call[c].st, st),
         st.resume_at \in {Unset, call[c].st.resume_at},
         NEW ran, Advance(c, st, ran), UNCHANGED store
  PROVE  GuardInv'
<1>1. \A g \in Gated[call[c].node] \cup ({call[c].node} \cap Gates) : Cleared(g, st)
  BY RunsCleared, ClearedSame
<1>2. st.resume_at # Unset => SafeTarget(st, call[c].agent, st.resume_at)
  <2>1. ASSUME st.resume_at # Unset
        PROVE  SafeTarget(call[c].st, call[c].agent, st.resume_at)
    BY <2>1 DEF GuardInv, CallGuard, Executing
  <2> QED BY <2>1, SafeTargetSame
<1>3. CallGuard(Moved(c, st, ran))
  BY <1>1, <1>2, MovedGuard DEF Executing
<1>4. call' = [call EXCEPT ![c] = Moved(c, st, ran)]
  BY AdvanceMoves DEF TypeInv
<1> QED BY <1>3, <1>4, CallGuardStep

LEMMA SkipGuard ==
  ASSUME TypeInv, GuardInv, NEW c \in Calls, SkipNode(c)
  PROVE  GuardInv'
<1> DEFINE st == call[c].st
<1>1. /\ call[c].pc = "run" /\ st.resume_at # Unset
      /\ Advance(c, st, {}) /\ UNCHANGED store
  BY DEF SkipNode, Skipping
<1>2. st \in Bag
  BY <1>1, AtNodeType
<1>3. SafeTarget(st, call[c].agent, st.resume_at)
  BY <1>1 DEF GuardInv, CallGuard
<1>4. CallGuard(Moved(c, st, {}))
  BY <1>1, <1>2, <1>3, MovedGuard
<1>5. call' = [call EXCEPT ![c] = Moved(c, st, {})]
  BY <1>1, AdvanceMoves DEF TypeInv
<1> QED BY <1>1, <1>4, <1>5, CallGuardStep

LEMMA NodeStepGuard ==
  ASSUME TypeInv, GuardInv, NEW c \in Calls,
         WorkNode(c) \/ ApplyNode(c) \/ GateBypass(c) \/ GateResume(c)
  PROVE  GuardInv'
<1> DEFINE n == call[c].node
           st == call[c].st
<1>1. /\ Executing(c) /\ call[c].pc = "run" /\ UNCHANGED store
      /\ Kind[n] = "gate" <=> (GateBypass(c) \/ GateResume(c))
  BY DEF WorkNode, ApplyNode, GateBypass, GateResume, AtNode, Executing
<1>2. st \in Bag /\ n \in Nodes
  BY <1>1, AtNodeType
<1>3. ASSUME WorkNode(c) \/ ApplyNode(c) PROVE n \notin Gates
  BY <1>3 DEF WorkNode, ApplyNode, AtNode, Gates
<1>4. CASE WorkNode(c)
  <2>1. CASE WriteField[n] = Unset
    <3>1. Advance(c, st, {YamlNode(n)}) /\ SameGateKeys(st, st)
      BY <1>4, <2>1 DEF WorkNode, SameGateKeys
    <3> QED BY <1>1, <1>2, <1>3, <1>4, <3>1, NodeGuard
  <2>2. CASE WriteField[n] # Unset
    <3>0. \E v \in Values : Advance(c, [st EXCEPT !.data[WriteField[n]] = v], {YamlNode(n)})
      BY <1>4, <2>2, Zenon DEF WorkNode
    <3>1. PICK v \in Values : Advance(c, [st EXCEPT !.data[WriteField[n]] = v], {YamlNode(n)})
      BY <3>0
    <3>2. WriteField[n] \in Fields
      BY <1>2, <2>2, GraphAssumption
    <3> DEFINE w == [st EXCEPT !.data[WriteField[n]] = v]
    <3>3. w \in Bag
      BY <1>2, <3>2, WorkBag
    <3>4. SameGateKeys(st, w) /\ w.resume_at = st.resume_at
      BY <1>2 DEF SameGateKeys, Bag
    <3>5. Advance(c, w, {YamlNode(n)})
      BY <3>1
    <3> HIDE DEF w
    <3> QED BY <1>1, <1>2, <1>3, <1>4, <3>3, <3>4, <3>5, NodeGuard
  <2> QED BY <2>1, <2>2
<1>5. CASE ApplyNode(c)
  <2> DEFINE w == ApplyOutcome(n, st)
  <2>1. w \in Bag
    BY <1>2, ApplyBag
  <2>2. SameGateKeys(st, w) /\ w.resume_at = st.resume_at
    BY <1>2 DEF SameGateKeys, Bag, ApplyOutcome
  <2>3. Advance(c, w, {YamlNode(n)})
    BY <1>5 DEF ApplyNode
  <2> HIDE DEF w
  <2> QED BY <1>1, <1>2, <1>3, <1>5, <2>1, <2>2, <2>3, NodeGuard
<1>6. CASE GateBypass(c)
  <2>1. Cleared(n, st)
    BY <1>6 DEF GateBypass, Bypassed, Cleared
  <2>2. Advance(c, st, {}) /\ SameGateKeys(st, st)
    BY <1>6 DEF GateBypass, SameGateKeys
  <2> QED BY <1>1, <1>2, <2>1, <2>2, NodeGuard
<1>7. CASE GateResume(c)
  <2> DEFINE w == GateBag(n, st)
  <2>1. Cleared(n, st)
    BY <1>7 DEF GateResume, Decided, Cleared
  <2>2. w \in Bag
    BY <1>2, GateBagType
  <2>3. SameGateKeys(st, w) /\ w.resume_at = Unset
    BY <1>2 DEF GateBag, SameGateKeys, Bag
  <2>4. Advance(c, w, {})
    BY <1>7 DEF GateResume, GateBag
  <2> HIDE DEF w
  <2> QED BY <1>1, <1>2, <2>1, <2>2, <2>3, <2>4, NodeGuard
<1> QED BY <1>4, <1>5, <1>6, <1>7

\* A gate that pauses has everything before it cleared, so the gates before the node
\* the resume restarts at are cleared once this one is decided.
LEMMA PauseRecordGuard ==
  ASSUME TypeInv, GuardInv, NEW c \in Calls, Executing(c), Kind[call[c].node] = "gate",
         NEW r, r.agent = Owner[call[c].node], r.gate = GateId[call[c].node],
         SameGateKeys(call[c].st, r.st)
  PROVE  RecordGuard(r)
<1> DEFINE n == call[c].node
<1>1. n \in Gates
  BY AtNodeType DEF Executing, Gates
<1> SUFFICES ASSUME NEW m \in Nodes, GraphOf[m] = r.agent, Id[m] = r.gate,
                    NEW g \in Gated[m], GateId[g] # r.gate
             PROVE  Cleared(g, r.st)
  BY DEF RecordGuard
<1>2. PICK h \in Gated[n] : GateId[h] = GateId[g] /\ Owner[h] = Owner[g]
  BY <1>1, ResumeTargetAssumption
<1>3. Cleared(h, call[c].st)
  BY <1>2, RunsCleared
<1>4. Cleared(h, r.st)
  BY <1>3, ClearedSame
<1> QED BY <1>2, <1>4 DEF Cleared

LEMMA GatePauseGuard ==
  ASSUME TypeInv, GuardInv, NEW c \in Calls, GatePause(c)
  PROVE  GuardInv'
<1> DEFINE n == call[c].node
           st == call[c].st
<1>0. Executing(c) /\ Kind[n] = "gate" /\ call[c].pc = "run"
  BY DEF GatePause, AtNode, Executing
<1>1. call[c] \in Call /\ st \in Bag /\ n \in Nodes
  BY <1>0, AtNodeType
<1> DEFINE rec(s) == [agent |-> Owner[n], status |-> "waiting_hitl", gate |-> GateId[n],
                      st |-> Snapshot(n, st, s),
                      done |-> call[c].before \cup call[c].ran]
<1>2. PICK s \in IF st.session = Unset THEN Sessions \ issued ELSE {st.session} :
        /\ store' = [store EXCEPT ![s] = rec(s)]
        /\ call' = [call EXCEPT ![c].pc = "audit_pause", ![c].st = Snapshot(n, st, s)]
  BY DEF GatePause, Snapshot
<1>3. s \in Sessions
  BY <1>1, <1>2 DEF Bag
<1> DEFINE x == rec(s)
<1>4. SameGateKeys(st, x.st)
  BY <1>1, <1>3, SnapshotType DEF SameGateKeys
<1>5. x.agent = Owner[n] /\ x.gate = GateId[n]
  OBVIOUS
<1>6. RecordGuard(x)
  <2> HIDE DEF x
  <2> QED BY <1>0, <1>4, <1>5, PauseRecordGuard
<1>7. \A z \in Sessions : store'[z] = IF z = s THEN x ELSE store[z]
  BY <1>2, <1>3 DEF TypeInv, TypeOK
<1>8. \A z \in Sessions : store'[z] # Unset => RecordGuard(store'[z])
  <2> HIDE DEF x
  <2> QED BY <1>6, <1>7 DEF GuardInv
<1>9. \A d \in Calls : d # c => call'[d] = call[d]
  BY <1>2 DEF TypeInv, TypeOK
<1>10. call'[c].pc = "audit_pause"
  BY <1>1, <1>2 DEF TypeInv, TypeOK, Call
<1>11. \A d \in Calls : CallGuard(call'[d])
  BY <1>9, <1>10 DEF GuardInv, CallGuard
<1> QED BY <1>8, <1>11 DEF GuardInv

\* The steps that leave the run and the records alone: the call ends, or a row is
\* appended.
LEMMA QuietGuard ==
  ASSUME TypeInv, GuardInv, NEW c \in Calls, NEW pc \in PCs \ {"audit_resume", "run"},
         pc = "compile" => call[c].pc = "audit_resume",
         \A d \in Calls : d # c => call'[d] = call[d],
         call'[c].pc = pc, call'[c].st = call[c].st, call'[c].agent = call[c].agent,
         UNCHANGED store
  PROVE  GuardInv'
<1>1. CallGuard(call'[c])
  BY DEF GuardInv, CallGuard
<1>2. \A d \in Calls : CallGuard(call'[d])
  BY <1>1 DEF GuardInv
<1> QED BY <1>2 DEF GuardInv

LEMMA EndGuard ==
  ASSUME TypeInv, GuardInv, NEW c \in Calls,
         \/ AuditResume(c) \/ AuditPause(c) \/ CloseAudit(c) \/ CloseRead(c)
         \/ HostPersist(c) \/ Abort(c)
  PROVE  GuardInv'
<1>1. call \in [Calls -> Call] /\ call[c] \in Call
  BY DEF TypeInv, TypeOK
<1>2. \A d \in Calls : d # c => call'[d] = call[d]
  BY <1>1 DEF AuditResume, AuditPause, CloseAudit, CloseRead, HostPersist, Abort
<1>3. call'[c].st = call[c].st /\ call'[c].agent = call[c].agent /\ UNCHANGED store
  BY <1>1 DEF AuditResume, AuditPause, CloseAudit, CloseRead, HostPersist, Abort, Call
<1>4. /\ call'[c].pc \in {"compile", "done", "returned", "close_write", "failed"}
      /\ call'[c].pc = "compile" => call[c].pc = "audit_resume"
  BY <1>1 DEF AuditResume, AuditPause, CloseAudit, CloseRead, HostPersist, Abort, Call
<1>5. call'[c].pc \in PCs \ {"audit_resume", "run"}
  BY <1>4 DEF PCs, Running
<1> QED BY <1>2, <1>3, <1>4, <1>5, QuietGuard

LEMMA RefusedGuard ==
  ASSUME TypeInv, GuardInv, NEW c \in Calls, NEW s, NEW d, NEW p, NEW known,
         ResumeRefused(c, s, d, p, known)
  PROVE  GuardInv'
<1>1. call \in [Calls -> Call] /\ call[c] \in Call
  BY DEF TypeInv, TypeOK
<1>2. /\ \A e \in Calls : e # c => call'[e] = call[e]
      /\ call'[c].pc = "failed" /\ call'[c].st = call[c].st
      /\ call'[c].agent = call[c].agent /\ UNCHANGED store
  BY <1>1 DEF ResumeRefused, Call
<1>3. "failed" \in PCs \ {"audit_resume", "run"}
  BY DEF PCs
<1> QED BY <1>2, <1>3, QuietGuard

\* The resumed run starts at the entry, behind no gate, with hitl_resume_at set.
LEMMA CreateAgentGuard ==
  ASSUME TypeInv, GuardInv, NEW c \in Calls, CreateAgent(c)
  PROVE  GuardInv'
<1> DEFINE r == IF call[c].agent # Unset
                THEN [call[c] EXCEPT !.pc = "run", !.node = Start[call[c].agent]]
                ELSE [call[c] EXCEPT !.pc = "failed"]
<1>1. call[c] \in Call /\ call[c].pc = "compile" /\ CallGuard(call[c])
  BY DEF TypeInv, TypeOK, GuardInv, CreateAgent
<1>2. r.st = call[c].st /\ r.agent = call[c].agent
      /\ r.pc = IF call[c].agent # Unset THEN "run" ELSE "failed"
  BY <1>1 DEF Call
<1>3. CallGuard(r)
  <2> HIDE DEF r
  <2> QED BY <1>1, <1>2 DEF CallGuard
<1>4. call' = [call EXCEPT ![c] = r] /\ UNCHANGED store
  BY <1>1 DEF CreateAgent, TypeInv, TypeOK
<1> HIDE DEF r
<1> QED BY <1>3, <1>4, CallGuardStep

LEMMA CloseWriteGuard ==
  ASSUME TypeInv, GuardInv, NEW c \in Calls, CloseWrite(c)
  PROVE  GuardInv'
<1> DEFINE z == call[c].st.session
           x == [call[c].found EXCEPT !.status = "closed", !.st = call[c].st,
                                      !.done = call[c].before \cup call[c].ran]
<1>1. call[c] \in Call /\ Shape(call[c]) /\ call \in [Calls -> Call]
      /\ store \in [Sessions -> Record \cup {Unset}]
  BY DEF TypeInv, TypeOK, ShapeOK
<1>2. call[c].found \in Record /\ z \in Sessions
  BY <1>1 DEF CloseWrite, Shape, Call, Running
<1>3. x.status = "closed"
  BY <1>2 DEF Record
<1>4. \A s \in Sessions : store'[s] = IF s = z THEN x ELSE store[s]
  BY <1>1, <1>2 DEF CloseWrite
<1>5. \A s \in Sessions : store'[s] # Unset => RecordGuard(store'[s])
  <2> HIDE DEF x
  <2> QED BY <1>3, <1>4 DEF GuardInv, RecordGuard
<1>6. /\ \A d \in Calls : d # c => call'[d] = call[d]
      /\ call'[c].pc = "close_audit"
  BY <1>1 DEF CloseWrite, Call
<1>7. \A d \in Calls : CallGuard(call'[d])
  BY <1>6 DEF GuardInv, CallGuard
<1> QED BY <1>5, <1>7 DEF GuardInv

LEMMA GuardStep == TypeInv /\ GuardInv /\ [Next]_vars => GuardInv'
<1> SUFFICES ASSUME TypeInv, GuardInv, [Next]_vars PROVE GuardInv'
  OBVIOUS
<1>1. CASE UNCHANGED vars
  BY <1>1 DEF vars, GuardInv
<1>2. ASSUME NEW c \in Calls, NEW a \in Agents, NEW i \in Inputs, Invoke(c, a, i)
      PROVE  GuardInv'
  BY <1>2, InvokeGuard
<1>3. ASSUME NEW c \in Calls, NEW s \in Sessions, NEW d \in HitlDecisions,
             NEW p \in Patches, NEW known \in BOOLEAN,
             Resume(c, s, d, p, known) \/ ResumeRefused(c, s, d, p, known)
      PROVE  GuardInv'
  BY <1>3, ResumeGuard, RefusedGuard
<1>4. ASSUME NEW c \in Calls, Step(c)
      PROVE  GuardInv'
  BY <1>4, SkipGuard, NodeStepGuard, GatePauseGuard, CreateAgentGuard, CloseWriteGuard,
     EndGuard DEF Step
<1>5. ASSUME NEW c \in Calls, Abort(c)
      PROVE  GuardInv'
  BY <1>5, EndGuard
<1>6. ASSUME NEW s \in Sessions, DeleteSession(s)
      PROVE  GuardInv'
  <2>1. UNCHANGED call
    BY <1>6 DEF DeleteSession
  <2>2. \A z \in Sessions : store'[z] = Unset \/ store'[z] = store[z]
    BY <1>6 DEF DeleteSession, TypeInv, TypeOK
  <2> QED BY <2>1, <2>2 DEF GuardInv
<1>7. CASE AllReturned
  BY <1>1, <1>7 DEF AllReturned
<1> QED BY <1>1, <1>2, <1>3, <1>4, <1>5, <1>6, <1>7 DEF Next

\* No node runs behind an undecided gate: for every graph whose gate ids satisfy
\* ResumeTargetAssumption, every reviewer and every interleaving with crashes,
\* failures and deletions.  Code: skip_until_resume, hitl_gate_factory,
\* persist_hitl_pause and resume_hitl_session.
THEOREM GuardedRunsCorrect == Spec => []GuardedRuns
<1>1. TypeInv /\ GuardInv => GuardedRuns
  BY RunsCleared DEF GuardedRuns
<1> QED BY <1>1, InitType, TypeStep, InitGuard, GuardStep, PTL DEF Spec
-----------------------------------------------------------------------------
(* Every decision a run acts on has been audited, and a waiting record can be answered.

   The snapshot of a record outlives the run that took it, so the invariant follows the
   decisions into the store (RecordAudit) and into a resume that has merged one more
   decision than the trail holds (the second conjunct of CallAudit). *)

AuditedIn(A, st, k) ==
  \E e \in A : /\ e.action = "hitl.resume" /\ e.session = st.session
               /\ e.gate = k /\ e.decision = st.decisions[k]

AuditedBut(A, st, g) ==
  \A k \in Ids \ {g} : st.decisions[k] # Unset => AuditedIn(A, st, k)

CallAudit(A, r) ==
  /\ r.pc \in {"compile", "run"} => AuditedBut(A, r.st, Unset)
  /\ r.pc = "audit_resume" =>
       AuditedBut(A, r.st, r.gate) /\ r.st.decisions[r.gate] = r.choice

RecordAudit(A, s, r) ==
  r.status = "waiting_hitl" =>
    /\ AuditedBut(A, r.st, Unset)
    /\ r.st.session = s /\ r.st.status = "waiting_hitl"
    /\ r.st.resume_at = r.gate /\ r.st.decisions[r.gate] = Unset

AuditInv ==
  /\ \A c \in Calls : CallAudit(audit, call[c])
  /\ \A s \in Sessions : store[s] # Unset => RecordAudit(audit, s, store[s])

\* The trail only grows.
LEMMA AuditGrows ==
  ASSUME NEW A, NEW B, A \subseteq B
  PROVE  /\ \A st, g : AuditedBut(A, st, g) => AuditedBut(B, st, g)
         /\ \A r : CallAudit(A, r) => CallAudit(B, r)
         /\ \A s, r : RecordAudit(A, s, r) => RecordAudit(B, s, r)
<1>1. \A st, g : AuditedBut(A, st, g) => AuditedBut(B, st, g)
  BY DEF AuditedBut, AuditedIn
<1>2. \A r : CallAudit(A, r) => CallAudit(B, r)
  BY <1>1 DEF CallAudit
<1>3. \A s, r : RecordAudit(A, s, r) => RecordAudit(B, s, r)
  BY <1>1 DEF RecordAudit
<1> QED BY <1>1, <1>2, <1>3

\* The same decisions for the same session.
LEMMA AuditSame ==
  ASSUME NEW A, NEW st, NEW st2, st2.decisions = st.decisions, st2.session = st.session,
         NEW g, AuditedBut(A, st, g)
  PROVE  AuditedBut(A, st2, g)
BY DEF AuditedBut, AuditedIn

\* A step of c that writes no record.
LEMMA AuditCallStep ==
  ASSUME TypeInv, AuditInv, NEW c \in Calls, NEW r, CallAudit(audit', r),
         \A d \in Calls : call'[d] = IF d = c THEN r ELSE call[d],
         UNCHANGED store, audit \subseteq audit'
  PROVE  AuditInv'
<1>1. \A d \in Calls : CallAudit(audit', call'[d])
  BY AuditGrows DEF AuditInv
<1>2. \A s \in Sessions : store'[s] # Unset => RecordAudit(audit', s, store'[s])
  BY AuditGrows DEF AuditInv
<1> QED BY <1>1, <1>2 DEF AuditInv

LEMMA InitAudit == Init => AuditInv
<1>1. NoCall.pc = "idle"
  BY DEF NoCall
<1> QED BY <1>1 DEF Init, AuditInv, CallAudit

LEMMA InvokeAudit ==
  ASSUME TypeInv, AuditInv, NEW c \in Calls, NEW a \in Agents, NEW i \in Inputs,
         Invoke(c, a, i)
  PROVE  AuditInv'
<1> DEFINE r == [NoCall EXCEPT !.pc = "run", !.agent = a, !.node = Start[a],
                               !.st = FreshBag(i)]
<1>1. r.pc = "run" /\ \A k \in Ids : r.st.decisions[k] = Unset
  BY DEF NoCall, FreshBag
<1>2. CallAudit(audit, r)
  BY <1>1 DEF CallAudit, AuditedBut
<1>3. call' = [call EXCEPT ![c] = r] /\ UNCHANGED <<store, audit>>
  BY DEF Invoke
<1> HIDE DEF r
<1>4. \A d \in Calls : call'[d] = IF d = c THEN r ELSE call[d]
  BY <1>3 DEF TypeInv, TypeOK
<1> QED BY <1>2, <1>3, <1>4, AuditCallStep

\* All decisions of the merged bag but the new one were in the record.
LEMMA ResumeAudit ==
  ASSUME TypeInv, AuditInv, NEW c \in Calls, NEW s \in Sessions, NEW d \in HitlDecisions,
         NEW p \in Patches, NEW known \in BOOLEAN, Resume(c, s, d, p, known)
  PROVE  AuditInv'
<1> DEFINE r == store[s]
           policy == PolicyFor(r, known)
           st == MergeDecision(r.st, s, r.gate, d)
           data == PatchData(st.data, ResumePatch(policy, d, p), ResumeTarget(policy, d))
           st2 == [st EXCEPT !.data = data]
           n == [pc |-> "audit_resume", kind |-> "resume",
                 agent |-> IF known THEN r.agent ELSE Unset, node |-> End,
                 st |-> st2, gate |-> r.gate, choice |-> d, found |-> Unset,
                 before |-> r.done, ran |-> {}]
<1>1. r \in Record /\ r.status = "waiting_hitl" /\ RecordAudit(audit, s, r)
  BY DEF Resume, Resumable, Waiting, MayKnow, TypeInv, TypeOK, AuditInv
<1>2. r.st \in Bag /\ r.gate \in Ids
  BY <1>1 DEF Record
<1>3. /\ st \in Bag /\ st.session = s
      /\ st.decisions = [r.st.decisions EXCEPT ![r.gate] = d]
  BY <1>2 DEF MergeDecision, Bag, Decision
<1>4. st2.decisions = [r.st.decisions EXCEPT ![r.gate] = d] /\ st2.session = s
  <2> HIDE DEF st, data
  <2> QED BY <1>3 DEF Bag
<1>5. /\ st2.decisions[r.gate] = d
      /\ \A k \in Ids \ {r.gate} : st2.decisions[k] = r.st.decisions[k]
  <2> HIDE DEF st2
  <2> QED BY <1>2, <1>4 DEF Bag
<1>6. AuditedBut(audit, st2, r.gate)
  <2> HIDE DEF st2, r
  <2>1. AuditedBut(audit, r.st, Unset) /\ r.st.session = s
    BY <1>1 DEF RecordAudit
  <2>2. Unset \notin Ids
    BY GraphAssumption
  <2> QED BY <1>4, <1>5, <2>1, <2>2 DEF AuditedBut, AuditedIn
<1>7. CallAudit(audit, n)
  <2> HIDE DEF r, st2
  <2> QED BY <1>5, <1>6 DEF CallAudit
<1>8. call' = [call EXCEPT ![c] = n] /\ UNCHANGED <<store, audit>>
  BY DEF Resume
<1> HIDE DEF n
<1>9. \A e \in Calls : call'[e] = IF e = c THEN n ELSE call[e]
  BY <1>8 DEF TypeInv, TypeOK
<1> QED BY <1>7, <1>8, <1>9, AuditCallStep

\* No node touches the decisions or the session of the bag.
LEMMA AdvanceAudit ==
  ASSUME TypeInv, AuditInv, NEW c \in Calls, call[c].pc = "run", NEW st,
         st.decisions = call[c].st.decisions, st.session = call[c].st.session,
         NEW ran, Advance(c, st, ran), UNCHANGED <<store, audit>>
  PROVE  AuditInv'
<1> DEFINE r == Moved(c, st, ran)
<1>1. call[c] \in Call /\ CallAudit(audit, call[c])
  BY DEF TypeInv, TypeOK, AuditInv
<1>2. r.st = st /\ r.pc \in {"run", "done", "close_read", "returned"}
  BY <1>1 DEF Moved, AfterRun, Call
<1>3. AuditedBut(audit, st, Unset)
  BY <1>1, AuditSame DEF CallAudit
<1>4. \A d \in Calls : call'[d] = IF d = c THEN r ELSE call[d]
  <2>1. call' = [call EXCEPT ![c] = r]
    BY AdvanceMoves DEF TypeInv
  <2> HIDE DEF r
  <2> QED BY <2>1 DEF TypeInv, TypeOK
<1> HIDE DEF r
<1>5. CallAudit(audit, r)
  BY <1>2, <1>3 DEF CallAudit
<1> QED BY <1>4, <1>5, AuditCallStep

LEMMA GraphStepAudit ==
  ASSUME TypeInv, AuditInv, NEW c \in Calls,
         \/ SkipNode(c) \/ WorkNode(c) \/ ApplyNode(c) \/ GateBypass(c) \/ GateResume(c)
  PROVE  AuditInv'
<1> DEFINE n == call[c].node
           st == call[c].st
<1>0. call[c].pc = "run" /\ UNCHANGED <<store, audit>>
  BY DEF SkipNode, WorkNode, ApplyNode, GateBypass, GateResume, AtNode
<1>1. st \in Bag /\ n \in Nodes
  BY <1>0, AtNodeType
<1>2. CASE SkipNode(c) \/ GateBypass(c)
  BY <1>0, <1>2, AdvanceAudit DEF SkipNode, GateBypass
<1>3. CASE WorkNode(c)
  <2>1. CASE WriteField[n] = Unset
    BY <1>0, <1>3, <2>1, AdvanceAudit DEF WorkNode
  <2>2. CASE WriteField[n] # Unset
    <3>0. \E v \in Values : Advance(c, [st EXCEPT !.data[WriteField[n]] = v], {YamlNode(n)})
      BY <1>3, <2>2, Zenon DEF WorkNode
    <3>1. PICK v \in Values : Advance(c, [st EXCEPT !.data[WriteField[n]] = v], {YamlNode(n)})
      BY <3>0
    <3> DEFINE w == [st EXCEPT !.data[WriteField[n]] = v]
    <3>2. w.decisions = st.decisions /\ w.session = st.session
      BY <1>1 DEF Bag
    <3>3. Advance(c, w, {YamlNode(n)})
      BY <3>1
    <3> HIDE DEF w
    <3> QED BY <1>0, <3>2, <3>3, AdvanceAudit
  <2> QED BY <2>1, <2>2
<1>4. CASE ApplyNode(c)
  <2> DEFINE w == ApplyOutcome(n, st)
  <2>1. w.decisions = st.decisions /\ w.session = st.session
    BY <1>1 DEF ApplyOutcome, Bag
  <2>2. Advance(c, w, {YamlNode(n)})
    BY <1>4 DEF ApplyNode
  <2> HIDE DEF w
  <2> QED BY <1>0, <2>1, <2>2, AdvanceAudit
<1>5. CASE GateResume(c)
  <2> DEFINE w == GateBag(n, st)
  <2>1. w.decisions = st.decisions /\ w.session = st.session
    BY <1>1 DEF GateBag, Bag
  <2>2. Advance(c, w, {})
    BY <1>5 DEF GateResume, GateBag
  <2> HIDE DEF w
  <2> QED BY <1>0, <2>1, <2>2, AdvanceAudit
<1> QED BY <1>2, <1>3, <1>4, <1>5

\* A fresh session id is only drawn when the bag has none, and then it has no decision
\* either: a decision in the trail names its session.
LEMMA GatePauseAudit ==
  ASSUME TypeInv, AuditInv, NEW c \in Calls, GatePause(c)
  PROVE  AuditInv'
<1> DEFINE n == call[c].node
           st == call[c].st
<1>0. call[c].pc = "run" /\ ~Decided(n, st) /\ audit' = audit
  BY DEF GatePause, AtNode
<1>1. call[c] \in Call /\ st \in Bag /\ n \in Nodes
  BY <1>0, AtNodeType
<1> DEFINE rec(s) == [agent |-> Owner[n], status |-> "waiting_hitl", gate |-> GateId[n],
                      st |-> Snapshot(n, st, s),
                      done |-> call[c].before \cup call[c].ran]
<1>2. PICK s \in IF st.session = Unset THEN Sessions \ issued ELSE {st.session} :
        /\ store' = [store EXCEPT ![s] = rec(s)]
        /\ call' = [call EXCEPT ![c].pc = "audit_pause", ![c].st = Snapshot(n, st, s)]
  BY DEF GatePause, Snapshot
<1>3. s \in Sessions
  BY <1>1, <1>2 DEF Bag
<1> DEFINE w == Snapshot(n, st, s)
<1>4. /\ w.session = s /\ w.status = "waiting_hitl" /\ w.resume_at = GateId[n]
      /\ w.decisions = st.decisions
  BY <1>1, <1>3, GraphAssumption DEF Snapshot, Bag
<1>5. AuditedBut(audit, st, Unset)
  BY <1>0 DEF AuditInv, CallAudit
<1>6. AuditedBut(audit, w, Unset)
  <2> HIDE DEF w
  <2>1. CASE st.session = s
    BY <1>4, <1>5, <2>1, AuditSame
  <2>2. CASE st.session = Unset
    <3>1. \A e \in audit : e.session # st.session
      BY <2>2, GraphAssumption DEF TypeInv, TypeOK, Event
    <3>2. \A k \in Ids \ {Unset} : st.decisions[k] = Unset
      BY <1>5, <3>1 DEF AuditedBut, AuditedIn
    <3> QED BY <1>4, <3>2 DEF AuditedBut
  <2> QED BY <1>2, <2>1, <2>2
<1>7. st.decisions[GateId[n]] = Unset
  BY <1>0 DEF Decided
<1> DEFINE x == rec(s)
<1>8. x.status = "waiting_hitl" /\ x.gate = GateId[n] /\ x.st = w
  OBVIOUS
<1>9. RecordAudit(audit, s, x)
  <2> HIDE DEF x, w
  <2> QED BY <1>4, <1>6, <1>7, <1>8 DEF RecordAudit
<1>10. \A z \in Sessions : store'[z] = IF z = s THEN x ELSE store[z]
  BY <1>2, <1>3 DEF TypeInv, TypeOK
<1>11. \A z \in Sessions : store'[z] # Unset => RecordAudit(audit', z, store'[z])
  <2> HIDE DEF x
  <2> QED BY <1>0, <1>9, <1>10 DEF AuditInv
<1>12. /\ \A d \in Calls : d # c => call'[d] = call[d]
       /\ call'[c].pc = "audit_pause"
  BY <1>1, <1>2 DEF TypeInv, TypeOK, Call
<1>13. \A d \in Calls : CallAudit(audit', call'[d])
  BY <1>0, <1>12 DEF AuditInv, CallAudit
<1> QED BY <1>11, <1>13 DEF AuditInv

\* The row that completes the trail of the merged bag.
LEMMA AuditResumeAudit ==
  ASSUME TypeInv, AuditInv, NEW c \in Calls, AuditResume(c)
  PROVE  AuditInv'
<1> DEFINE row == [action |-> "hitl.resume", call |-> c, session |-> call[c].st.session,
                   gate |-> call[c].gate, decision |-> call[c].choice]
           r == [call[c] EXCEPT !.pc = "compile"]
<1>1. call[c] \in Call /\ call[c].pc = "audit_resume" /\ CallAudit(audit, call[c])
  BY DEF TypeInv, TypeOK, AuditInv, AuditResume
<1>2. audit' = audit \cup {row} /\ UNCHANGED store
  BY DEF AuditResume
<1>3. AuditedBut(audit, call[c].st, call[c].gate)
      /\ call[c].st.decisions[call[c].gate] = call[c].choice
  BY <1>1 DEF CallAudit
<1>4. AuditedBut(audit', call[c].st, call[c].gate)
  BY <1>2, <1>3, AuditGrows
<1>5. AuditedIn(audit', call[c].st, call[c].gate)
  <2>1. row \in audit' /\ row.action = "hitl.resume" /\ row.session = call[c].st.session
        /\ row.gate = call[c].gate /\ row.decision = call[c].st.decisions[call[c].gate]
    BY <1>2, <1>3
  <2> QED BY <2>1 DEF AuditedIn
<1>6. AuditedBut(audit', call[c].st, Unset)
  BY <1>4, <1>5 DEF AuditedBut
<1>7. r.st = call[c].st /\ r.pc = "compile"
  BY <1>1 DEF Call
<1>8. \A d \in Calls : call'[d] = IF d = c THEN r ELSE call[d]
  BY DEF AuditResume, TypeInv, TypeOK
<1> HIDE DEF r
<1>9. CallAudit(audit', r)
  BY <1>6, <1>7 DEF CallAudit
<1> QED BY <1>2, <1>8, <1>9, AuditCallStep

LEMMA CreateAgentAudit ==
  ASSUME TypeInv, AuditInv, NEW c \in Calls, CreateAgent(c)
  PROVE  AuditInv'
<1> DEFINE r == IF call[c].agent # Unset
                THEN [call[c] EXCEPT !.pc = "run", !.node = Start[call[c].agent]]
                ELSE [call[c] EXCEPT !.pc = "failed"]
<1>1. call[c] \in Call /\ call[c].pc = "compile" /\ CallAudit(audit, call[c])
  BY DEF TypeInv, TypeOK, AuditInv, CreateAgent
<1>2. r.st = call[c].st /\ r.pc \in {"run", "failed"}
  BY <1>1 DEF Call
<1>3. CallAudit(audit, r)
  <2> HIDE DEF r
  <2> QED BY <1>1, <1>2 DEF CallAudit
<1>4. call' = [call EXCEPT ![c] = r] /\ UNCHANGED <<store, audit>>
  BY <1>1 DEF CreateAgent, TypeInv, TypeOK
<1> HIDE DEF r
<1>5. \A d \in Calls : call'[d] = IF d = c THEN r ELSE call[d]
  BY <1>4 DEF TypeInv, TypeOK
<1> QED BY <1>3, <1>4, <1>5, AuditCallStep

\* close_hitl_session writes a closed record whatever it has read.
LEMMA CloseWriteAudit ==
  ASSUME TypeInv, AuditInv, NEW c \in Calls, CloseWrite(c)
  PROVE  AuditInv'
<1> DEFINE z == call[c].st.session
           x == [call[c].found EXCEPT !.status = "closed", !.st = call[c].st,
                                      !.done = call[c].before \cup call[c].ran]
<1>1. call[c] \in Call /\ Shape(call[c]) /\ call \in [Calls -> Call]
      /\ store \in [Sessions -> Record \cup {Unset}]
  BY DEF TypeInv, TypeOK, ShapeOK
<1>2. call[c].found \in Record /\ z \in Sessions
  BY <1>1 DEF CloseWrite, Shape, Call, Running
<1>3. x.status = "closed"
  BY <1>2 DEF Record
<1>4. (\A s \in Sessions : store'[s] = IF s = z THEN x ELSE store[s]) /\ audit' = audit
  BY <1>1, <1>2 DEF CloseWrite
<1>5. \A s \in Sessions : store'[s] # Unset => RecordAudit(audit', s, store'[s])
  <2> HIDE DEF x
  <2> QED BY <1>3, <1>4 DEF AuditInv, RecordAudit
<1>6. /\ \A d \in Calls : d # c => call'[d] = call[d]
      /\ call'[c].pc = "close_audit"
  BY <1>1 DEF CloseWrite, Call
<1>7. \A d \in Calls : CallAudit(audit', call'[d])
  BY <1>4, <1>6 DEF AuditInv, CallAudit
<1> QED BY <1>5, <1>7 DEF AuditInv

\* The steps after which c no longer runs its bag.
LEMMA EndAudit ==
  ASSUME TypeInv, AuditInv, NEW c \in Calls,
         \/ AuditPause(c) \/ CloseAudit(c) \/ CloseRead(c) \/ HostPersist(c) \/ Abort(c)
         \/ \E s, d, p, known : ResumeRefused(c, s, d, p, known)
  PROVE  AuditInv'
<1>1. call \in [Calls -> Call] /\ call[c] \in Call
  BY DEF TypeInv, TypeOK
<1>2. \A d \in Calls : d # c => call'[d] = call[d]
  BY <1>1 DEF AuditPause, CloseAudit, CloseRead, HostPersist, Abort, ResumeRefused
<1>3. UNCHANGED store /\ audit \subseteq audit'
  BY DEF AuditPause, CloseAudit, CloseRead, HostPersist, Abort, ResumeRefused
<1>4. call'[c].pc \in {"done", "returned", "close_write", "failed"}
  BY <1>1 DEF AuditPause, CloseAudit, CloseRead, HostPersist, Abort, ResumeRefused, Call
<1>5. CallAudit(audit', call'[c])
  BY <1>4 DEF CallAudit
<1>6. \A d \in Calls : CallAudit(audit', call'[d])
  BY <1>2, <1>3, <1>5, AuditGrows DEF AuditInv
<1>7. \A s \in Sessions : store'[s] # Unset => RecordAudit(audit', s, store'[s])
  BY <1>3, AuditGrows DEF AuditInv
<1> QED BY <1>6, <1>7 DEF AuditInv

LEMMA AuditStep == TypeInv /\ AuditInv /\ [Next]_vars => AuditInv'
<1> SUFFICES ASSUME TypeInv, AuditInv, [Next]_vars PROVE AuditInv'
  OBVIOUS
<1>1. CASE UNCHANGED vars
  BY <1>1 DEF vars, AuditInv
<1>2. ASSUME NEW c \in Calls, NEW a \in Agents, NEW i \in Inputs, Invoke(c, a, i)
      PROVE  AuditInv'
  BY <1>2, InvokeAudit
<1>3. ASSUME NEW c \in Calls, NEW s \in Sessions, NEW d \in HitlDecisions,
             NEW p \in Patches, NEW known \in BOOLEAN,
             Resume(c, s, d, p, known) \/ ResumeRefused(c, s, d, p, known)
      PROVE  AuditInv'
  BY <1>3, ResumeAudit, EndAudit
<1>4. ASSUME NEW c \in Calls, Step(c)
      PROVE  AuditInv'
  BY <1>4, GraphStepAudit, GatePauseAudit, AuditResumeAudit, CreateAgentAudit,
     CloseWriteAudit, EndAudit DEF Step
<1>5. ASSUME NEW c \in Calls, Abort(c)
      PROVE  AuditInv'
  BY <1>5, EndAudit
<1>6. ASSUME NEW s \in Sessions, DeleteSession(s)
      PROVE  AuditInv'
  <2>1. UNCHANGED <<call, audit>>
    BY <1>6 DEF DeleteSession
  <2>2. \A z \in Sessions : store'[z] = Unset \/ store'[z] = store[z]
    BY <1>6 DEF DeleteSession, TypeInv, TypeOK
  <2> QED BY <2>1, <2>2 DEF AuditInv
<1>7. CASE AllReturned
  BY <1>1, <1>7 DEF AllReturned
<1> QED BY <1>1, <1>2, <1>3, <1>4, <1>5, <1>6, <1>7 DEF Next

\* No run acts on a decision that the audit trail does not hold.  Code:
\* resume_hitl_session appends the row between the merge and the run, and every
\* snapshot carries on the decisions of the run that took it.
THEOREM AuditedDecisionsCorrect == Spec => []AuditedDecisions
<1>1. AuditInv => AuditedDecisions
  <2>1. Unset \notin Ids
    BY GraphAssumption
  <2> QED BY <2>1 DEF AuditInv, CallAudit, AuditedBut, AuditedIn, AuditedDecisions, Audited
<1> QED BY <1>1, InitType, TypeStep, InitAudit, AuditStep, PTL DEF Spec

\* A record that waits can always be answered, whichever writer came last.  Code:
\* persist_hitl_pause is the only writer of waiting_hitl and writes its own snapshot.
THEOREM WaitingIsUndecidedCorrect == Spec => []WaitingIsUndecided
<1>1. AuditInv => WaitingIsUndecided
  BY DEF AuditInv, RecordAudit, WaitingIsUndecided, Waiting
<1> QED BY <1>1, InitType, TypeStep, InitAudit, AuditStep, PTL DEF Spec
-----------------------------------------------------------------------------
(* The session store implements HitlLifecycle.

   Where the host admits one call per session at a time (and lets no caller name a
   session of its own), a call that answers a session is alone with its record until
   it has paused again or closed it: the record still waits at the gate the call
   answers, and the bag of the call holds the decisions of the record and one more.
   That is CallLife, and Distinct says why no other call can come between. *)

Serial == OnePerSession /\ \A i \in Inputs : i.session = Unset

Answering == {"audit_resume", "compile", "run", "close_read", "close_write"}

\* The record in store S that call state r answers is as r has read it.
Owns(S, r) ==
  LET s == r.st.session
  IN  /\ s \in Sessions /\ S[s] # Unset /\ S[s].status = "waiting_hitl"
      /\ S[s].gate = r.gate /\ r.choice \in HitlDecisions
      /\ r.st.decisions = [S[s].st.decisions EXCEPT ![r.gate] = r.choice]

CallLife(S, I, r) ==
  /\ r.pc \in Running => r.st.session \in I \cup {Unset}
  /\ (r.kind = "invoke" /\ r.pc = "run") =>
       r.st.session = Unset /\ \A k \in Ids : r.st.decisions[k] = Unset
  /\ (r.kind = "resume" /\ r.pc \in Answering) => Owns(S, r)
  /\ r.pc = "close_write" => r.kind = "resume" /\ r.found = S[r.st.session]

\* Call states r and q do not work on one session.
Distinct(r, q) ==
  (r.pc \in Running /\ q.pc \in Running /\ r.st.session # Unset)
    => q.st.session # r.st.session

LifeInv ==
  /\ \A s \in Sessions : store[s] # Unset => s \in issued
  /\ \A c \in Calls : CallLife(store, issued, call[c])
  /\ \A c, d \in Calls : c # d => Distinct(call[c], call[d])

\* A step of c that writes no record but its own.
LEMMA LifeCallStep ==
  ASSUME LifeInv, NEW c \in Calls, NEW r,
         \A d \in Calls : call'[d] = IF d = c THEN r ELSE call[d],
         issued \subseteq issued',
         \A s \in Sessions : store'[s] # Unset => s \in issued',
         \A s \in Sessions : store'[s] # store[s] => r.pc \in Running /\ s = r.st.session,
         CallLife(store', issued', r),
         \A d \in Calls \ {c} : Distinct(r, call[d])
  PROVE  LifeInv'
<1>1. ASSUME NEW d \in Calls \ {c}, call[d].kind = "resume", call[d].pc \in Answering
      PROVE  Owns(store, call[d]) /\ store'[call[d].st.session] = store[call[d].st.session]
  <2>1. Owns(store, call[d]) /\ call[d].pc \in Running
    BY <1>1 DEF LifeInv, CallLife, Answering, Running
  <2>2. call[d].st.session \in Sessions /\ call[d].st.session # Unset
    BY <2>1, GraphAssumption DEF Owns
  <2> QED BY <2>1, <2>2 DEF Distinct
<1>2. ASSUME NEW d \in Calls \ {c} PROVE CallLife(store', issued', call[d])
  <2>1. CallLife(store, issued, call[d])
    BY DEF LifeInv
  <2>2. call[d].pc \in Running => call[d].st.session \in issued' \cup {Unset}
    BY <2>1 DEF CallLife
  <2>3. (call[d].kind = "resume" /\ call[d].pc \in Answering) => Owns(store', call[d])
    BY <1>1 DEF Owns
  <2>4. call[d].pc = "close_write" =>
          call[d].kind = "resume" /\ call[d].found = store'[call[d].st.session]
    BY <1>1, <2>1 DEF CallLife, Answering
  <2> QED BY <2>1, <2>2, <2>3, <2>4 DEF CallLife
<1>3. \A d \in Calls : CallLife(store', issued', call'[d])
  BY <1>2
<1>4. \A d, e \in Calls : d # e => Distinct(call'[d], call'[e])
  BY DEF LifeInv, Distinct
<1> QED BY <1>3, <1>4 DEF LifeInv

\* A step of c that writes no record and stays with its session.
LEMMA LifeQuiet ==
  ASSUME LifeInv, NEW c \in Calls, NEW r,
         \A d \in Calls : call'[d] = IF d = c THEN r ELSE call[d],
         UNCHANGED <<store, issued>>,
         r.pc \in Running => call[c].pc \in Running /\ r.st.session = call[c].st.session,
         CallLife(store, issued, r)
  PROVE  LifeInv'
<1>1. \A d \in Calls \ {c} : Distinct(r, call[d])
  BY DEF LifeInv, Distinct
<1>2. \A s \in Sessions : store'[s] # Unset => s \in issued'
  BY DEF LifeInv
<1> QED BY <1>1, <1>2, LifeCallStep

LEMMA InitLife == Init => LifeInv
<1>1. NoCall.pc = "idle"
  BY DEF NoCall
<1> QED BY <1>1 DEF Init, LifeInv, CallLife, Distinct, Answering, Running

LEMMA InvokeLife ==
  ASSUME Serial, TypeInv, LifeInv, NEW c \in Calls, NEW a \in Agents, NEW i \in Inputs,
         Invoke(c, a, i)
  PROVE  LifeInv'
<1> DEFINE r == [NoCall EXCEPT !.pc = "run", !.agent = a, !.node = Start[a],
                               !.st = FreshBag(i)]
<1>1. /\ r.pc = "run" /\ r.kind = "invoke" /\ r.st.session = Unset
      /\ \A k \in Ids : r.st.decisions[k] = Unset
  BY DEF NoCall, FreshBag, Serial
<1>2. call' = [call EXCEPT ![c] = r] /\ UNCHANGED <<store, issued>>
  BY DEF Invoke
<1> HIDE DEF r
<1>3. \A d \in Calls : call'[d] = IF d = c THEN r ELSE call[d]
  BY <1>2 DEF TypeInv, TypeOK
<1>4. CallLife(store', issued', r)
  BY <1>1 DEF CallLife
<1>5. \A d \in Calls \ {c} : Distinct(r, call[d])
  BY <1>1 DEF Distinct
<1>6. \A s \in Sessions : store'[s] # Unset => s \in issued'
  BY <1>2 DEF LifeInv
<1> QED BY <1>2, <1>3, <1>4, <1>5, <1>6, LifeCallStep

\* The host lets the resume in when no call is in flight for the session.
LEMMA ResumeLife ==
  ASSUME Serial, TypeInv, LifeInv, NEW c \in Calls, NEW s \in Sessions,
         NEW d \in HitlDecisions, NEW p \in Patches, NEW known \in BOOLEAN,
         Resume(c, s, d, p, known)
  PROVE  LifeInv'
<1> DEFINE r == store[s]
           policy == PolicyFor(r, known)
           st == MergeDecision(r.st, s, r.gate, d)
           data == PatchData(st.data, ResumePatch(policy, d, p), ResumeTarget(policy, d))
           st2 == [st EXCEPT !.data = data]
           n == [pc |-> "audit_resume", kind |-> "resume",
                 agent |-> IF known THEN r.agent ELSE Unset, node |-> End,
                 st |-> st2, gate |-> r.gate, choice |-> d, found |-> Unset,
                 before |-> r.done, ran |-> {}]
<1>1. r \in Record /\ r # Unset /\ r.status = "waiting_hitl"
  BY DEF Resume, Resumable, Waiting, MayKnow, TypeInv, TypeOK
<1>2. r.st \in Bag /\ r.gate \in Ids
  BY <1>1 DEF Record
<1>3. /\ st \in Bag /\ st.session = s
      /\ st.decisions = [r.st.decisions EXCEPT ![r.gate] = d]
  BY <1>2 DEF MergeDecision, Bag, Decision
<1>4. st2.decisions = [r.st.decisions EXCEPT ![r.gate] = d] /\ st2.session = s
  <2> HIDE DEF st, data
  <2> QED BY <1>3 DEF Bag
<1> HIDE DEF st2
<1>5. /\ n.pc = "audit_resume" /\ n.kind = "resume" /\ n.gate = store[s].gate /\ n.choice = d
      /\ n.st.session = s
      /\ n.st.decisions = [store[s].st.decisions EXCEPT ![store[s].gate] = d]
  BY <1>4
<1>6. call' = [call EXCEPT ![c] = n] /\ UNCHANGED <<store, issued>>
  BY DEF Resume, st2
<1> HIDE DEF n
<1>7. \A e \in Calls : call'[e] = IF e = c THEN n ELSE call[e]
  BY <1>6 DEF TypeInv, TypeOK
<1>8. s \in issued /\ Owns(store, n)
  BY <1>1, <1>5 DEF LifeInv, Owns
<1>9. CallLife(store', issued', n)
  BY <1>5, <1>6, <1>8 DEF CallLife
<1>10. \A e \in Calls \ {c} : Distinct(n, call[e])
  BY <1>5 DEF Resume, Admitted, Serial, InFlight, Distinct
<1>11. \A z \in Sessions : store'[z] # Unset => z \in issued'
  BY <1>6 DEF LifeInv
<1> QED BY <1>6, <1>7, <1>9, <1>10, <1>11, LifeCallStep

\* No node touches the decisions or the session of the bag.
LEMMA AdvanceLife ==
  ASSUME TypeInv, LifeInv, NEW c \in Calls, call[c].pc = "run", NEW st,
         st.decisions = call[c].st.decisions, st.session = call[c].st.session,
         NEW ran, Advance(c, st, ran), UNCHANGED <<store, issued>>
  PROVE  LifeInv'
<1> DEFINE r == Moved(c, st, ran)
<1>1. call[c] \in Call /\ CallLife(store, issued, call[c])
  BY DEF TypeInv, TypeOK, LifeInv
<1>2. /\ r.st = st /\ r.kind = call[c].kind /\ r.gate = call[c].gate
      /\ r.choice = call[c].choice /\ r.pc \in {"run", "done", "close_read", "returned"}
  BY <1>1 DEF Moved, AfterRun, Call
<1>3. \A d \in Calls : call'[d] = IF d = c THEN r ELSE call[d]
  <2>1. call' = [call EXCEPT ![c] = r]
    BY AdvanceMoves DEF TypeInv
  <2> HIDE DEF r
  <2> QED BY <2>1 DEF TypeInv, TypeOK
<1> HIDE DEF r
<1>4. Owns(store, call[c]) => Owns(store, r)
  BY <1>2 DEF Owns
<1>5. CallLife(store, issued, r)
  BY <1>1, <1>2, <1>4 DEF CallLife, Answering, Running
<1> QED BY <1>2, <1>3, <1>5, LifeQuiet DEF Running

LEMMA GraphStepLife ==
  ASSUME TypeInv, LifeInv, NEW c \in Calls,
         \/ SkipNode(c) \/ WorkNode(c) \/ ApplyNode(c) \/ GateBypass(c) \/ GateResume(c)
  PROVE  LifeInv'
<1> DEFINE n == call[c].node
           st == call[c].st
<1>0. call[c].pc = "run" /\ UNCHANGED <<store, issued>>
  BY DEF SkipNode, WorkNode, ApplyNode, GateBypass, GateResume, AtNode
<1>1. st \in Bag /\ n \in Nodes
  BY <1>0, AtNodeType
<1>2. CASE SkipNode(c) \/ GateBypass(c)
  BY <1>0, <1>2, AdvanceLife DEF SkipNode, GateBypass
<1>3. CASE WorkNode(c)
  <2>1. CASE WriteField[n] = Unset
    BY <1>0, <1>3, <2>1, AdvanceLife DEF WorkNode
  <2>2. CASE WriteField[n] # Unset
    <3>0. \E v \in Values : Advance(c, [st EXCEPT !.data[WriteField[n]] = v], {YamlNode(n)})
      BY <1>3, <2>2, Zenon DEF WorkNode
    <3>1. PICK v \in Values : Advance(c, [st EXCEPT !.data[WriteField[n]] = v], {YamlNode(n)})
      BY <3>0
    <3> DEFINE w == [st EXCEPT !.data[WriteField[n]] = v]
    <3>2. w.decisions = st.decisions /\ w.session = st.session
      BY <1>1 DEF Bag
    <3>3. Advance(c, w, {YamlNode(n)})
      BY <3>1
    <3> HIDE DEF w
    <3> QED BY <1>0, <3>2, <3>3, AdvanceLife
  <2> QED BY <2>1, <2>2
<1>4. CASE ApplyNode(c)
  <2> DEFINE w == ApplyOutcome(n, st)
  <2>1. w.decisions = st.decisions /\ w.session = st.session
    BY <1>1 DEF ApplyOutcome, Bag
  <2>2. Advance(c, w, {YamlNode(n)})
    BY <1>4 DEF ApplyNode
  <2> HIDE DEF w
  <2> QED BY <1>0, <2>1, <2>2, AdvanceLife
<1>5. CASE GateResume(c)
  <2> DEFINE w == GateBag(n, st)
  <2>1. w.decisions = st.decisions /\ w.session = st.session
    BY <1>1 DEF GateBag, Bag
  <2>2. Advance(c, w, {})
    BY <1>5 DEF GateResume, GateBag
  <2> HIDE DEF w
  <2> QED BY <1>0, <2>1, <2>2, AdvanceLife
<1> QED BY <1>2, <1>3, <1>4, <1>5

\* What a pause writes: the record of the call's session, or of a session whose id
\* nobody had, and nothing else.
LEMMA PauseDoes ==
  ASSUME TypeInv, LifeInv, NEW c \in Calls, GatePause(c)
  PROVE  \E s \in Sessions, x \in Record, r \in Call :
           /\ \A z \in Sessions : store'[z] = IF z = s THEN x ELSE store[z]
           /\ \A d \in Calls : call'[d] = IF d = c THEN r ELSE call[d]
           /\ issued' = issued \cup {s}
           /\ x.status = "waiting_hitl" /\ x.st.decisions = call[c].st.decisions
           /\ call[c].st.decisions[x.gate] = Unset
           /\ r.pc = "audit_pause" /\ r.st.session = s
           /\ \/ s \notin issued /\ call[c].st.session = Unset
              \/ call[c].st.session = s
<1> DEFINE n == call[c].node
           st == call[c].st
<1>0. call[c].pc = "run" /\ ~Decided(n, st)
  BY DEF GatePause, AtNode
<1>1. call[c] \in Call /\ st \in Bag /\ n \in Nodes
  BY <1>0, AtNodeType
<1> DEFINE rec(s) == [agent |-> Owner[n], status |-> "waiting_hitl", gate |-> GateId[n],
                      st |-> Snapshot(n, st, s),
                      done |-> call[c].before \cup call[c].ran]
<1>2. PICK s \in IF st.session = Unset THEN Sessions \ issued ELSE {st.session} :
        /\ store' = [store EXCEPT ![s] = rec(s)]
        /\ issued' = issued \cup {s}
        /\ call' = [call EXCEPT ![c].pc = "audit_pause", ![c].st = Snapshot(n, st, s)]
  BY DEF GatePause, Snapshot
<1>3. s \in Sessions
  BY <1>1, <1>2 DEF Bag
<1>4. (s \notin issued /\ st.session = Unset) \/ st.session = s
  BY <1>2
<1> DEFINE w == Snapshot(n, st, s)
           x == [agent |-> Owner[n], status |-> "waiting_hitl", gate |-> GateId[n],
                 st |-> w, done |-> call[c].before \cup call[c].ran]
           r == [call[c] EXCEPT !.pc = "audit_pause", !.st = w]
<1>5. w \in Bag /\ w.session = s /\ w.decisions = st.decisions
  BY <1>1, <1>3, SnapshotType
<1>6. x \in Record /\ x.status = "waiting_hitl" /\ x.st = w /\ x.gate = GateId[n]
  <2> HIDE DEF w
  <2> QED BY <1>1, <1>5, GraphAssumption DEF Record, Call
<1>7. r \in Call /\ r.pc = "audit_pause" /\ r.st = w
  <2> HIDE DEF w
  <2> QED BY <1>1, <1>5 DEF Call, PCs, Running
<1>8. \A z \in Sessions : store'[z] = IF z = s THEN x ELSE store[z]
  <2> HIDE DEF x
  <2>1. store' = [store EXCEPT ![s] = x]
    BY <1>2 DEF x
  <2> QED BY <2>1 DEF TypeInv, TypeOK
<1>9. \A d \in Calls : call'[d] = IF d = c THEN r ELSE call[d]
  BY <1>2 DEF TypeInv, TypeOK
<1>10. st.decisions[GateId[n]] = Unset
  BY <1>0 DEF Decided
<1> HIDE DEF x, w, r
<1>11. x.st.decisions = st.decisions /\ st.decisions[x.gate] = Unset /\ r.st.session = s
  BY <1>5, <1>6, <1>7, <1>10
<1> QED BY <1>2, <1>3, <1>4, <1>6, <1>7, <1>8, <1>9, <1>11

LEMMA GatePauseLife ==
  ASSUME TypeInv, LifeInv, NEW c \in Calls, GatePause(c)
  PROVE  LifeInv'
<1>1. PICK s \in Sessions, x \in Record, r \in Call :
        /\ \A z \in Sessions : store'[z] = IF z = s THEN x ELSE store[z]
        /\ \A d \in Calls : call'[d] = IF d = c THEN r ELSE call[d]
        /\ issued' = issued \cup {s}
        /\ r.pc = "audit_pause" /\ r.st.session = s
        /\ \/ s \notin issued /\ call[c].st.session = Unset
           \/ call[c].st.session = s
  BY PauseDoes
<1>2. call[c].pc \in Running
  BY DEF GatePause, AtNode, Running
<1>3. s # Unset
  BY GraphAssumption
<1>4. \A d \in Calls \ {c} : Distinct(r, call[d])
  BY <1>1, <1>2, <1>3 DEF LifeInv, CallLife, Distinct
<1>5. CallLife(store', issued', r)
  BY <1>1 DEF CallLife, Answering
<1>6. \A z \in Sessions : store'[z] # Unset => z \in issued'
  BY <1>1 DEF LifeInv
<1>7. \A z \in Sessions : store'[z] # store[z] => r.pc \in Running /\ z = r.st.session
  BY <1>1 DEF Running
<1> QED BY <1>1, <1>4, <1>5, <1>6, <1>7, LifeCallStep

\* The steps of a resume between the merge and the run.
LEMMA StartLife ==
  ASSUME TypeInv, LifeInv, NEW c \in Calls, AuditResume(c) \/ CreateAgent(c)
  PROVE  LifeInv'
<1> DEFINE r == call'[c]
<1>1. call[c] \in Call /\ Shape(call[c]) /\ CallLife(store, issued, call[c])
  BY DEF TypeInv, TypeOK, ShapeOK, LifeInv
<1>2. /\ UNCHANGED <<store, issued>>
      /\ \A d \in Calls : call'[d] = IF d = c THEN r ELSE call[d]
  BY DEF AuditResume, CreateAgent, TypeInv, TypeOK
<1>3. /\ r.st = call[c].st /\ r.kind = call[c].kind /\ r.gate = call[c].gate
      /\ r.choice = call[c].choice /\ r.pc \in {"compile", "run", "failed"}
      /\ call[c].pc \in {"audit_resume", "compile"}
  BY <1>1 DEF AuditResume, CreateAgent, Call, TypeInv, TypeOK
<1>4. call[c].kind = "resume"
  BY <1>1, <1>3 DEF Shape
<1> HIDE DEF r
<1>5. Owns(store, r)
  BY <1>1, <1>3, <1>4 DEF CallLife, Owns, Answering
<1>6. CallLife(store, issued, r)
  BY <1>1, <1>3, <1>4, <1>5 DEF CallLife, Running
<1>7. call[c].pc \in Running
  BY <1>3 DEF Running
<1> QED BY <1>2, <1>3, <1>6, <1>7, LifeQuiet

LEMMA CloseReadLife ==
  ASSUME TypeInv, LifeInv, NEW c \in Calls, CloseRead(c)
  PROVE  LifeInv'
<1> DEFINE x == store[call[c].st.session]
           r == [call[c] EXCEPT !.found = x,
                                !.pc = IF x = Unset THEN "returned" ELSE "close_write"]
<1>1. call[c] \in Call /\ Shape(call[c]) /\ CallLife(store, issued, call[c])
      /\ call[c].pc = "close_read"
  BY DEF TypeInv, TypeOK, ShapeOK, LifeInv, CloseRead
<1>2. call[c].kind = "resume" /\ call[c].pc \in Running
  BY <1>1 DEF Shape, Running
<1>3. Owns(store, call[c])
  BY <1>1, <1>2 DEF CallLife, Answering
<1>4. /\ r.st = call[c].st /\ r.kind = "resume" /\ r.gate = call[c].gate /\ r.found = x
      /\ r.choice = call[c].choice /\ r.pc \in {"returned", "close_write"}
  <2> HIDE DEF x
  <2> QED BY <1>1, <1>2 DEF Call
<1>5. /\ UNCHANGED <<store, issued>>
      /\ \A d \in Calls : call'[d] = IF d = c THEN r ELSE call[d]
  BY DEF CloseRead, TypeInv, TypeOK
<1> HIDE DEF r
<1>6. Owns(store, r)
  BY <1>3, <1>4 DEF Owns
<1>7. CallLife(store, issued, r)
  BY <1>1, <1>2, <1>4, <1>6 DEF CallLife
<1> QED BY <1>2, <1>4, <1>5, <1>7, LifeQuiet

\* What a close writes: the record it has read, which is still the one in the store,
\* with the call's bag.
LEMMA CloseDoes ==
  ASSUME TypeInv, LifeInv, NEW c \in Calls, CloseWrite(c)
  PROVE  \E s \in Sessions, x \in Record, r \in Call :
           /\ \A z \in Sessions : store'[z] = IF z = s THEN x ELSE store[z]
           /\ \A d \in Calls : call'[d] = IF d = c THEN r ELSE call[d]
           /\ issued' = issued /\ s \in issued
           /\ Owns(store, call[c]) /\ s = call[c].st.session
           /\ x.status = "closed" /\ x.gate = store[s].gate
           /\ x.st.decisions = call[c].st.decisions
           /\ r.pc = "close_audit" /\ r.st.session = s
<1> DEFINE s == call[c].st.session
           x == [call[c].found EXCEPT !.status = "closed", !.st = call[c].st,
                                      !.done = call[c].before \cup call[c].ran]
           r == [call[c] EXCEPT !.pc = "close_audit", !.found = Unset]
<1>1. /\ call[c] \in Call /\ CallLife(store, issued, call[c]) /\ call[c].pc = "close_write"
      /\ store \in [Sessions -> Record \cup {Unset}]
  BY DEF TypeInv, TypeOK, LifeInv, CloseWrite
<1>2. call[c].kind = "resume" /\ call[c].found = store[s] /\ Owns(store, call[c])
  BY <1>1 DEF CallLife, Answering
<1>3. s \in Sessions /\ store[s] \in Record /\ s \in issued
  BY <1>1, <1>2 DEF Owns, LifeInv
<1>4. x \in Record /\ x.status = "closed" /\ x.gate = store[s].gate /\ x.st = call[c].st
  BY <1>1, <1>2, <1>3 DEF Record, Call
<1>5. r \in Call /\ r.pc = "close_audit" /\ r.st = call[c].st
  BY <1>1 DEF Call, PCs, Running
<1>6. /\ \A d \in Calls : call'[d] = IF d = c THEN r ELSE call[d]
      /\ issued' = issued
  BY DEF CloseWrite, TypeInv, TypeOK
<1>7. \A z \in Sessions : store'[z] = IF z = s THEN x ELSE store[z]
  <2>1. store' = [store EXCEPT ![s] = x]
    BY DEF CloseWrite
  <2> HIDE DEF x
  <2> QED BY <1>1, <2>1
<1> HIDE DEF s, x, r
<1> QED BY <1>2, <1>3, <1>4, <1>5, <1>6, <1>7 DEF s

LEMMA CloseWriteLife ==
  ASSUME TypeInv, LifeInv, NEW c \in Calls, CloseWrite(c)
  PROVE  LifeInv'
<1>1. PICK s \in Sessions, x \in Record, r \in Call :
        /\ \A z \in Sessions : store'[z] = IF z = s THEN x ELSE store[z]
        /\ \A d \in Calls : call'[d] = IF d = c THEN r ELSE call[d]
        /\ issued' = issued /\ s \in issued
        /\ s = call[c].st.session
        /\ r.pc = "close_audit" /\ r.st.session = s
  BY CloseDoes
<1>2. call[c].pc \in Running
  BY DEF CloseWrite, Running
<1>3. \A d \in Calls \ {c} : Distinct(r, call[d])
  BY <1>1, <1>2 DEF LifeInv, Distinct
<1>4. CallLife(store', issued', r)
  BY <1>1 DEF CallLife, Answering
<1>5. \A z \in Sessions : store'[z] # Unset => z \in issued'
  BY <1>1 DEF LifeInv
<1>6. \A z \in Sessions : store'[z] # store[z] => r.pc \in Running /\ z = r.st.session
  BY <1>1 DEF Running
<1> QED BY <1>1, <1>3, <1>4, <1>5, <1>6, LifeCallStep

\* The steps after which c no longer needs the record.
LEMMA EndLife ==
  ASSUME TypeInv, LifeInv, NEW c \in Calls,
         \/ AuditPause(c) \/ CloseAudit(c) \/ HostPersist(c) \/ Abort(c)
         \/ \E s, d, p, known : ResumeRefused(c, s, d, p, known)
  PROVE  LifeInv'
<1> DEFINE r == call'[c]
<1>1. call[c] \in Call /\ CallLife(store, issued, call[c])
  BY DEF TypeInv, TypeOK, LifeInv
<1>2. /\ UNCHANGED <<store, issued>>
      /\ \A d \in Calls : call'[d] = IF d = c THEN r ELSE call[d]
  BY DEF AuditPause, CloseAudit, HostPersist, Abort, ResumeRefused, TypeInv, TypeOK
<1>3. r.pc \in {"done", "failed"} \/ (r.pc = "returned" /\ call[c].pc \in Running
                                      /\ r.st.session = call[c].st.session)
  BY <1>1 DEF AuditPause, CloseAudit, HostPersist, Abort, ResumeRefused, Call,
              TypeInv, TypeOK, Running
<1> HIDE DEF r
<1>4. CallLife(store, issued, r)
  BY <1>1, <1>3 DEF CallLife, Answering, Running
<1> QED BY <1>2, <1>3, <1>4, LifeQuiet DEF Running

\* The host deletes no session that a call works on.
LEMMA DeleteLife ==
  ASSUME Serial, TypeInv, LifeInv, NEW s \in Sessions, DeleteSession(s)
  PROVE  LifeInv'
<1>1. /\ UNCHANGED <<issued, call>>
      /\ \A z \in Sessions : store'[z] = IF z = s THEN Unset ELSE store[z]
  BY DEF DeleteSession, TypeInv, TypeOK
<1>2. \A c \in Calls : call[c].pc \in Running => call[c].st.session # s
  BY DEF DeleteSession, Admitted, Serial, InFlight
<1>3. ASSUME NEW c \in Calls PROVE CallLife(store', issued', call'[c])
  <2>1. CallLife(store, issued, call[c])
    BY DEF LifeInv
  <2>2. call[c].pc \in Answering => call[c].pc \in Running
    BY DEF Answering, Running
  <2>3. (call[c].kind = "resume" /\ call[c].pc \in Answering) => Owns(store', call[c])
    BY <1>1, <1>2, <2>1, <2>2 DEF CallLife, Owns
  <2>4. call[c].pc = "close_write" => call[c].found = store'[call[c].st.session]
    BY <1>1, <1>2, <2>1 DEF CallLife, Owns, Answering, Running
  <2> QED BY <1>1, <2>1, <2>3, <2>4 DEF CallLife
<1>4. \A z \in Sessions : store'[z] # Unset => z \in issued'
  BY <1>1 DEF LifeInv
<1> QED BY <1>1, <1>3, <1>4 DEF LifeInv

LEMMA LifeStep ==
  ASSUME Serial
  PROVE  TypeInv /\ LifeInv /\ [Next]_vars => LifeInv'
<1> SUFFICES ASSUME TypeInv, LifeInv, [Next]_vars PROVE LifeInv'
  OBVIOUS
<1>1. CASE UNCHANGED vars
  BY <1>1 DEF vars, LifeInv
<1>2. ASSUME NEW c \in Calls, NEW a \in Agents, NEW i \in Inputs, Invoke(c, a, i)
      PROVE  LifeInv'
  BY <1>2, InvokeLife
<1>3. ASSUME NEW c \in Calls, NEW s \in Sessions, NEW d \in HitlDecisions,
             NEW p \in Patches, NEW known \in BOOLEAN,
             Resume(c, s, d, p, known) \/ ResumeRefused(c, s, d, p, known)
      PROVE  LifeInv'
  BY <1>3, ResumeLife, EndLife
<1>4. ASSUME NEW c \in Calls, Step(c)
      PROVE  LifeInv'
  BY <1>4, GraphStepLife, GatePauseLife, StartLife, CloseReadLife, CloseWriteLife, EndLife
     DEF Step
<1>5. ASSUME NEW c \in Calls, Abort(c)
      PROVE  LifeInv'
  BY <1>5, EndLife
<1>6. ASSUME NEW s \in Sessions, DeleteSession(s)
      PROVE  LifeInv'
  BY <1>6, DeleteLife
<1>7. CASE AllReturned
  BY <1>1, <1>7 DEF AllReturned
<1> QED BY <1>1, <1>2, <1>3, <1>4, <1>5, <1>6, <1>7 DEF Next

\* What HitlLifecycle sees of one session.
Seen(s) == /\ SessionPhase[s] = IF store[s] = Unset
                                THEN (IF s \in issued THEN "deleted" ELSE "none")
                                ELSE IF store[s].status = "waiting_hitl" THEN "waiting"
                                     ELSE "closed"
           /\ SessionGate[s] = IF store[s] = Unset THEN Unset ELSE store[s].gate
           /\ SessionDecisions[s] = IF store[s] = Unset THEN [k \in Ids |-> Unset]
                                    ELSE store[s].st.decisions

LEMMA SeenNow == \A s \in Sessions : Seen(s) /\ Seen(s)'
BY DEF Seen, SessionPhase, SessionGate, SessionDecisions, Waiting

LEMMA SeenMaps ==
  /\ SessionPhase = [s \in Sessions |-> SessionPhase[s]]
  /\ SessionGate = [s \in Sessions |-> SessionGate[s]]
  /\ SessionDecisions = [s \in Sessions |-> SessionDecisions[s]]
  /\ SessionPhase' = [s \in Sessions |-> SessionPhase'[s]]
  /\ SessionGate' = [s \in Sessions |-> SessionGate'[s]]
  /\ SessionDecisions' = [s \in Sessions |-> SessionDecisions'[s]]
BY DEF SessionPhase, SessionGate, SessionDecisions

\* Nothing is seen of a session whose record and id stay as they are.
LEMMA SeenSame ==
  ASSUME NEW s \in Sessions, store'[s] = store[s], s \in issued' <=> s \in issued
  PROVE  /\ SessionPhase'[s] = SessionPhase[s] /\ SessionGate'[s] = SessionGate[s]
         /\ SessionDecisions'[s] = SessionDecisions[s]
<1>1. Seen(s) /\ Seen(s)'
  BY SeenNow
<1>2. SessionPhase'[s] = SessionPhase[s]
  BY <1>1 DEF Seen
<1>3. SessionGate'[s] = SessionGate[s]
  BY <1>1 DEF Seen
<1>4. SessionDecisions'[s] = SessionDecisions[s]
  BY <1>1 DEF Seen
<1> QED BY <1>2, <1>3, <1>4

\* A step at one session.
LEMMA SeenAt ==
  ASSUME NEW s \in Sessions,
         \A z \in Sessions \ {s} : store'[z] = store[z] /\ (z \in issued' <=> z \in issued)
  PROVE  /\ SessionPhase' = [SessionPhase EXCEPT ![s] = SessionPhase'[s]]
         /\ SessionGate' = [SessionGate EXCEPT ![s] = SessionGate'[s]]
         /\ SessionDecisions' = [SessionDecisions EXCEPT ![s] = SessionDecisions'[s]]
<1>1. \A z \in Sessions \ {s} :
        /\ SessionPhase'[z] = SessionPhase[z] /\ SessionGate'[z] = SessionGate[z]
        /\ SessionDecisions'[z] = SessionDecisions[z]
  BY SeenSame
<1>2. SessionPhase' = [SessionPhase EXCEPT ![s] = SessionPhase'[s]]
  BY <1>1, SeenMaps
<1>3. SessionGate' = [SessionGate EXCEPT ![s] = SessionGate'[s]]
  BY <1>1, SeenMaps
<1>4. SessionDecisions' = [SessionDecisions EXCEPT ![s] = SessionDecisions'[s]]
  BY <1>1, SeenMaps
<1> QED BY <1>2, <1>3, <1>4

\* A step that leaves the store alone is no step of the life cycle.
LEMMA SeenStutters ==
  ASSUME UNCHANGED <<store, issued>>
  PROVE  UNCHANGED Lifecycle!vars
BY DEF Lifecycle!vars, SessionPhase, SessionGate, SessionDecisions, Waiting

LEMMA InitOpens == Init => Lifecycle!Init
BY DEF Init, Lifecycle!Init, Lifecycle!NoDecisions, SessionPhase, SessionGate,
       SessionDecisions, Waiting

\* An invocation pauses for the first time, or a resume at its next gate.
LEMMA PauseOpens ==
  ASSUME TypeInv, LifeInv, NEW c \in Calls, GatePause(c)
  PROVE  Lifecycle!Next
<1>1. PICK s \in Sessions, x \in Record, r \in Call :
        /\ \A z \in Sessions : store'[z] = IF z = s THEN x ELSE store[z]
        /\ issued' = issued \cup {s}
        /\ x.status = "waiting_hitl" /\ x.st.decisions = call[c].st.decisions
        /\ call[c].st.decisions[x.gate] = Unset
        /\ \/ s \notin issued /\ call[c].st.session = Unset
           \/ call[c].st.session = s
  BY PauseDoes
<1>2. /\ call[c] \in Call /\ call[c].pc = "run" /\ CallLife(store, issued, call[c])
      /\ store \in [Sessions -> Record \cup {Unset}]
  BY DEF TypeInv, TypeOK, LifeInv, GatePause, AtNode
<1>3. s # Unset /\ x.gate \in Ids /\ x # Unset
  BY GraphAssumption, RecordAssumption DEF Record
<1>4. /\ SessionPhase' = [SessionPhase EXCEPT ![s] = SessionPhase'[s]]
      /\ SessionGate' = [SessionGate EXCEPT ![s] = SessionGate'[s]]
      /\ SessionDecisions' = [SessionDecisions EXCEPT ![s] = SessionDecisions'[s]]
  BY <1>1, SeenAt
<1>5. Seen(s) /\ Seen(s)'
  BY SeenNow
<1>6. /\ SessionPhase'[s] = "waiting" /\ SessionGate'[s] = x.gate
      /\ SessionDecisions'[s] = call[c].st.decisions
  BY <1>1, <1>3, <1>5 DEF Seen
<1>7. CASE call[c].kind = "invoke"
  <2>1. call[c].st.session = Unset /\ \A k \in Ids : call[c].st.decisions[k] = Unset
    BY <1>2, <1>7 DEF CallLife
  <2>2. s \notin issued /\ store[s] = Unset
    BY <1>1, <1>3, <2>1 DEF LifeInv
  <2>3. SessionPhase[s] = "none" /\ SessionDecisions[s] = [k \in Ids |-> Unset]
    BY <1>5, <2>2 DEF Seen
  <2>4. call[c].st.decisions = [k \in Ids |-> Unset]
    BY <1>2, <2>1 DEF Call, Bag
  <2>5. SessionDecisions' = SessionDecisions
    BY <1>4, <1>6, <2>3, <2>4, SeenMaps
  <2>6. Lifecycle!Open(s, x.gate)
    BY <1>4, <1>6, <2>3, <2>5 DEF Lifecycle!Open
  <2> QED BY <1>3, <2>6 DEF Lifecycle!Next
<1>8. CASE call[c].kind = "resume"
  <2>1. Owns(store, call[c])
    BY <1>2, <1>8 DEF CallLife, Answering
  <2>2. call[c].st.session = s
    BY <1>1, <2>1, GraphAssumption DEF Owns
  <2> DEFINE g == store[s].gate
             old == store[s].st.decisions
  <2>3. /\ store[s] \in Record /\ store[s] # Unset /\ store[s].status = "waiting_hitl"
        /\ call[c].choice \in HitlDecisions
        /\ call[c].st.decisions = [old EXCEPT ![g] = call[c].choice]
    BY <1>2, <2>1, <2>2 DEF Owns
  <2>4. SessionPhase[s] = "waiting" /\ SessionGate[s] = g /\ SessionDecisions[s] = old
    BY <1>5, <2>3 DEF Seen
  <2>5. g \in Ids /\ old \in [Ids -> Decision]
    BY <2>3 DEF Record, Bag
  <2> HIDE DEF g, old
  <2>6. x.gate # g /\ old[x.gate] = Unset
    BY <1>1, <1>3, <2>3, <2>5, GraphAssumption
  <2>7. SessionDecisions' =
          [SessionDecisions EXCEPT ![s] = [old EXCEPT ![g] = call[c].choice]]
    BY <1>4, <1>6, <2>3
  <2>8. Lifecycle!Record(s, call[c].choice)
    BY <2>4, <2>7 DEF Lifecycle!Record
  <2>9. UNCHANGED SessionPhase
    BY <1>4, <1>6, <2>4, SeenMaps
  <2>10. Lifecycle!Continue(s, call[c].choice, x.gate)
    BY <1>4, <1>6, <2>4, <2>6, <2>8, <2>9 DEF Lifecycle!Continue
  <2> QED BY <1>3, <2>3, <2>10 DEF Lifecycle!Next
<1> QED BY <1>2, <1>7, <1>8 DEF Call

LEMMA CloseCloses ==
  ASSUME TypeInv, LifeInv, NEW c \in Calls, CloseWrite(c)
  PROVE  Lifecycle!Next
<1>1. PICK s \in Sessions, x \in Record, r \in Call :
        /\ \A z \in Sessions : store'[z] = IF z = s THEN x ELSE store[z]
        /\ issued' = issued
        /\ Owns(store, call[c]) /\ s = call[c].st.session
        /\ x.status = "closed" /\ x.gate = store[s].gate
        /\ x.st.decisions = call[c].st.decisions
  BY CloseDoes
<1>2. /\ store[s] # Unset /\ store[s].status = "waiting_hitl" /\ call[c].choice \in HitlDecisions
      /\ x.st.decisions = [store[s].st.decisions EXCEPT ![store[s].gate] = call[c].choice]
      /\ x # Unset
  <2>1. x # Unset
    BY RecordAssumption
  <2> QED BY <1>1, <2>1 DEF Owns
<1>3. /\ SessionPhase' = [SessionPhase EXCEPT ![s] = SessionPhase'[s]]
      /\ SessionGate' = [SessionGate EXCEPT ![s] = SessionGate'[s]]
      /\ SessionDecisions' = [SessionDecisions EXCEPT ![s] = SessionDecisions'[s]]
  BY <1>1, SeenAt
<1>4. Seen(s) /\ Seen(s)'
  BY SeenNow
<1>5. /\ SessionPhase[s] = "waiting" /\ SessionPhase'[s] = "closed"
      /\ SessionGate[s] = store[s].gate /\ SessionGate'[s] = store[s].gate
      /\ SessionDecisions[s] = store[s].st.decisions
      /\ SessionDecisions'[s] = x.st.decisions
  BY <1>1, <1>2, <1>4 DEF Seen
<1>6. Lifecycle!Record(s, call[c].choice)
  BY <1>2, <1>3, <1>5 DEF Lifecycle!Record
<1>7. UNCHANGED SessionGate
  BY <1>3, <1>5, SeenMaps
<1>8. Lifecycle!Close(s, call[c].choice)
  BY <1>3, <1>5, <1>6, <1>7 DEF Lifecycle!Close
<1> QED BY <1>2, <1>8 DEF Lifecycle!Next

LEMMA DeleteDeletes ==
  ASSUME TypeInv, LifeInv, NEW s \in Sessions, DeleteSession(s)
  PROVE  Lifecycle!Next
<1>1. /\ issued' = issued /\ store[s] # Unset
      /\ \A z \in Sessions : store'[z] = IF z = s THEN Unset ELSE store[z]
  BY DEF DeleteSession, TypeInv, TypeOK
<1>2. s \in issued
  BY <1>1 DEF LifeInv
<1>3. /\ SessionPhase' = [SessionPhase EXCEPT ![s] = SessionPhase'[s]]
      /\ SessionGate' = [SessionGate EXCEPT ![s] = SessionGate'[s]]
      /\ SessionDecisions' = [SessionDecisions EXCEPT ![s] = SessionDecisions'[s]]
  BY <1>1, SeenAt
<1>4. Seen(s) /\ Seen(s)'
  BY SeenNow
<1>5. /\ SessionPhase[s] \in {"waiting", "closed"} /\ SessionPhase'[s] = "deleted"
      /\ SessionGate'[s] = Unset /\ SessionDecisions'[s] = [k \in Ids |-> Unset]
  BY <1>1, <1>2, <1>4 DEF Seen
<1>6. Lifecycle!Delete(s)
  BY <1>3, <1>5 DEF Lifecycle!Delete, Lifecycle!NoDecisions
<1> QED BY <1>6 DEF Lifecycle!Next

LEMMA LifecycleStep == TypeInv /\ LifeInv /\ [Next]_vars => [Lifecycle!Next]_(Lifecycle!vars)
<1> SUFFICES ASSUME TypeInv, LifeInv, [Next]_vars PROVE [Lifecycle!Next]_(Lifecycle!vars)
  OBVIOUS
<1>1. ASSUME UNCHANGED <<store, issued>> PROVE UNCHANGED Lifecycle!vars
  BY <1>1, SeenStutters
<1>2. CASE UNCHANGED vars
  BY <1>1, <1>2 DEF vars
<1>3. ASSUME NEW c \in Calls, NEW a \in Agents, NEW i \in Inputs, Invoke(c, a, i)
      PROVE  UNCHANGED Lifecycle!vars
  BY <1>1, <1>3 DEF Invoke
<1>4. ASSUME NEW c \in Calls, NEW s \in Sessions, NEW d \in HitlDecisions,
             NEW p \in Patches, NEW known \in BOOLEAN,
             Resume(c, s, d, p, known) \/ ResumeRefused(c, s, d, p, known)
      PROVE  UNCHANGED Lifecycle!vars
  BY <1>1, <1>4 DEF Resume, ResumeRefused
<1>5. ASSUME NEW c \in Calls, Step(c)
      PROVE  [Lifecycle!Next]_(Lifecycle!vars)
  <2>1. GatePause(c) \/ CloseWrite(c) \/ UNCHANGED <<store, issued>>
    BY <1>5 DEF Step, AuditResume, CreateAgent, SkipNode, WorkNode, ApplyNode, GateBypass,
                GateResume, AuditPause, CloseRead, CloseAudit, HostPersist
  <2> QED BY <1>1, <2>1, PauseOpens, CloseCloses
<1>6. ASSUME NEW c \in Calls, Abort(c)
      PROVE  UNCHANGED Lifecycle!vars
  BY <1>1, <1>6 DEF Abort
<1>7. ASSUME NEW s \in Sessions, DeleteSession(s)
      PROVE  Lifecycle!Next
  BY <1>7, DeleteDeletes
<1>8. CASE AllReturned
  BY <1>2, <1>8 DEF AllReturned
<1> QED BY <1>2, <1>3, <1>4, <1>5, <1>6, <1>7, <1>8 DEF Next

\* When the host admits one call per session at a time, the session store implements
\* the life cycle: a session goes from one pause to the next and is closed once, each
\* answer kept under the gate it answers.  Code: persist_hitl_pause,
\* resume_hitl_session and close_hitl_session together.
THEOREM SessionLifecycleCorrect ==
  ASSUME OnePerSession, \A i \in Inputs : i.session = Unset
  PROVE  Spec => SessionLifecycle
<1>1. TypeInv /\ LifeInv /\ [Next]_vars => LifeInv'
  BY LifeStep DEF Serial
<1> QED BY <1>1, InitType, TypeStep, InitLife, InitOpens, LifecycleStep, PTL
        DEF Spec, SessionLifecycle, Lifecycle!Spec
-----------------------------------------------------------------------------
(* What a resume does of agents whose resumes replay their run (HitlReplay).

   Possible and Way speak of nodes; the invariant says where calls and records are in
   them.  A run that has its gate behind it, or never paused, is in a possible situation
   of its node.  A run that skips is on the way of the gate p it answers, whose answer it
   holds, with nothing run yet.  A waiting record is a possible situation of its gate. *)

CallSituation(r) == SituationOf(r.st, r.before \cup r.ran)

\* Call r brings the answer to gate p.
Answers(p, r) ==
  /\ Owner[p] = r.agent /\ GateId[p] = r.gate
  /\ r.st.resume_at = r.gate
  /\ r.st.decisions[r.gate] = r.choice /\ r.choice # Unset
  /\ ~Bypassed(p, r.st)
  /\ r.ran = {}
OnWay(Way, n, r) ==
  \E p \in Gates : Answers(p, r) /\ <<n, CallSituation(r)>> \in Way[p]

CallReplay(Possible, Way, r) ==
  /\ (r.pc \in {"audit_resume", "compile"} /\ r.agent # Unset)
       => OnWay(Way, Start[r.agent], r)
  /\ (r.pc = "run" /\ r.st.resume_at # Unset) => OnWay(Way, r.node, r)
  /\ (r.pc = "run" /\ r.st.resume_at = Unset) => CallSituation(r) \in Possible[r.node]
  /\ r.pc \in {"close_read", "close_write", "close_audit"} => r.st.resume_at = Unset

RecordReplay(Possible, r) ==
  r.status = "waiting_hitl" =>
    \E p \in Gates : /\ Owner[p] = r.agent /\ GateId[p] = r.gate
                     /\ ~Bypassed(p, r.st)
                     /\ SituationOf(r.st, r.done) \in Possible[p]

ReplayInv(Possible, Way) ==
  /\ \A c \in Calls : CallReplay(Possible, Way, call[c])
  /\ \A s \in Sessions : store[s] # Unset => RecordReplay(Possible, store[s])
-----------------------------------------------------------------------------
LEMMA LabelSame ==
  ASSUME NEW n, NEW st, NEW done
  PROVE  Label(n, SituationOf(st, done)) = Label(n, st)
BY DEF Label, SituationOf

\* The fields of a call that moved on.
LEMMA MovedFields ==
  ASSUME TypeInv, NEW c \in Calls, call[c].pc = "run", NEW st, NEW ran
  PROVE  LET m == Succ[call[c].node][Label(call[c].node, st)]
             r == Moved(c, st, ran)
         IN  /\ r.st = st /\ r.node = m /\ r.kind = call[c].kind /\ r.agent = call[c].agent
             /\ r.gate = call[c].gate /\ r.choice = call[c].choice
             /\ r.before = call[c].before /\ r.ran = call[c].ran \cup ran
             /\ r.pc = IF m = End THEN AfterRun(c, st) ELSE "run"
             /\ AfterRun(c, st) \in {"done", "close_read", "returned"}
<1>1. call[c] \in Call
  BY AtNodeType
<1>2. AfterRun(c, st) \in {"done", "close_read", "returned"}
  BY DEF AfterRun
<1> QED BY <1>1, <1>2 DEF Moved, Call

\* Where a run that skips stands, and where it goes.
LEMMA SkipsOn ==
  ASSUME TypeInv, NEW Possible, NEW Way, Replays(Possible, Way),
         NEW c \in Calls, call[c].pc = "run", call[c].st.resume_at # Unset,
         CallReplay(Possible, Way, call[c])
  PROVE  LET n == call[c].node
             st == call[c].st
             m == Succ[n][Label(n, st)]
         IN  IF Skipping(n, st)
             THEN m # End /\ \E p \in Gates : /\ Answers(p, call[c])
                                              /\ <<m, CallSituation(call[c])>> \in Way[p]
             ELSE /\ Kind[n] = "gate" /\ ~Bypassed(n, st) /\ Decided(n, st)
                  /\ st.decisions[GateId[n]] = call[c].choice
                  /\ CallSituation(call[c]) \in Possible[n] /\ call[c].ran = {}
<1> DEFINE n == call[c].node
           st == call[c].st
           w == CallSituation(call[c])
           m == Succ[n][Label(n, st)]
<1>1. PICK p \in Gates : Answers(p, call[c]) /\ <<n, w>> \in Way[p]
  BY DEF CallReplay, OnWay
<1>2. Label(n, w) = Label(n, st)
  BY LabelSame DEF CallSituation
<1>3. IF Id[n] = GateId[p] THEN CopyOf(p, n) /\ w \in Possible[n]
      ELSE m # End /\ <<m, w>> \in Way[p]
  <2> HIDE DEF w, n, st
  <2>1. LET x == <<n, w>>[1]
            y == Succ[x][Label(x, <<n, w>>[2])]
        IN  IF Id[x] = GateId[p] THEN CopyOf(p, x) /\ <<n, w>>[2] \in Possible[x]
            ELSE y # End /\ <<y, <<n, w>>[2]>> \in Way[p]
    BY <1>1 DEF Replays
  <2> QED BY <1>2, <2>1
<1>4. st.resume_at = GateId[p] /\ ~Bypassed(p, st) /\ call[c].ran = {}
      /\ st.decisions[GateId[p]] = call[c].choice /\ call[c].choice # Unset
  BY <1>1 DEF Answers
<1>5. CASE Skipping(n, st)
  <2>1. Id[n] # GateId[p]
    BY <1>4, <1>5 DEF Skipping
  <2> QED BY <1>1, <1>3, <1>5, <2>1
<1>6. CASE ~Skipping(n, st)
  <2>1. Id[n] = GateId[p]
    BY <1>4, <1>6 DEF Skipping
  <2>2. CopyOf(p, n) /\ w \in Possible[n]
    BY <1>3, <2>1
  <2>3. ~Bypassed(n, st)
    BY <1>4, <2>2 DEF CopyOf, Bypassed
  <2> QED BY <1>4, <1>6, <2>2, <2>3 DEF CopyOf, Decided
<1> QED BY <1>5, <1>6

\* A node that runs for real is at a possible situation of it; if it is not the gate
\* answered, the run has that gate behind it.
LEMMA ExecutesPossible ==
  ASSUME TypeInv, NEW Possible, NEW Way, Replays(Possible, Way),
         NEW c \in Calls, Executing(c), CallReplay(Possible, Way, call[c])
  PROVE  LET n == call[c].node
             st == call[c].st
         IN  /\ CallSituation(call[c]) \in Possible[n]
             /\ (Kind[n] # "gate" \/ Bypassed(n, st) \/ ~Decided(n, st)) => st.resume_at = Unset
<1>1. CASE call[c].st.resume_at = Unset
  BY <1>1 DEF CallReplay, Executing
<1>2. CASE call[c].st.resume_at # Unset
  BY <1>2, SkipsOn DEF Executing
<1> QED BY <1>1, <1>2

\* A node that ran leaves the run in a situation its outcomes name.
LEMMA RunsOn ==
  ASSUME TypeInv, NEW Possible, NEW Way, Closed(Possible),
         NEW c \in Calls, call[c].pc = "run", CallSituation(call[c]) \in Possible[call[c].node],
         NEW st, st.resume_at = Unset, NEW ran,
         SituationOf(st, (call[c].before \cup call[c].ran) \cup ran)
           \in Outcomes(call[c].node, CallSituation(call[c]))
  PROVE  CallReplay(Possible, Way, Moved(c, st, ran))
<1> DEFINE n == call[c].node
           q == SituationOf(st, (call[c].before \cup call[c].ran) \cup ran)
           m == Succ[n][Label(n, st)]
           r == Moved(c, st, ran)
<1>1. n \in Nodes
  BY AtNodeType
<1>2. Label(n, q) = Label(n, st)
  BY LabelSame
<1>3. m # End => q \in Possible[m]
  <2>1. q \in Outcomes(n, CallSituation(call[c]))
    OBVIOUS
  <2> HIDE DEF q
  <2> QED BY <1>1, <1>2, <2>1 DEF Closed
<1>4. /\ r.st = st /\ r.node = m
      /\ r.before = call[c].before /\ r.ran = call[c].ran \cup ran
      /\ r.pc = IF m = End THEN AfterRun(c, st) ELSE "run"
      /\ AfterRun(c, st) \in {"done", "close_read", "returned"}
  BY MovedFields
<1>5. CallSituation(r) = q
  BY <1>4 DEF CallSituation
<1> HIDE DEF r, q, m
<1>6. r.pc = "run" => m # End
  BY <1>4
<1>7. r.pc \notin {"audit_resume", "compile"}
  BY <1>4
<1> QED BY <1>3, <1>4, <1>5, <1>6, <1>7 DEF CallReplay, r

\* The outcomes of each kind of node.
LEMMA GateOutcome ==
  ASSUME NEW n, Kind[n] = "gate", NEW st \in Bag, NEW done,
         NEW w, w.next = st.next, w.data = st.data
  PROVE  SituationOf(w, done \cup {}) \in Outcomes(n, SituationOf(st, done))
<1>1. done \cup {} = done
  OBVIOUS
<1>2. SituationOf(w, done \cup {}) = SituationOf(st, done)
  BY <1>1 DEF SituationOf
<1>3. Outcomes(n, SituationOf(st, done)) = {SituationOf(st, done)}
  BY DEF Outcomes
<1> QED BY <1>2, <1>3

LEMMA ApplyOutcomes ==
  ASSUME NEW n \in Nodes, Kind[n] = "apply", NEW st \in Bag, NEW done
  PROVE  SituationOf(ApplyOutcome(n, st), done \cup {YamlNode(n)})
           \in Outcomes(n, SituationOf(st, done))
<1> DEFINE r == SituationOf(st, done)
           w == ApplyOutcome(n, st)
           ds == done \cup {YamlNode(n)}
<1>1. r.data = st.data /\ r.done = done
  BY DEF SituationOf
<1>2. w.data = st.data /\ w.next \in {"rejected", st.data[RouteField[n]]}
  BY DEF ApplyOutcome, Bag
<1>3. SituationOf(w, ds) = [next |-> w.next, data |-> st.data, done |-> ds]
  BY <1>2 DEF SituationOf
<1>4. Outcomes(n, r) = {[next |-> l, data |-> st.data, done |-> ds] :
                          l \in {"rejected", st.data[RouteField[n]]}}
  BY <1>1 DEF Outcomes
<1> HIDE DEF w, r, ds
<1> QED BY <1>2, <1>3, <1>4 DEF w, r, ds

LEMMA WorkOutcome ==
  ASSUME NEW n \in Nodes, Kind[n] = "work", NEW st \in Bag, NEW done,
         NEW w, w.next = st.next, w.data \in Written(n, st.data)
  PROVE  SituationOf(w, done \cup {YamlNode(n)}) \in Outcomes(n, SituationOf(st, done))
<1> DEFINE r == SituationOf(st, done)
           ds == done \cup {YamlNode(n)}
<1>1. r.data = st.data /\ r.done = done /\ r.next = st.next
  BY DEF SituationOf
<1>2. Outcomes(n, r) = {[next |-> st.next, data |-> d, done |-> ds] : d \in Written(n, st.data)}
  BY <1>1 DEF Outcomes
<1>3. SituationOf(w, ds) = [next |-> st.next, data |-> w.data, done |-> ds]
  BY DEF SituationOf
<1> HIDE DEF r, ds
<1> QED BY <1>2, <1>3 DEF r, ds

LEMMA ReplayCallStep ==
  ASSUME TypeInv, NEW Possible, NEW Way, ReplayInv(Possible, Way), NEW c \in Calls, NEW r,
         CallReplay(Possible, Way, r), call' = [call EXCEPT ![c] = r], UNCHANGED store
  PROVE  ReplayInv(Possible, Way)'
<1>1. \A d \in Calls : call'[d] = IF d = c THEN r ELSE call[d]
  BY DEF TypeInv, TypeOK
<1>2. \A d \in Calls : CallReplay(Possible, Way, call'[d])
  BY <1>1 DEF ReplayInv
<1>3. \A s \in Sessions : store'[s] # Unset => RecordReplay(Possible, store'[s])
  BY DEF ReplayInv
<1> QED BY <1>2, <1>3 DEF ReplayInv

\* A node that ran.
LEMMA NodeReplay ==
  ASSUME TypeInv, NEW Possible, NEW Way, Closed(Possible), Replays(Possible, Way),
         ReplayInv(Possible, Way), NEW c \in Calls, Executing(c),
         NEW st, st.resume_at = Unset, NEW ran,
         SituationOf(st, (call[c].before \cup call[c].ran) \cup ran)
           \in Outcomes(call[c].node, CallSituation(call[c])),
         Advance(c, st, ran), UNCHANGED store
  PROVE  ReplayInv(Possible, Way)'
<1>1. CallReplay(Possible, Way, call[c]) /\ call[c].pc = "run"
  BY DEF ReplayInv, Executing
<1>2. CallSituation(call[c]) \in Possible[call[c].node]
  BY <1>1, ExecutesPossible
<1>3. CallReplay(Possible, Way, Moved(c, st, ran))
  BY <1>1, <1>2, RunsOn
<1>4. call' = [call EXCEPT ![c] = Moved(c, st, ran)]
  BY AdvanceMoves DEF TypeInv
<1> QED BY <1>3, <1>4, ReplayCallStep

LEMMA SkipReplay ==
  ASSUME TypeInv, NEW Possible, NEW Way, Replays(Possible, Way),
         ReplayInv(Possible, Way), NEW c \in Calls, SkipNode(c)
  PROVE  ReplayInv(Possible, Way)'
<1> DEFINE n == call[c].node
           st == call[c].st
           m == Succ[n][Label(n, st)]
           none == {}
           r == Moved(c, st, none)
<1>1. /\ call[c].pc = "run" /\ st.resume_at # Unset /\ Skipping(n, st)
      /\ Advance(c, st, none) /\ UNCHANGED store
  BY DEF SkipNode, Skipping
<1>2. CallReplay(Possible, Way, call[c])
  BY DEF ReplayInv
<1>3. m # End /\ \E p \in Gates : Answers(p, call[c]) /\ <<m, CallSituation(call[c])>> \in Way[p]
  BY <1>1, <1>2, SkipsOn
<1>4. /\ r.st = st /\ r.node = m /\ r.agent = call[c].agent
      /\ r.gate = call[c].gate /\ r.choice = call[c].choice
      /\ r.before = call[c].before /\ r.ran = call[c].ran \cup none
      /\ r.pc = IF m = End THEN AfterRun(c, st) ELSE "run"
  <2> HIDE DEF none
  <2> QED BY <1>1, MovedFields
<1>5. call' = [call EXCEPT ![c] = r]
  <2> HIDE DEF none
  <2> QED BY <1>1, AdvanceMoves DEF TypeInv
<1> HIDE DEF r, m, n
<1>6. CallSituation(r) = CallSituation(call[c])
  BY <1>4 DEF CallSituation
<1>7. \A p \in Gates : Answers(p, call[c]) => Answers(p, r)
  BY <1>4 DEF Answers
<1>8. r.pc = "run" /\ OnWay(Way, r.node, r)
  BY <1>3, <1>4, <1>6, <1>7 DEF OnWay
<1>9. CallReplay(Possible, Way, r)
  BY <1>1, <1>4, <1>8 DEF CallReplay
<1> QED BY <1>1, <1>5, <1>9, ReplayCallStep

LEMMA NodeStepReplay ==
  ASSUME TypeInv, NEW Possible, NEW Way, Closed(Possible), Replays(Possible, Way),
         ReplayInv(Possible, Way), NEW c \in Calls,
         WorkNode(c) \/ ApplyNode(c) \/ GateBypass(c) \/ GateResume(c)
  PROVE  ReplayInv(Possible, Way)'
<1> DEFINE n == call[c].node
           st == call[c].st
           done == call[c].before \cup call[c].ran
<1>1. /\ Executing(c) /\ call[c].pc = "run" /\ UNCHANGED store
  BY DEF WorkNode, ApplyNode, GateBypass, GateResume, AtNode, Executing
<1>2. st \in Bag /\ n \in Nodes
  BY <1>1, AtNodeType
<1>3. CallSituation(call[c]) = SituationOf(st, done)
  BY DEF CallSituation
<1>4. ASSUME ~GateResume(c) PROVE st.resume_at = Unset
  <2>1. Kind[n] # "gate" \/ Bypassed(n, st)
    BY <1>4 DEF WorkNode, ApplyNode, GateBypass, AtNode
  <2>2. CallReplay(Possible, Way, call[c])
    BY DEF ReplayInv
  <2> QED BY <1>1, <2>1, <2>2, ExecutesPossible
<1>5. CASE WorkNode(c)
  <2>0. Kind[n] = "work" /\ st.resume_at = Unset
    BY <1>4, <1>5 DEF WorkNode, AtNode, GateResume
  <2>1. CASE WriteField[n] = Unset
    <3>1. Advance(c, st, {YamlNode(n)})
      BY <1>5, <2>1 DEF WorkNode
    <3>2. st.data \in Written(n, st.data)
      BY <2>1 DEF Written
    <3>3. SituationOf(st, done \cup {YamlNode(n)}) \in Outcomes(n, SituationOf(st, done))
      BY <1>2, <2>0, <3>2, WorkOutcome
    <3> HIDE DEF n, st
    <3> QED BY <1>1, <1>3, <2>0, <3>1, <3>3, NodeReplay DEF n, st
  <2>2. CASE WriteField[n] # Unset
    <3>0. \E v \in Values : Advance(c, [st EXCEPT !.data[WriteField[n]] = v], {YamlNode(n)})
      BY <1>5, <2>2, Zenon DEF WorkNode
    <3>1. PICK v \in Values : Advance(c, [st EXCEPT !.data[WriteField[n]] = v], {YamlNode(n)})
      BY <3>0
    <3> DEFINE w == [st EXCEPT !.data[WriteField[n]] = v]
    <3>2. w.next = st.next /\ w.resume_at = st.resume_at
      BY <1>2 DEF Bag
    <3>3. w.data \in Written(n, st.data)
      BY <1>2, <2>2 DEF Bag, Written
    <3>4. Advance(c, w, {YamlNode(n)})
      BY <3>1
    <3> HIDE DEF w
    <3>5. SituationOf(w, done \cup {YamlNode(n)}) \in Outcomes(n, SituationOf(st, done))
      BY <1>2, <2>0, <3>2, <3>3, WorkOutcome
    <3> QED BY <1>1, <1>3, <2>0, <3>2, <3>4, <3>5, NodeReplay
  <2> QED BY <2>1, <2>2
<1>6. CASE ApplyNode(c)
  <2> DEFINE w == ApplyOutcome(n, st)
  <2>0. Kind[n] = "apply" /\ st.resume_at = Unset
    BY <1>4, <1>6 DEF ApplyNode, AtNode, GateResume
  <2>1. SituationOf(w, done \cup {YamlNode(n)}) \in Outcomes(n, SituationOf(st, done))
    BY <1>2, <2>0, ApplyOutcomes
  <2>2. w.resume_at = Unset
    BY <1>2, <2>0 DEF Bag, ApplyOutcome
  <2>3. Advance(c, w, {YamlNode(n)})
    BY <1>6 DEF ApplyNode
  <2> HIDE DEF w
  <2> QED BY <1>1, <1>3, <2>1, <2>2, <2>3, NodeReplay
<1>7. CASE GateBypass(c)
  <2>0. Kind[n] = "gate" /\ Advance(c, st, {})
    BY <1>7 DEF GateBypass, AtNode
  <2>1. SituationOf(st, done \cup {}) \in Outcomes(n, SituationOf(st, done))
    BY <1>2, <2>0, GateOutcome
  <2>2. st.resume_at = Unset
    <3>1. Kind[n] = "gate" /\ Bypassed(n, st) /\ CallReplay(Possible, Way, call[c])
      BY <1>7 DEF GateBypass, AtNode, ReplayInv
    <3> QED BY <1>1, <3>1, ExecutesPossible
  <2> QED BY <1>1, <1>3, <2>0, <2>1, <2>2, NodeReplay
<1>8. CASE GateResume(c)
  <2> DEFINE w == GateBag(n, st)
  <2>0. Kind[n] = "gate" /\ Advance(c, w, {})
    BY <1>8 DEF GateResume, AtNode, GateBag
  <2>1. w.next = st.next /\ w.data = st.data /\ w.resume_at = Unset
    BY <1>2 DEF GateBag, Bag
  <2> HIDE DEF w
  <2>2. SituationOf(w, done \cup {}) \in Outcomes(n, SituationOf(st, done))
    BY <1>2, <2>0, <2>1, GateOutcome
  <2> QED BY <1>1, <1>3, <2>0, <2>1, <2>2, NodeReplay
<1> QED BY <1>5, <1>6, <1>7, <1>8

LEMMA InitReplay ==
  ASSUME NEW Possible, NEW Way, Init
  PROVE  ReplayInv(Possible, Way)
<1>1. NoCall.pc = "idle"
  BY DEF NoCall
<1> QED BY <1>1 DEF Init, ReplayInv, CallReplay

LEMMA InvokeReplay ==
  ASSUME TypeInv, NEW Possible, NEW Way, Closed(Possible), ReplayInv(Possible, Way),
         NEW c \in Calls, NEW a \in Agents, NEW i \in Inputs, Invoke(c, a, i)
  PROVE  ReplayInv(Possible, Way)'
<1> DEFINE r == [NoCall EXCEPT !.pc = "run", !.agent = a, !.node = Start[a],
                               !.st = FreshBag(i)]
<1>1. /\ r.pc = "run" /\ r.node = Start[a] /\ r.st = FreshBag(i)
      /\ r.before = {} /\ r.ran = {}
  BY DEF NoCall
<1>2. call' = [call EXCEPT ![c] = r] /\ UNCHANGED store
  BY DEF Invoke
<1> HIDE DEF r
<1>3. CallSituation(r) = SituationOf(FreshBag(i), {})
  <2>1. r.before \cup r.ran = {}
    BY <1>1
  <2> QED BY <1>1, <2>1 DEF CallSituation
<1>4. r.st.resume_at = Unset
  BY <1>1 DEF FreshBag
<1>5. CallSituation(r) \in Possible[r.node]
  BY <1>1, <1>3 DEF Closed
<1>6. CallReplay(Possible, Way, r)
  BY <1>1, <1>4, <1>5 DEF CallReplay
<1> QED BY <1>2, <1>6, ReplayCallStep

\* The answer to a waiting record starts its resume on the way to the gate.
LEMMA ResumeReplay ==
  ASSUME TypeInv, NEW Possible, NEW Way, Replays(Possible, Way), ReplayInv(Possible, Way),
         NEW c \in Calls, NEW s \in Sessions, NEW d \in HitlDecisions,
         NEW patch \in Patches, NEW known \in BOOLEAN, Resume(c, s, d, patch, known)
  PROVE  ReplayInv(Possible, Way)'
<1> DEFINE r == store[s]
           policy == PolicyFor(r, known)
           st == MergeDecision(r.st, s, r.gate, d)
           data == PatchData(st.data, ResumePatch(policy, d, patch), ResumeTarget(policy, d))
           st2 == [st EXCEPT !.data = data]
           n == [pc |-> "audit_resume", kind |-> "resume",
                 agent |-> IF known THEN r.agent ELSE Unset, node |-> End,
                 st |-> st2, gate |-> r.gate, choice |-> d, found |-> Unset,
                 before |-> r.done, ran |-> {}]
<1>1. /\ r \in Record /\ r.status = "waiting_hitl" /\ RecordReplay(Possible, r)
      /\ ResumeAccepted(policy, d, patch)
  BY DEF Resume, Resumable, Waiting, MayKnow, TypeInv, TypeOK, ReplayInv
<1>2. r.st \in Bag /\ r.gate \in Ids
  BY <1>1 DEF Record
<1>3. PICK p \in Gates : /\ Owner[p] = r.agent /\ GateId[p] = r.gate
                         /\ ~Bypassed(p, r.st)
                         /\ SituationOf(r.st, r.done) \in Possible[p]
  BY <1>1 DEF RecordReplay
<1>4. st \in Bag /\ d # Unset
  BY <1>1, ResumeBag, GraphAssumption
<1>5. /\ st2.resume_at = r.gate /\ st2.decisions[r.gate] = d
      /\ st2.skip = r.st.skip /\ st2.enabled = r.st.enabled
      /\ st2.next = r.st.next /\ st2.data = data /\ st.data = r.st.data
  BY <1>2 DEF MergeDecision, Bag, Decision
<1>6. call' = [call EXCEPT ![c] = n] /\ UNCHANGED store
  BY DEF Resume
<1>7. CASE known
  <2>1. policy = Policy[Owner[p]]
    BY <1>3, <1>7 DEF PolicyFor
  <2>2. <<Start[Owner[p]], Answered(Owner[p], d, patch, SituationOf(r.st, r.done))>> \in Way[p]
    BY <1>1, <1>3, <2>1 DEF Replays
  <2>3. Answered(Owner[p], d, patch, SituationOf(r.st, r.done))
          = [next |-> r.st.next, data |-> data, done |-> r.done]
    BY <1>5, <2>1 DEF Answered, SituationOf
  <2>4. CallSituation(n) = [next |-> r.st.next, data |-> data, done |-> r.done]
    <3>1. n.before \cup n.ran = r.done
      OBVIOUS
    <3> QED BY <1>5, <3>1 DEF CallSituation, SituationOf
  <2>5. Answers(p, n)
    <3>1. ~Bypassed(p, st2)
      BY <1>3, <1>5 DEF Bypassed
    <3> HIDE DEF st2
    <3> QED BY <1>3, <1>4, <1>5, <1>7, <3>1 DEF Answers
  <2>6. OnWay(Way, Start[n.agent], n)
    <3>1. n.agent = Owner[p]
      BY <1>3, <1>7
    <3> HIDE DEF n
    <3> QED BY <2>2, <2>3, <2>4, <2>5, <3>1 DEF OnWay
  <2>7. n.pc = "audit_resume"
    OBVIOUS
  <2> HIDE DEF n
  <2>8. CallReplay(Possible, Way, n)
    BY <2>6, <2>7 DEF CallReplay
  <2> QED BY <1>6, <2>8, ReplayCallStep
<1>8. CASE ~known
  <2>1. n.pc = "audit_resume" /\ n.agent = Unset
    BY <1>8
  <2> HIDE DEF n
  <2>2. CallReplay(Possible, Way, n)
    BY <2>1 DEF CallReplay
  <2> QED BY <1>6, <2>2, ReplayCallStep
<1> QED BY <1>7, <1>8

LEMMA CreateAgentReplay ==
  ASSUME TypeInv, NEW Possible, NEW Way, ReplayInv(Possible, Way),
         NEW c \in Calls, CreateAgent(c)
  PROVE  ReplayInv(Possible, Way)'
<1> DEFINE r == IF call[c].agent # Unset
                THEN [call[c] EXCEPT !.pc = "run", !.node = Start[call[c].agent]]
                ELSE [call[c] EXCEPT !.pc = "failed"]
<1>1. call[c] \in Call /\ call[c].pc = "compile" /\ CallReplay(Possible, Way, call[c])
  BY DEF CreateAgent, TypeInv, TypeOK, ReplayInv
<1>2. call' = [call EXCEPT ![c] = r] /\ UNCHANGED store
  BY <1>1 DEF CreateAgent, TypeInv, TypeOK
<1>3. CASE call[c].agent # Unset
  <2>1. /\ r.pc = "run" /\ r.node = Start[call[c].agent] /\ r.st = call[c].st
        /\ r.agent = call[c].agent /\ r.gate = call[c].gate /\ r.choice = call[c].choice
        /\ r.before = call[c].before /\ r.ran = call[c].ran
    BY <1>1, <1>3 DEF Call
  <2> HIDE DEF r
  <2>2. PICK p \in Gates : /\ Answers(p, call[c])
                           /\ <<Start[call[c].agent], CallSituation(call[c])>> \in Way[p]
    BY <1>1, <1>3 DEF CallReplay, OnWay
  <2>3. Answers(p, r) /\ CallSituation(r) = CallSituation(call[c])
    BY <2>1, <2>2 DEF Answers, CallSituation
  <2>4. r.st.resume_at # Unset
    BY <2>3, GraphAssumption DEF Answers, Gates
  <2>5. CallReplay(Possible, Way, r)
    BY <2>1, <2>2, <2>3, <2>4 DEF CallReplay, OnWay
  <2> QED BY <1>2, <2>5, ReplayCallStep
<1>4. CASE call[c].agent = Unset
  <2>1. r.pc = "failed"
    BY <1>1, <1>4 DEF Call
  <2> HIDE DEF r
  <2>2. CallReplay(Possible, Way, r)
    BY <2>1 DEF CallReplay
  <2> QED BY <1>2, <2>2, ReplayCallStep
<1> QED BY <1>3, <1>4

\* A call that goes on with its bag, in no graph.
LEMMA QuietReplay ==
  ASSUME NEW Possible, NEW Way, NEW r, NEW r2, CallReplay(Possible, Way, r),
         r2.st = r.st, r2.agent = r.agent, r2.gate = r.gate, r2.choice = r.choice,
         r2.before = r.before, r2.ran = r.ran, r2.pc # "run",
         r2.pc \in {"audit_resume", "compile"} => r.pc \in {"audit_resume", "compile"},
         r2.pc \in {"close_read", "close_write", "close_audit"} =>
           r.pc \in {"close_read", "close_write", "close_audit"}
  PROVE  CallReplay(Possible, Way, r2)
<1>1. CallSituation(r2) = CallSituation(r)
  BY DEF CallSituation
<1>2. \A p \in Gates : Answers(p, r) => Answers(p, r2)
  BY DEF Answers
<1> QED BY <1>1, <1>2 DEF CallReplay, OnWay

LEMMA EndReplay ==
  ASSUME TypeInv, NEW Possible, NEW Way, ReplayInv(Possible, Way), NEW c \in Calls,
         \/ AuditResume(c) \/ AuditPause(c) \/ CloseRead(c) \/ CloseAudit(c)
         \/ HostPersist(c) \/ Abort(c)
         \/ \E s, d, p, known : ResumeRefused(c, s, d, p, known)
  PROVE  ReplayInv(Possible, Way)'
<1> DEFINE r == call'[c]
<1>1. call[c] \in Call /\ CallReplay(Possible, Way, call[c])
  BY DEF TypeInv, TypeOK, ReplayInv
<1>2. call' = [call EXCEPT ![c] = r] /\ UNCHANGED store
  BY DEF AuditResume, AuditPause, CloseRead, CloseAudit, HostPersist, Abort, ResumeRefused,
         TypeInv, TypeOK
<1>3. /\ r.st = call[c].st /\ r.agent = call[c].agent /\ r.gate = call[c].gate
      /\ r.choice = call[c].choice /\ r.before = call[c].before /\ r.ran = call[c].ran
  BY <1>1 DEF AuditResume, AuditPause, CloseRead, CloseAudit, HostPersist, Abort,
              ResumeRefused, Call, TypeInv, TypeOK
<1>4. \/ r.pc = "compile" /\ call[c].pc = "audit_resume"
      \/ r.pc = "close_write" /\ call[c].pc = "close_read"
      \/ r.pc \in {"returned", "done", "failed"}
  BY <1>1 DEF AuditResume, AuditPause, CloseRead, CloseAudit, HostPersist, Abort,
              ResumeRefused, Call, TypeInv, TypeOK
<1> HIDE DEF r
<1>5. CallReplay(Possible, Way, r)
  BY <1>1, <1>3, <1>4, QuietReplay
<1>6. PICK q : q = r
  OBVIOUS
<1> QED BY <1>2, <1>5, <1>6, ReplayCallStep

\* A pause leaves a record in a possible situation of its gate.
LEMMA GatePauseReplay ==
  ASSUME TypeInv, NEW Possible, NEW Way, Replays(Possible, Way), ReplayInv(Possible, Way),
         NEW c \in Calls, GatePause(c)
  PROVE  ReplayInv(Possible, Way)'
<1> DEFINE n == call[c].node
           st == call[c].st
<1>0. /\ Executing(c) /\ Kind[n] = "gate" /\ ~Bypassed(n, st) /\ ~Decided(n, st)
      /\ call[c].pc = "run"
  BY DEF GatePause, AtNode, Executing
<1>1. call[c] \in Call /\ st \in Bag /\ n \in Nodes
  BY <1>0, AtNodeType
<1> DEFINE rec(s) == [agent |-> Owner[n], status |-> "waiting_hitl", gate |-> GateId[n],
                      st |-> Snapshot(n, st, s),
                      done |-> call[c].before \cup call[c].ran]
<1>2. PICK s \in IF st.session = Unset THEN Sessions \ issued ELSE {st.session} :
        /\ store' = [store EXCEPT ![s] = rec(s)]
        /\ call' = [call EXCEPT ![c].pc = "audit_pause", ![c].st = Snapshot(n, st, s)]
  BY DEF GatePause, Snapshot
<1>3. CallSituation(call[c]) \in Possible[n]
  <2>1. CallReplay(Possible, Way, call[c])
    BY DEF ReplayInv
  <2> QED BY <1>0, <2>1, ExecutesPossible
<1>4. /\ Snapshot(n, st, s).next = st.next /\ Snapshot(n, st, s).data = st.data
      /\ Snapshot(n, st, s).skip = st.skip /\ Snapshot(n, st, s).enabled = st.enabled
  BY <1>1 DEF Snapshot, Bag
<1>5. RecordReplay(Possible, rec(s))
  <2>1. SituationOf(Snapshot(n, st, s), call[c].before \cup call[c].ran) = CallSituation(call[c])
    BY <1>4 DEF SituationOf, CallSituation
  <2>2. ~Bypassed(n, Snapshot(n, st, s))
    BY <1>0, <1>4 DEF Bypassed
  <2>3. n \in Gates
    BY <1>0, <1>1 DEF Gates
  <2> QED BY <1>3, <2>1, <2>2, <2>3 DEF RecordReplay
<1>6. \A z \in Sessions : store'[z] = store[z] \/ store'[z] = rec(s)
  BY <1>2 DEF TypeInv, TypeOK
<1>7. \A z \in Sessions : store'[z] # Unset => RecordReplay(Possible, store'[z])
  <2> HIDE DEF rec
  <2> QED BY <1>5, <1>6 DEF ReplayInv
<1>8. \A d \in Calls : CallReplay(Possible, Way, call'[d])
  <2>1. \A d \in Calls \ {c} : call'[d] = call[d]
    BY <1>2 DEF TypeInv, TypeOK
  <2>2. call'[c].pc = "audit_pause"
    BY <1>1, <1>2 DEF TypeInv, TypeOK, Call
  <2>3. CallReplay(Possible, Way, call'[c])
    BY <2>2 DEF CallReplay
  <2> QED BY <2>1, <2>3 DEF ReplayInv
<1> QED BY <1>7, <1>8 DEF ReplayInv

\* A closed record waits for nothing.
LEMMA CloseWriteReplay ==
  ASSUME TypeInv, NEW Possible, NEW Way, ReplayInv(Possible, Way),
         NEW c \in Calls, CloseWrite(c)
  PROVE  ReplayInv(Possible, Way)'
<1> DEFINE r == [call[c] EXCEPT !.pc = "close_audit", !.found = Unset]
           x == [call[c].found EXCEPT !.status = "closed", !.st = call[c].st,
                                      !.done = call[c].before \cup call[c].ran]
<1>1. call[c] \in Call /\ Shape(call[c]) /\ call[c].pc = "close_write"
      /\ CallReplay(Possible, Way, call[c])
  BY DEF CloseWrite, TypeInv, TypeOK, ShapeOK, ReplayInv
<1>2. call[c].found \in Record
  BY <1>1 DEF Shape, Call
<1>3. x.status = "closed"
  BY <1>2 DEF Record
<1>4. \A z \in Sessions : store'[z] = store[z] \/ store'[z] = x
  BY DEF CloseWrite, TypeInv, TypeOK
<1>5. \A z \in Sessions : store'[z] # Unset => RecordReplay(Possible, store'[z])
  <2> HIDE DEF x
  <2> QED BY <1>3, <1>4 DEF ReplayInv, RecordReplay
<1>6. /\ r.st = call[c].st /\ r.agent = call[c].agent /\ r.gate = call[c].gate
      /\ r.choice = call[c].choice /\ r.before = call[c].before /\ r.ran = call[c].ran
      /\ r.pc = "close_audit"
  BY <1>1 DEF Call
<1>7. \A d \in Calls : call'[d] = IF d = c THEN r ELSE call[d]
  BY DEF CloseWrite, TypeInv, TypeOK
<1> HIDE DEF r
<1>8. CallReplay(Possible, Way, r)
  BY <1>1, <1>6, QuietReplay
<1>9. \A d \in Calls : CallReplay(Possible, Way, call'[d])
  BY <1>7, <1>8 DEF ReplayInv
<1> QED BY <1>5, <1>9 DEF ReplayInv

LEMMA ReplayStep ==
  ASSUME NEW Possible, NEW Way, Closed(Possible), Replays(Possible, Way)
  PROVE  TypeInv /\ ReplayInv(Possible, Way) /\ [Next]_vars => ReplayInv(Possible, Way)'
<1> SUFFICES ASSUME TypeInv, ReplayInv(Possible, Way), [Next]_vars
             PROVE  ReplayInv(Possible, Way)'
  OBVIOUS
<1>1. CASE UNCHANGED vars
  BY <1>1 DEF vars, ReplayInv
<1>2. ASSUME NEW c \in Calls, NEW a \in Agents, NEW i \in Inputs, Invoke(c, a, i)
      PROVE  ReplayInv(Possible, Way)'
  BY <1>2, InvokeReplay
<1>3. ASSUME NEW c \in Calls, NEW s \in Sessions, NEW d \in HitlDecisions,
             NEW p \in Patches, NEW known \in BOOLEAN,
             Resume(c, s, d, p, known) \/ ResumeRefused(c, s, d, p, known)
      PROVE  ReplayInv(Possible, Way)'
  BY <1>3, ResumeReplay, EndReplay
<1>4. ASSUME NEW c \in Calls, Step(c)
      PROVE  ReplayInv(Possible, Way)'
  BY <1>4, SkipReplay, NodeStepReplay, GatePauseReplay, CreateAgentReplay, CloseWriteReplay,
     EndReplay DEF Step
<1>5. ASSUME NEW c \in Calls, Abort(c)
      PROVE  ReplayInv(Possible, Way)'
  BY <1>5, EndReplay
<1>6. ASSUME NEW s \in Sessions, DeleteSession(s)
      PROVE  ReplayInv(Possible, Way)'
  <2>1. \A z \in Sessions : store'[z] = IF z = s THEN Unset ELSE store[z]
    BY <1>6 DEF DeleteSession, TypeInv, TypeOK
  <2> QED BY <1>6, <2>1 DEF DeleteSession, ReplayInv
<1>7. CASE AllReturned
  BY <1>1, <1>7 DEF AllReturned
<1> QED BY <1>1, <1>2, <1>3, <1>4, <1>5, <1>6, <1>7 DEF Next

\* A resume that runs to the end has been through the gate it answers, whatever other
\* calls, deletes and failures do meanwhile, for every agent whose resumes replay their
\* run.  Code: skip_until_resume, hitl.gate and resume_hitl_session ("Apply a human
\* decision and continue the paused agent", hitl/sessions.py:211).
THEOREM ResumeReachesGateCorrect ==
  ASSUME NEW Possible, NEW Way, Closed(Possible), Replays(Possible, Way)
  PROVE  Spec => []ResumeReachesGate
<1>1. ReplayInv(Possible, Way) => ResumeReachesGate
  BY DEF ReplayInv, CallReplay, ResumeReachesGate
<1>2. Init => ReplayInv(Possible, Way)
  BY InitReplay
<1>3. TypeInv /\ ReplayInv(Possible, Way) /\ [Next]_vars => ReplayInv(Possible, Way)'
  BY ReplayStep
<1> QED BY <1>1, <1>2, <1>3, InitType, TypeStep, PTL DEF Spec
-----------------------------------------------------------------------------
(* A resume repeats nothing: NoRework is inductive on top of ReplayInv, because a node
   that runs is in a possible situation of it, and Ordered says that it has not run
   there before. *)

\* A step of c that adds to what c has run only nodes that have not run.
LEMMA RanStep ==
  ASSUME TypeInv, NoRework, NEW c \in Calls, NEW r,
         r.ran \cap r.before = {}, call' = [call EXCEPT ![c] = r]
  PROVE  NoRework'
BY DEF TypeInv, TypeOK, NoRework

LEMMA NodeRework ==
  ASSUME TypeInv, NoRework, NEW Possible, NEW Way, Ordered(Possible),
         Replays(Possible, Way), ReplayInv(Possible, Way),
         NEW c \in Calls, Executing(c), Kind[call[c].node] # "gate",
         NEW st, Advance(c, st, {YamlNode(call[c].node)})
  PROVE  NoRework'
<1> DEFINE n == call[c].node
           y == {YamlNode(n)}
           r == Moved(c, st, y)
<1>1. call[c].pc = "run" /\ n \in Nodes \ Gates /\ CallReplay(Possible, Way, call[c])
  BY AtNodeType DEF Executing, Gates, ReplayInv
<1>2. CallSituation(call[c]) \in Possible[n]
  BY <1>1, ExecutesPossible
<1>3. YamlNode(n) \notin call[c].before \cup call[c].ran
  BY <1>1, <1>2 DEF Ordered, CallSituation, SituationOf
<1>4. r.before = call[c].before /\ r.ran = call[c].ran \cup y
  BY <1>1, MovedFields
<1>5. call' = [call EXCEPT ![c] = r]
  BY AdvanceMoves DEF TypeInv
<1>6. r.ran \cap r.before = {}
  BY <1>3, <1>4 DEF NoRework
<1> HIDE DEF r
<1> QED BY <1>5, <1>6, RanStep

LEMMA WalkRework ==
  ASSUME TypeInv, NoRework, NEW c \in Calls, call[c].pc = "run", NEW st, Advance(c, st, {})
  PROVE  NoRework'
<1> DEFINE none == {}
           r == Moved(c, st, none)
<1>1. r.before = call[c].before /\ r.ran = call[c].ran \cup none
  <2> HIDE DEF none
  <2> QED BY MovedFields
<1>2. call' = [call EXCEPT ![c] = r]
  BY AdvanceMoves DEF TypeInv
<1>3. r.ran \cap r.before = {}
  BY <1>1 DEF NoRework
<1> HIDE DEF r
<1> QED BY <1>2, <1>3, RanStep

LEMMA GraphStepRework ==
  ASSUME TypeInv, NoRework, NEW Possible, NEW Way, Ordered(Possible),
         Replays(Possible, Way), ReplayInv(Possible, Way), NEW c \in Calls,
         \/ SkipNode(c) \/ WorkNode(c) \/ ApplyNode(c) \/ GateBypass(c) \/ GateResume(c)
  PROVE  NoRework'
<1> DEFINE n == call[c].node
           st == call[c].st
<1>1. call[c].pc = "run"
  BY DEF SkipNode, WorkNode, ApplyNode, GateBypass, GateResume, AtNode
<1>2. CASE SkipNode(c) \/ GateBypass(c)
  BY <1>1, <1>2, WalkRework DEF SkipNode, GateBypass
<1>3. CASE GateResume(c)
  <2>1. Advance(c, GateBag(n, st), {})
    BY <1>3 DEF GateResume, GateBag
  <2> QED BY <1>1, <2>1, WalkRework
<1>4. CASE WorkNode(c) \/ ApplyNode(c)
  <2>1. Executing(c) /\ Kind[n] # "gate"
    BY <1>4 DEF WorkNode, ApplyNode, AtNode, Executing
  <2>2. \E w : Advance(c, w, {YamlNode(n)})
    <3>1. CASE ApplyNode(c)
      BY <3>1 DEF ApplyNode
    <3>2. CASE WorkNode(c) /\ WriteField[n] = Unset
      BY <3>2 DEF WorkNode
    <3>3. CASE WorkNode(c) /\ WriteField[n] # Unset
      <4>1. \E v \in Values : Advance(c, [st EXCEPT !.data[WriteField[n]] = v], {YamlNode(n)})
        BY <3>3, Zenon DEF WorkNode
      <4> QED BY <4>1
    <3> QED BY <1>4, <3>1, <3>2, <3>3
  <2> QED BY <2>1, <2>2, NodeRework
<1> QED BY <1>2, <1>3, <1>4

LEMMA OtherRework ==
  ASSUME TypeInv, NoRework, NEW c \in Calls,
         \/ AuditResume(c) \/ CreateAgent(c) \/ GatePause(c) \/ AuditPause(c)
         \/ CloseRead(c) \/ CloseWrite(c) \/ CloseAudit(c) \/ HostPersist(c) \/ Abort(c)
         \/ \E s, d, p, known : ResumeRefused(c, s, d, p, known)
  PROVE  NoRework'
<1>1. call[c] \in Call
  BY DEF TypeInv, TypeOK
<1>2. call'[c].ran = call[c].ran /\ call'[c].before = call[c].before
  <2>1. CASE GatePause(c)
    <3>1. \E st : call' = [call EXCEPT ![c].pc = "audit_pause", ![c].st = st]
      BY <2>1, Zenon DEF GatePause
    <3>2. PICK st : call' = [call EXCEPT ![c].pc = "audit_pause", ![c].st = st]
      BY <3>1
    <3> QED BY <1>1, <3>2 DEF Call, TypeInv, TypeOK
  <2>2. CASE CreateAgent(c) \/ CloseRead(c) \/ CloseWrite(c)
    BY <1>1, <2>2 DEF CreateAgent, CloseRead, CloseWrite, Call, TypeInv, TypeOK
  <2>3. CASE \/ AuditResume(c) \/ AuditPause(c) \/ CloseAudit(c) \/ HostPersist(c) \/ Abort(c)
             \/ \E s, d, p, known : ResumeRefused(c, s, d, p, known)
    BY <1>1, <2>3 DEF AuditResume, AuditPause, CloseAudit, HostPersist, Abort, ResumeRefused,
                      Call, TypeInv, TypeOK
  <2> QED BY <2>1, <2>2, <2>3
<1>3. \A d \in Calls \ {c} : call'[d] = call[d]
  BY DEF AuditResume, CreateAgent, GatePause, AuditPause, CloseRead, CloseWrite,
         CloseAudit, HostPersist, Abort, ResumeRefused, TypeInv, TypeOK
<1> QED BY <1>2, <1>3 DEF NoRework

LEMMA NoReworkStep ==
  ASSUME NEW Possible, NEW Way, Replays(Possible, Way), Ordered(Possible)
  PROVE  TypeInv /\ ReplayInv(Possible, Way) /\ NoRework /\ [Next]_vars => NoRework'
<1> SUFFICES ASSUME TypeInv, ReplayInv(Possible, Way), NoRework, [Next]_vars
             PROVE  NoRework'
  OBVIOUS
<1>1. CASE UNCHANGED vars
  BY <1>1 DEF vars, NoRework
<1>2. ASSUME NEW c \in Calls, NEW a \in Agents, NEW i \in Inputs, Invoke(c, a, i)
      PROVE  NoRework'
  <2> DEFINE r == [NoCall EXCEPT !.pc = "run", !.agent = a, !.node = Start[a],
                                 !.st = FreshBag(i)]
  <2>1. r.ran = {} /\ call' = [call EXCEPT ![c] = r]
    BY <1>2 DEF NoCall, Invoke
  <2> HIDE DEF r
  <2> QED BY <2>1, RanStep
<1>3. ASSUME NEW c \in Calls, NEW s \in Sessions, NEW d \in HitlDecisions,
             NEW p \in Patches, NEW known \in BOOLEAN, Resume(c, s, d, p, known)
      PROVE  NoRework'
  <2>1. call'[c].ran = {} /\ \A x \in Calls \ {c} : call'[x] = call[x]
    BY <1>3 DEF Resume, TypeInv, TypeOK
  <2> QED BY <2>1 DEF NoRework
<1>4. ASSUME NEW c \in Calls, NEW s \in Sessions, NEW d \in HitlDecisions,
             NEW p \in Patches, NEW known \in BOOLEAN, ResumeRefused(c, s, d, p, known)
      PROVE  NoRework'
  BY <1>4, OtherRework
<1>5. ASSUME NEW c \in Calls, Step(c) \/ Abort(c)
      PROVE  NoRework'
  BY <1>5, GraphStepRework, OtherRework DEF Step
<1>6. ASSUME NEW s \in Sessions, DeleteSession(s)
      PROVE  NoRework'
  BY <1>6 DEF DeleteSession, NoRework
<1>7. CASE AllReturned
  BY <1>1, <1>7 DEF AllReturned
<1> QED BY <1>1, <1>2, <1>3, <1>4, <1>5, <1>6, <1>7 DEF Next

\* A resumed run repeats nothing that ran before its snapshot was taken, for every agent
\* whose resumes replay their run and whose runs come at most once to a node.  Code:
\* skip_until_resume ("avoids re-running SQL/LLM work before the gate",
\* hitl/decorator.py:6).
THEOREM NoReworkCorrect ==
  ASSUME NEW Possible, NEW Way, Closed(Possible), Replays(Possible, Way), Ordered(Possible)
  PROVE  Spec => []NoRework
<1>1. Init => ReplayInv(Possible, Way)
  BY InitReplay
<1>2. Init => NoRework
  BY DEF Init, NoRework, NoCall
<1>3. TypeInv /\ ReplayInv(Possible, Way) /\ [Next]_vars => ReplayInv(Possible, Way)'
  BY ReplayStep
<1>4. TypeInv /\ ReplayInv(Possible, Way) /\ NoRework /\ [Next]_vars => NoRework'
  BY NoReworkStep
<1> QED BY <1>1, <1>2, <1>3, <1>4, InitType, TypeStep, PTL DEF Spec
-----------------------------------------------------------------------------
(* A rejection ends the run it resumes: past the gate it is at hitl.apply_outcome
   (RejectionEnds), which sets hitl_next and has no way on but END. *)

CallReject(r) ==
  r.choice = "rejected" =>
    /\ r.pc # "audit_pause"
    /\ (r.pc = "run" /\ r.st.resume_at = Unset) =>
         /\ Kind[r.node] = "apply" /\ r.st.decision = "rejected"
         /\ Succ[r.node]["rejected"] = End
    /\ r.pc \in {"close_read", "close_write", "close_audit", "returned"} =>
         r.st.next = "rejected"

RejectInv ==
  \A c \in Calls : /\ CallReject(call[c])
                   /\ c \in persisted => call[c].pc = "done" /\ call[c].choice # "rejected"

LEMMA RejectStepOf ==
  ASSUME TypeInv, RejectInv, NEW c \in Calls, NEW r, CallReject(r),
         call[c].pc # "done", call' = [call EXCEPT ![c] = r], UNCHANGED persisted
  PROVE  RejectInv'
<1>1. \A d \in Calls : call'[d] = IF d = c THEN r ELSE call[d]
  BY DEF TypeInv, TypeOK
<1> QED BY <1>1 DEF RejectInv

\* A run that was told of a rejection is skipping, at the gate, or at apply_outcome.
LEMMA RejectedRun ==
  ASSUME TypeInv, RejectInv, NEW Possible, NEW Way, Closed(Possible), RejectionEnds(Possible),
         Replays(Possible, Way), ReplayInv(Possible, Way), NEW c \in Calls,
         call[c].choice = "rejected",
         \/ SkipNode(c) \/ WorkNode(c) \/ ApplyNode(c) \/ GateBypass(c) \/ GateResume(c)
  PROVE  RejectInv'
<1> DEFINE n == call[c].node
           st == call[c].st
<1>1. /\ call[c].pc = "run" /\ CallReplay(Possible, Way, call[c]) /\ CallReject(call[c])
      /\ UNCHANGED persisted
  BY DEF SkipNode, WorkNode, ApplyNode, GateBypass, GateResume, AtNode, ReplayInv, RejectInv
<1>2. call[c] \in Call /\ st \in Bag /\ n \in Nodes
  BY <1>1, AtNodeType
<1>3. CASE SkipNode(c)
  <2> DEFINE none == {}
             m == Succ[n][Label(n, st)]
             r == Moved(c, st, none)
  <2>1. st.resume_at # Unset /\ Skipping(n, st) /\ Advance(c, st, none)
    BY <1>3 DEF SkipNode, Skipping
  <2>2. m # End
    BY <1>1, <2>1, SkipsOn
  <2>3. /\ call' = [call EXCEPT ![c] = r]
        /\ r.st = st /\ r.pc = IF m = End THEN AfterRun(c, st) ELSE "run"
    <3> HIDE DEF none
    <3> QED BY <1>1, <2>1, AdvanceMoves, MovedFields DEF TypeInv
  <2> HIDE DEF r, m
  <2>4. CallReject(r)
    BY <2>1, <2>2, <2>3 DEF CallReject
  <2> QED BY <1>1, <2>3, <2>4, RejectStepOf
<1>4. ASSUME Executing(c), Kind[n] # "gate" \/ Bypassed(n, st)
      PROVE  Kind[n] = "apply" /\ st.decision = "rejected" /\ Succ[n]["rejected"] = End
  <2>1. st.resume_at = Unset
    BY <1>1, <1>4, ExecutesPossible
  <2> QED BY <1>1, <2>1 DEF CallReject
<1>5. ~WorkNode(c) /\ ~GateBypass(c)
  BY <1>4 DEF WorkNode, GateBypass, AtNode, Executing
<1>6. CASE ApplyNode(c)
  <2> DEFINE w == ApplyOutcome(n, st)
             y == {YamlNode(n)}
             m == Succ[n][Label(n, w)]
             r == Moved(c, w, y)
  <2>1. Kind[n] = "apply" /\ st.decision = "rejected" /\ Succ[n]["rejected"] = End
    BY <1>4, <1>6 DEF ApplyNode, AtNode, Executing
  <2>2. w.next = "rejected"
    BY <1>2, <2>1 DEF ApplyOutcome, Bag
  <2>3. m = End
    BY <2>1, <2>2 DEF Label
  <2>4. Advance(c, w, y)
    BY <1>6 DEF ApplyNode
  <2>5. /\ call' = [call EXCEPT ![c] = r]
        /\ r.st = w /\ r.pc = IF m = End THEN AfterRun(c, w) ELSE "run"
        /\ AfterRun(c, w) \in {"done", "close_read", "returned"}
    <3> HIDE DEF w, y
    <3> QED BY <1>1, <2>4, AdvanceMoves, MovedFields DEF TypeInv
  <2> HIDE DEF r, m, w
  <2>6. CallReject(r)
    BY <2>2, <2>3, <2>5 DEF CallReject
  <2> QED BY <1>1, <2>5, <2>6, RejectStepOf
<1>7. CASE GateResume(c)
  <2> DEFINE none == {}
             w == GateBag(n, st)
             m == Succ[n][Label(n, w)]
             r == Moved(c, w, none)
  <2>1. /\ Executing(c) /\ Kind[n] = "gate" /\ Advance(c, w, none)
    BY <1>7 DEF GateResume, AtNode, GateBag, Executing
  <2>2. st.resume_at # Unset
    BY <1>1, <2>1 DEF CallReject
  <2>3. st.decisions[GateId[n]] = "rejected" /\ CallSituation(call[c]) \in Possible[n]
    BY <1>1, <2>1, <2>2, SkipsOn DEF Executing
  <2>4. w.decision = "rejected" /\ w.data = st.data
    BY <1>2, <2>3 DEF GateBag, Bag
  <2>5. Label(n, CallSituation(call[c])) = Label(n, w)
    <3>1. Label(n, w) = Label(n, st)
      BY <2>1, <2>4 DEF Label
    <3> QED BY <3>1, LabelSame DEF CallSituation
  <2>6. m # End /\ Kind[m] = "apply" /\ Succ[m]["rejected"] = End
    <3>1. n \in Gates
      BY <1>2, <2>1 DEF Gates
    <3> QED BY <2>3, <2>5, <3>1 DEF RejectionEnds
  <2>7. /\ call' = [call EXCEPT ![c] = r]
        /\ r.st = w /\ r.node = m /\ r.pc = IF m = End THEN AfterRun(c, w) ELSE "run"
    <3> HIDE DEF w, none
    <3> QED BY <1>1, <2>1, AdvanceMoves, MovedFields DEF TypeInv
  <2> HIDE DEF r, m, w
  <2>8. CallReject(r)
    BY <2>4, <2>6, <2>7 DEF CallReject
  <2> QED BY <1>1, <2>7, <2>8, RejectStepOf
<1> QED BY <1>3, <1>5, <1>6, <1>7

LEMMA OtherRun ==
  ASSUME TypeInv, RejectInv, NEW c \in Calls, call[c].choice # "rejected",
         \/ SkipNode(c) \/ WorkNode(c) \/ ApplyNode(c) \/ GateBypass(c) \/ GateResume(c)
  PROVE  RejectInv'
<1>1. call[c].pc = "run" /\ UNCHANGED persisted
  BY DEF SkipNode, WorkNode, ApplyNode, GateBypass, GateResume, AtNode
<1>2. \E st, ran : Advance(c, st, ran)
  <2>1. CASE SkipNode(c) \/ ApplyNode(c) \/ GateBypass(c)
    BY <2>1 DEF SkipNode, ApplyNode, GateBypass
  <2>2. CASE GateResume(c)
    BY <2>2, Zenon DEF GateResume
  <2>3. CASE WorkNode(c)
    BY <2>3, Zenon DEF WorkNode
  <2> QED BY <2>1, <2>2, <2>3
<1>3. PICK st, ran : Advance(c, st, ran)
  BY <1>2
<1>4. call' = [call EXCEPT ![c] = Moved(c, st, ran)]
  BY <1>3, AdvanceMoves DEF TypeInv
<1>5. Moved(c, st, ran).choice # "rejected"
  BY <1>1, MovedFields
<1>6. CallReject(Moved(c, st, ran))
  BY <1>5 DEF CallReject
<1> QED BY <1>1, <1>4, <1>6, RejectStepOf

\* A rejected run does not pause again.
LEMMA GatePauseReject ==
  ASSUME TypeInv, RejectInv, NEW Possible, NEW Way, Replays(Possible, Way),
         ReplayInv(Possible, Way), NEW c \in Calls, GatePause(c)
  PROVE  RejectInv'
<1> DEFINE n == call[c].node
           st == call[c].st
           r == call'[c]
<1>1. /\ Executing(c) /\ Kind[n] = "gate" /\ ~Decided(n, st) /\ call[c].pc = "run"
      /\ CallReplay(Possible, Way, call[c]) /\ CallReject(call[c])
      /\ call[c] \in Call
  BY DEF GatePause, AtNode, Executing, ReplayInv, RejectInv, TypeInv, TypeOK
<1>2. st.resume_at = Unset
  BY <1>1, ExecutesPossible
<1>3. call[c].choice # "rejected"
  BY <1>1, <1>2 DEF CallReject
<1>4. r.choice = call[c].choice
  BY <1>1 DEF GatePause, Call, TypeInv, TypeOK
<1>5. call' = [call EXCEPT ![c] = r] /\ UNCHANGED persisted
  BY DEF GatePause, TypeInv, TypeOK
<1> HIDE DEF r
<1>6. CallReject(r)
  BY <1>3, <1>4 DEF CallReject
<1>7. PICK q : q = r
  OBVIOUS
<1> QED BY <1>1, <1>5, <1>6, <1>7, RejectStepOf

LEMMA EndReject ==
  ASSUME TypeInv, RejectInv, NEW c \in Calls,
         \/ AuditResume(c) \/ AuditPause(c) \/ CloseRead(c) \/ CloseWrite(c) \/ CloseAudit(c)
         \/ Abort(c) \/ \E s, d, p, known : ResumeRefused(c, s, d, p, known)
  PROVE  RejectInv'
<1> DEFINE r == call'[c]
<1>1. call[c] \in Call /\ CallReject(call[c]) /\ call[c].pc # "done"
  BY DEF AuditResume, AuditPause, CloseRead, CloseWrite, CloseAudit, Abort, ResumeRefused,
         InFlight, Running, TypeInv, TypeOK, RejectInv
<1>2. call' = [call EXCEPT ![c] = r] /\ UNCHANGED persisted
  BY DEF AuditResume, AuditPause, CloseRead, CloseWrite, CloseAudit, Abort, ResumeRefused,
         TypeInv, TypeOK
<1>3. r.st = call[c].st /\ r.choice = call[c].choice
  BY <1>1 DEF AuditResume, AuditPause, CloseRead, CloseWrite, CloseAudit, Abort,
              ResumeRefused, Call, TypeInv, TypeOK
<1>4. \/ r.pc \in {"compile", "done", "failed"}
      \/ r.pc \in {"close_write", "close_audit", "returned"}
           /\ call[c].pc \in {"close_read", "close_write", "close_audit", "audit_pause"}
  BY <1>1 DEF AuditResume, AuditPause, CloseRead, CloseWrite, CloseAudit, Abort,
              ResumeRefused, Call, TypeInv, TypeOK
<1> HIDE DEF r
<1>5. CallReject(r)
  BY <1>1, <1>3, <1>4 DEF CallReject
<1>6. PICK q : q = r
  OBVIOUS
<1> QED BY <1>1, <1>2, <1>5, <1>6, RejectStepOf

\* What a rejected resume returns, the host does not keep.
LEMMA HostPersistReject ==
  ASSUME TypeInv, RejectInv, NEW c \in Calls, HostPersist(c)
  PROVE  RejectInv'
<1>1. call[c] \in Call /\ CallReject(call[c]) /\ call[c].pc = "returned"
  BY DEF HostPersist, TypeInv, TypeOK, RejectInv
<1>2. /\ \A d \in Calls \ {c} : call'[d] = call[d]
      /\ call'[c].pc = "done" /\ call'[c].choice = call[c].choice
      /\ persisted' \subseteq persisted \cup {c}
  BY <1>1 DEF HostPersist, Call, TypeInv, TypeOK
<1>3. c \in persisted' => call[c].choice # "rejected"
  <2>1. ShouldPersist(call[c].st) => call[c].choice # "rejected"
    <3>1. SUFFICES ASSUME ShouldPersist(call[c].st), call[c].choice = "rejected" PROVE FALSE
      OBVIOUS
    <3>2. call[c].st.next = "rejected"
      BY <1>1, <3>1 DEF CallReject
    <3>3. Unset # "rejected"
      BY GraphAssumption DEF HitlDecisions
    <3> QED BY <3>1, <3>2, <3>3 DEF ShouldPersist
  <2>2. c \notin persisted
    BY <1>1 DEF RejectInv
  <2> QED BY <2>1, <2>2 DEF HostPersist
<1>4. CallReject(call'[c])
  BY <1>2 DEF CallReject
<1> QED BY <1>2, <1>3, <1>4 DEF RejectInv

LEMMA StartReject ==
  ASSUME TypeInv, RejectInv, NEW Possible, NEW Way, ReplayInv(Possible, Way), NEW c \in Calls,
         \/ \E a \in Agents, i \in Inputs : Invoke(c, a, i)
         \/ \E s, d, p, known : Resume(c, s, d, p, known)
         \/ CreateAgent(c)
  PROVE  RejectInv'
<1>1. CASE \E a \in Agents, i \in Inputs : Invoke(c, a, i)
  <2>1. PICK a \in Agents, i \in Inputs : Invoke(c, a, i)
    BY <1>1
  <2> DEFINE r == [NoCall EXCEPT !.pc = "run", !.agent = a, !.node = Start[a],
                                 !.st = FreshBag(i)]
  <2>2. r.choice # "rejected"
    BY GraphAssumption DEF NoCall, HitlDecisions
  <2>3. call' = [call EXCEPT ![c] = r] /\ call[c].pc = "idle" /\ UNCHANGED persisted
    BY <2>1 DEF Invoke
  <2> HIDE DEF r
  <2>4. CallReject(r)
    BY <2>2 DEF CallReject
  <2> QED BY <2>3, <2>4, RejectStepOf
<1>2. CASE \E s, d, p, known : Resume(c, s, d, p, known)
  <2> DEFINE r == call'[c]
  <2>1. /\ r.pc = "audit_resume" /\ call[c].pc = "idle" /\ UNCHANGED persisted
        /\ call' = [call EXCEPT ![c] = r]
    BY <1>2 DEF Resume, TypeInv, TypeOK
  <2> HIDE DEF r
  <2>2. CallReject(r)
    BY <2>1 DEF CallReject
  <2>3. PICK q : q = r
    OBVIOUS
  <2> QED BY <2>1, <2>2, <2>3, RejectStepOf
<1>3. CASE CreateAgent(c)
  <2> DEFINE r == call'[c]
  <2>1. /\ call[c] \in Call /\ call[c].pc = "compile" /\ UNCHANGED persisted
        /\ CallReplay(Possible, Way, call[c])
    BY <1>3 DEF CreateAgent, TypeInv, TypeOK, ReplayInv
  <2>2. call' = [call EXCEPT ![c] = r] /\ r.pc \in {"run", "failed"} /\ r.st = call[c].st
        /\ (r.pc = "run" => call[c].agent # Unset)
    BY <1>3, <2>1 DEF CreateAgent, Call, TypeInv, TypeOK
  <2>3. r.pc = "run" => r.st.resume_at # Unset
    BY <2>1, <2>2, GraphAssumption DEF CallReplay, OnWay, Answers, Gates
  <2> HIDE DEF r
  <2>4. CallReject(r)
    BY <2>2, <2>3 DEF CallReject
  <2>5. PICK q : q = r
    OBVIOUS
  <2> QED BY <2>1, <2>2, <2>4, <2>5, RejectStepOf
<1> QED BY <1>1, <1>2, <1>3

LEMMA RejectStep ==
  ASSUME NEW Possible, NEW Way, Closed(Possible), Replays(Possible, Way),
         RejectionEnds(Possible)
  PROVE  TypeInv /\ ReplayInv(Possible, Way) /\ RejectInv /\ [Next]_vars => RejectInv'
<1> SUFFICES ASSUME TypeInv, ReplayInv(Possible, Way), RejectInv, [Next]_vars
             PROVE  RejectInv'
  OBVIOUS
<1>1. CASE UNCHANGED vars
  BY <1>1 DEF vars, RejectInv
<1>2. ASSUME NEW c \in Calls, NEW a \in Agents, NEW i \in Inputs, Invoke(c, a, i)
      PROVE  RejectInv'
  BY <1>2, StartReject
<1>3. ASSUME NEW c \in Calls, NEW s \in Sessions, NEW d \in HitlDecisions,
             NEW p \in Patches, NEW known \in BOOLEAN,
             Resume(c, s, d, p, known) \/ ResumeRefused(c, s, d, p, known)
      PROVE  RejectInv'
  BY <1>3, StartReject, EndReject
<1>4. ASSUME NEW c \in Calls, Step(c)
      PROVE  RejectInv'
  BY <1>4, StartReject, RejectedRun, OtherRun, GatePauseReject, EndReject, HostPersistReject
     DEF Step
<1>5. ASSUME NEW c \in Calls, Abort(c)
      PROVE  RejectInv'
  BY <1>5, EndReject
<1>6. ASSUME NEW s \in Sessions, DeleteSession(s)
      PROVE  RejectInv'
  BY <1>6 DEF DeleteSession, RejectInv
<1>7. CASE AllReturned
  BY <1>1, <1>7 DEF AllReturned
<1> QED BY <1>1, <1>2, <1>3, <1>4, <1>5, <1>6, <1>7 DEF Next

\* What a reviewer rejected never becomes product history, for every agent that has
\* hitl.apply_outcome behind its gates and ends there on `rejected'.  Code:
\* should_persist_after_hitl ("Waiting and rejected outcomes should not create an
\* official RecStore row", hitl/policy.py:189) with hitl.apply_outcome.
THEOREM RejectedNotPersistedCorrect ==
  ASSUME NEW Possible, NEW Way, Closed(Possible), Replays(Possible, Way),
         RejectionEnds(Possible)
  PROVE  Spec => []RejectedNotPersisted
<1>1. TypeInv /\ RejectInv => RejectedNotPersisted
  BY DEF TypeInv, TypeOK, RejectInv, RejectedNotPersisted
<1>2. Init => ReplayInv(Possible, Way)
  BY InitReplay
<1>3. Init => RejectInv
  BY GraphAssumption DEF Init, RejectInv, CallReject, NoCall, HitlDecisions
<1>4. TypeInv /\ ReplayInv(Possible, Way) /\ [Next]_vars => ReplayInv(Possible, Way)'
  BY ReplayStep
<1>5. TypeInv /\ ReplayInv(Possible, Way) /\ RejectInv /\ [Next]_vars => RejectInv'
  BY RejectStep
<1> QED BY <1>1, <1>2, <1>3, <1>4, <1>5, InitType, TypeStep, PTL DEF Spec
=============================================================================
