------------------------ MODULE SessionTranscriptProofs ------------------------
(***************************************************************************)
(* Proofs about the transcripts of SessionTurns: every list of messages the   *)
(* system holds, in a checkpoint, a run or a pause, is an earlier one or an   *)
(* earlier one with the text or the answer of one run behind it.              *)
(***************************************************************************)
EXTENDS SessionProofs

\* The lists of messages there are.
Lists == {ckpt[th].messages : th \in {x \in Threads : ckpt[x] # Unset}}
           \cup {call[c].st.messages : c \in Turns}
           \cup {pauses[t].messages : t \in {x \in Turns : pauses[x] # Unset}}

Said(c) == AppendMessage(call[c].st.messages, "user", ExtractMessage(call[c].st), call[c].turn)
Answered(c) ==
  AppendMessage(call[c].st.messages, "assistant", AssistantText(call[c].st), call[c].turn)

LEMMA ListsAreSequences ==
  ASSUME Shape, NEW ms \in Lists
  PROVE  ms \in Seq(Message)
<1>1. \A b \in Bag : b.messages \in Seq(Message)
  BY DEF Bag
<1> QED BY <1>1, RunIsTyped DEF Lists, Shape, TypeOK

LEMMA ListsFrom ==
  ASSUME Shape, NEW c \in Turns, Changes(c), NEW L, Lists \subseteq L,
         call'[c].st.messages \in L, call'[c].thread \in Threads,
         \/ Stores(c) \/ UNCHANGED ckpt
         \/ \E u \in Bag : /\ ckpt' = [ckpt EXCEPT ![call'[c].thread] = u]
                           /\ u.messages \in L,
         \/ UNCHANGED pauses
         \/ \E t \in Turns : pauses' = [pauses EXCEPT ![t] = Unset]
         \/ \E t \in Turns : \E b \in Bag :
              pauses' = [pauses EXCEPT ![t] = b] /\ b.messages \in L
  PROVE  Lists' \subseteq L
<1>1. ASSUME NEW th \in Threads, ckpt'[th] # Unset PROVE ckpt'[th].messages \in L
  <2>1. CASE ckpt'[th] = ckpt[th]
    BY <1>1, <2>1 DEF Lists
  <2>2. CASE ckpt'[th] # ckpt[th]
    BY <2>2 DEF Shape, TypeOK, Stores
  <2> QED BY <2>1, <2>2
<1>2. ASSUME NEW e \in Turns PROVE call'[e].st.messages \in L
  BY DEF Changes, Lists
<1>3. ASSUME NEW t \in Turns, pauses'[t] # Unset PROVE pauses'[t].messages \in L
  <2>1. CASE pauses'[t] = pauses[t]
    BY <1>3, <2>1 DEF Lists
  <2>2. CASE pauses'[t] # pauses[t]
    BY <1>3, <2>2 DEF Shape, TypeOK
  <2> QED BY <2>1, <2>2
<1> QED BY <1>1, <1>2, <1>3 DEF Lists

\* How the lists of the next state come from those of this one.
LEMMA ListsStep ==
  ASSUME Shape, [Next]_vars
  PROVE  \/ Lists' \subseteq Lists \cup {<<>>}
         \/ \E c \in Turns : Prepare(c) /\ Lists' \subseteq Lists \cup {Said(c)}
         \/ \E c \in Turns : /\ RecordAssistantTurn(c) /\ AssistantText(call[c].st) \in Turns
                             /\ Lists' \subseteq Lists \cup {Answered(c)}
<1> DEFINE Old == Lists \cup {<<>>}
<1>1. ASSUME NEW c \in Turns, NEW th \in Threads, NEW key \in Keys, NEW b \in InState,
             Begin(c, th, key, b)
      PROVE  Lists' \subseteq Old
  <2>1. Loaded(th).messages \in Old
    BY DEF Loaded, EmptyBag, Lists
  <2>2. /\ Changes(c) /\ Stores(c) /\ UNCHANGED pauses
        /\ call'[c].st.messages \in Old /\ call'[c].thread \in Threads
    BY <1>1, <2>1, BeginDoes
  <2> HIDE DEF Old
  <2>3. Lists \subseteq Old
    BY DEF Old
  <2> QED BY <2>2, <2>3, ListsFrom
<1>2. ASSUME NEW c \in Turns, NEW t \in Turns, NEW th \in Threads, Resume(c, t, th)
      PROVE  Lists' \subseteq Old
  <2>1. /\ Changes(c) /\ Stores(c) /\ UNCHANGED pauses /\ call'[c].thread \in Threads
        /\ call'[c].st.messages = pauses[t].messages /\ pauses[t] # Unset
    BY <1>2, ResumeDoes
  <2>2. pauses[t].messages \in Old
    BY <2>1 DEF Lists
  <2> HIDE DEF Old
  <2>3. Lists \subseteq Old
    BY DEF Old
  <2> QED BY <2>1, <2>2, <2>3, ListsFrom
<1>3. ASSUME NEW c \in Turns, Continues(c)
      PROVE  /\ Changes(c) /\ call'[c].thread \in Threads
             /\ call[c].st.messages \in Lists /\ call[c].turn \in Turns
  BY <1>3, RunIsTyped DEF Continues, Shape, Placed, Lists
<1>4. ASSUME NEW c \in Turns, Prepare(c)
      PROVE  Lists' \subseteq Lists \cup {Said(c)}
  <2>1. /\ Continues(c) /\ Stores(c) /\ UNCHANGED pauses
        /\ call'[c].st.messages = Said(c)
    BY <1>4, PrepareDoes, PreparedBag, RunIsTyped DEF Shape, Said
  <2> DEFINE L == Lists \cup {Said(c)}
  <2>2. Lists \subseteq L /\ call'[c].st.messages \in L
    BY <2>1
  <2> HIDE DEF L
  <2>3. Lists' \subseteq L
    BY <1>3, <2>1, <2>2, ListsFrom
  <2> QED BY <2>3 DEF L
<1>5. ASSUME NEW c \in Turns, SkipNode(c) \/ WorkNode(c) \/ GateResume(c)
      PROVE  Lists' \subseteq Lists
  BY <1>3, <1>5, NodeDoes, ListsFrom DEF SameRest
<1>6. ASSUME NEW c \in Turns, GatePause(c) PROVE Lists' \subseteq Lists
  <2>1. Continues(c) /\ UNCHANGED ckpt /\ call'[c].st = call[c].st
    BY <1>6, GatePauseDoes
  <2>2. PICK b \in Bag : /\ pauses' = [pauses EXCEPT ![call[c].turn] = b]
                         /\ SameRest(b, call[c].st)
    BY <1>6, GatePauseDoes
  <2>3. b.messages \in Lists
    BY <1>3, <2>1, <2>2 DEF SameRest
  <2> QED BY <1>3, <2>1, <2>2, <2>3, ListsFrom
<1>7. ASSUME NEW c \in Turns, RecordAssistantTurn(c)
      PROVE  \/ Lists' \subseteq Lists
             \/ /\ AssistantText(call[c].st) \in Turns
                /\ Lists' \subseteq Lists \cup {Answered(c)}
  <2>1. /\ Continues(c) /\ UNCHANGED pauses /\ call'[c].st = call[c].st
        /\ call'[c].thread = call[c].thread
    BY <1>7, RecordDoes DEF Continues
  <2>2. CASE UNCHANGED ckpt
    BY <1>3, <2>1, <2>2, ListsFrom
  <2>3. CASE \E u \in Bag : /\ AssistantText(call[c].st) \in Turns
                            /\ ckpt' = [ckpt EXCEPT ![call[c].thread] = u]
                            /\ u.messages = Answered(c)
    <3> DEFINE L == Lists \cup {Answered(c)}
    <3>1. Lists \subseteq L /\ call'[c].st.messages \in L
      BY <1>3, <2>1
    <3>2. \E u \in Bag : /\ ckpt' = [ckpt EXCEPT ![call'[c].thread] = u]
                         /\ u.messages \in L
      BY <2>1, <2>3
    <3> HIDE DEF L
    <3>3. Lists' \subseteq L
      BY <1>3, <2>1, <3>1, <3>2, ListsFrom
    <3> QED BY <2>3, <3>3 DEF L
  <2> QED BY <1>7, <2>2, <2>3, RecordDoes DEF Answered
<1>8. ASSUME NEW c \in Turns, Close(c) \/ Fail(c) PROVE Lists' \subseteq Lists
  <2>1. Continues(c) /\ UNCHANGED ckpt /\ call'[c].st = call[c].st
    BY <1>8, EndDoes
  <2>2. UNCHANGED pauses \/ \E t \in Turns : pauses' = [pauses EXCEPT ![t] = Unset]
    BY <1>3, <1>8, <2>1, EndDoes
  <2> QED BY <1>3, <2>1, <2>2, ListsFrom
<1>9. CASE UNCHANGED vars
  BY <1>9 DEF vars, Lists
<1> QED BY <1>1, <1>2, <1>4, <1>5, <1>6, <1>7, <1>8, <1>9 DEF Next, Step, AllReturned

\* How far a run has come.
LEMMA RunsProgress ==
  ASSUME Shape, [Next]_vars, NEW d \in Turns
  PROVE  /\ call[d].pc \notin {"idle", "prepare"} =>
              call'[d].pc \notin {"idle", "prepare"} /\ call'[d].turn = call[d].turn
         /\ call[d].pc \in {"close", "done", "failed"} =>
              call'[d].pc \in {"close", "done", "failed"}
         /\ call[d].kind = "resume" =>
              call'[d].kind = "resume" /\ call'[d].turn = call[d].turn
<1> USE DEF Continues, Changes
<1>1. ASSUME NEW c \in Turns, Changes(c), call[c] = NoRun(c)
      PROVE  c # d => call'[d] = call[d]
  BY <1>1
<1>2. NoRun(d).pc = "idle" /\ NoRun(d).kind = "turn"
  BY DEF NoRun
<1>3. ASSUME NEW c \in Turns, NEW th \in Threads, NEW key \in Keys, NEW b \in InState,
             Begin(c, th, key, b)
      PROVE  Changes(c) /\ call[c] = NoRun(c)
  BY <1>3, BeginDoes
<1>4. ASSUME NEW c \in Turns, NEW t \in Turns, NEW th \in Threads, Resume(c, t, th)
      PROVE  Changes(c) /\ call[c] = NoRun(c)
  BY <1>4, ResumeDoes
<1>5. ASSUME NEW c \in Turns, Step(c) \/ Fail(c)
      PROVE  /\ Continues(c) /\ call[c].pc \in PCs \ {"idle", "done", "failed"}
             /\ call'[c].pc \notin {"idle", "prepare"}
             /\ call[c].pc = "close" => call'[c].pc \in {"close", "done", "failed"}
  <2>1. CASE Prepare(c)
    BY <2>1, PrepareDoes DEF PCs, Running
  <2>2. CASE SkipNode(c) \/ WorkNode(c) \/ GateResume(c)
    BY <2>2, NodeDoes DEF PCs, Running
  <2>3. CASE GatePause(c)
    BY <2>3, GatePauseDoes DEF PCs, Running
  <2>4. CASE RecordAssistantTurn(c)
    BY <2>4, RecordDoes DEF PCs, Running
  <2>5. CASE Close(c) \/ Fail(c)
    BY <2>5, EndDoes DEF PCs, Running, InFlight
  <2> QED BY <1>5, <2>1, <2>2, <2>3, <2>4, <2>5 DEF Step
<1>6. CASE UNCHANGED vars
  BY <1>6 DEF vars
<1>7. CASE \E c \in Turns : Changes(c) /\ call[c] = NoRun(c)
  BY <1>1, <1>2, <1>7
<1>8. CASE \E c \in Turns : Step(c) \/ Fail(c)
  BY <1>5, <1>8
<1> QED BY <1>3, <1>4, <1>6, <1>7, <1>8 DEF Next, AllReturned
-----------------------------------------------------------------------------
(* How often a turn appears. *)

At(ms, role, t) == {i \in DOMAIN ms : ms[i].role = role /\ ms[i].by = t}

\* The runs that have got as far as appending for this role.
Behind(role) == IF role = "user" THEN {"idle", "prepare"} ELSE {"idle", "prepare", "run", "record"}
Worked(role, t) == {c \in Turns : call[c].turn = t /\ call[c].pc \notin Behind(role)}

\* The lists in which no text and no answer appears more often than runs have appended it.
Limited ==
  {ms \in Seq(Message) : \A role \in {"user", "assistant"}, t \in Turns :
     Cardinality(At(ms, role, t)) <= Cardinality(Worked(role, t))}

LEMMA AtIsFinite ==
  ASSUME NEW ms \in Seq(Message), NEW role, NEW t
  PROVE  IsFiniteSet(At(ms, role, t)) /\ Cardinality(At(ms, role, t)) \in Nat
<1>1. Len(ms) \in Nat /\ DOMAIN ms = 1..Len(ms)
  OBVIOUS
<1>2. IsFiniteSet(1..Len(ms))
  BY <1>1, FS_Interval
<1>3. At(ms, role, t) \subseteq 1..Len(ms)
  BY <1>1 DEF At
<1> QED BY <1>2, <1>3, FS_Subset, FS_CardinalityType

LEMMA AtOfAppend ==
  ASSUME NEW ms \in Seq(Message), NEW m \in Message, NEW role, NEW t
  PROVE  Cardinality(At(Append(ms, m), role, t)) <=
           Cardinality(At(ms, role, t)) + (IF m.role = role /\ m.by = t THEN 1 ELSE 0)
<1> DEFINE n == Len(ms) + 1
           A == At(ms, role, t)
<1>1. /\ Append(ms, m) \in Seq(Message) /\ Len(ms) \in Nat
      /\ DOMAIN Append(ms, m) = 1..n /\ DOMAIN ms = 1..Len(ms)
      /\ \A i \in 1..Len(ms) : Append(ms, m)[i] = ms[i]
      /\ Append(ms, m)[n] = m
  OBVIOUS
<1>2. IsFiniteSet(A) /\ Cardinality(A) \in Nat
  BY AtIsFinite
<1>3. CASE m.role = role /\ m.by = t
  <2>1. At(Append(ms, m), role, t) = A \cup {n}
    BY <1>1, <1>3 DEF At
  <2>2. n \notin A
    BY <1>1 DEF At
  <2> HIDE DEF A, n
  <2>3. Cardinality(A \cup {n}) = Cardinality(A) + 1
    BY <1>2, <2>2, FS_AddElement
  <2> QED BY <1>2, <1>3, <2>1, <2>3 DEF A
<1>4. CASE ~(m.role = role /\ m.by = t)
  <2>1. At(Append(ms, m), role, t) = A
    BY <1>1, <1>4 DEF At
  <2> QED BY <1>2, <1>4, <2>1
<1> QED BY <1>3, <1>4

LEMMA WorkedGrows ==
  ASSUME Shape, [Next]_vars, IsFiniteSet(Turns), NEW role \in {"user", "assistant"}, NEW t \in Turns
  PROVE  /\ IsFiniteSet(Worked(role, t)) /\ IsFiniteSet(Worked(role, t)')
         /\ Worked(role, t) \subseteq Worked(role, t)'
         /\ Cardinality(Worked(role, t)) \in Nat /\ Cardinality(Worked(role, t)') \in Nat
         /\ Cardinality(Worked(role, t)) <= Cardinality(Worked(role, t)')
<1>1. Worked(role, t) \subseteq Worked(role, t)'
  <2>1. ASSUME NEW d \in Turns, call[d].turn = t, call[d].pc \notin Behind(role)
        PROVE  call'[d].turn = t /\ call'[d].pc \notin Behind(role)
    BY <2>1, RunsProgress, RunIsTyped DEF Behind, Shape, PCs, Running
  <2> QED BY <2>1 DEF Worked
<1>2. IsFiniteSet(Worked(role, t)) /\ IsFiniteSet(Worked(role, t)')
  <2>1. Worked(role, t) \subseteq Turns /\ Worked(role, t)' \subseteq Turns
    BY DEF Worked
  <2> QED BY <2>1, FS_Subset
<1> DEFINE A == Worked(role, t)
           B == Worked(role, t)'
<1> HIDE DEF A, B
<1>3. A \subseteq B /\ IsFiniteSet(B) /\ IsFiniteSet(A)
  BY <1>1, <1>2 DEF A, B
<1>4. Cardinality(A) <= Cardinality(B) /\ Cardinality(A) \in Nat /\ Cardinality(B) \in Nat
  BY <1>3, FS_Subset, FS_CardinalityType
<1> QED BY <1>1, <1>2, <1>4 DEF A, B

LEMMA CountStep ==
  ASSUME IsFiniteSet(Turns)
  PROVE  Shape /\ Lists \subseteq Limited /\ [Next]_vars => (Lists \subseteq Limited)'
<1> SUFFICES ASSUME Shape, Lists \subseteq Limited, [Next]_vars PROVE Lists' \subseteq Limited'
  OBVIOUS
<1>1. Limited \subseteq Limited'
  <2>1. ASSUME NEW ms \in Limited, NEW role \in {"user", "assistant"}, NEW t \in Turns
        PROVE  Cardinality(At(ms, role, t)) <= Cardinality(Worked(role, t)')
    <3>1. /\ ms \in Seq(Message)
          /\ Cardinality(At(ms, role, t)) <= Cardinality(Worked(role, t))
      BY DEF Limited
    <3> QED BY <3>1, WorkedGrows, AtIsFinite
  <2> QED BY <2>1 DEF Limited, At
<1>2. <<>> \in Limited'
  <2>1. ASSUME NEW role \in {"user", "assistant"}, NEW t \in Turns
        PROVE  Cardinality(At(<<>>, role, t)) <= Cardinality(Worked(role, t)')
    <3>1. At(<<>>, role, t) = {}
      BY DEF At
    <3>2. Cardinality(Worked(role, t)') \in Nat
      BY WorkedGrows
    <3>3. Cardinality(At(<<>>, role, t)) = 0
      BY <3>1, FS_EmptySet
    <3> DEFINE n == Cardinality(Worked(role, t)')
    <3> HIDE DEF n
    <3>4. n \in Nat
      BY <3>2 DEF n
    <3>5. Cardinality(At(<<>>, role, t)) <= n
      BY <3>3, <3>4
    <3> QED BY <3>5 DEF n
  <2>2. <<>> \in Seq(Message)
    OBVIOUS
  <2> QED BY <2>1, <2>2 DEF Limited, At
\* The list of a run that appends one message, counted with the run.
<1>3. ASSUME NEW c \in Turns, NEW m \in Message, m.by = call[c].turn,
             call[c].pc \in Behind(m.role), call'[c].pc \notin Behind(m.role),
             call'[c].turn = call[c].turn
      PROVE  Append(call[c].st.messages, m) \in Limited'
  <2> DEFINE ms == call[c].st.messages
             new == Append(ms, m)
  <2>1. ms \in Limited /\ ms \in Seq(Message)
    BY ListsAreSequences DEF Lists
  <2> HIDE DEF ms
  <2>2. new \in Seq(Message)
    BY <2>1
  <2>3. ASSUME NEW role \in {"user", "assistant"}, NEW t \in Turns
        PROVE  Cardinality(At(new, role, t)) <= Cardinality(Worked(role, t)')
    <3>1. Cardinality(At(ms, role, t)) <= Cardinality(Worked(role, t))
      BY <2>1 DEF Limited
    <3>2. Cardinality(At(new, role, t)) <=
            Cardinality(At(ms, role, t)) + (IF m.role = role /\ m.by = t THEN 1 ELSE 0)
      BY <2>1, AtOfAppend
    <3> HIDE DEF new
    <3>3. Cardinality(At(ms, role, t)) \in Nat /\ Cardinality(At(new, role, t)) \in Nat
      BY <2>1, <2>2, AtIsFinite
    <3>4. CASE m.role = role /\ m.by = t
      <4>1. c \notin Worked(role, t) /\ c \in Worked(role, t)'
        BY <1>3, <3>4 DEF Worked, Behind
      <4>2. /\ IsFiniteSet(Worked(role, t) \cup {c})
            /\ Cardinality(Worked(role, t) \cup {c}) = Cardinality(Worked(role, t)) + 1
        BY <4>1, WorkedGrows, FS_AddElement
      <4>3. Cardinality(Worked(role, t) \cup {c}) <= Cardinality(Worked(role, t)')
        BY <4>1, WorkedGrows, FS_Subset
      <4> QED BY <3>1, <3>2, <3>3, <3>4, <4>2, <4>3, WorkedGrows
    <3>5. CASE ~(m.role = role /\ m.by = t)
      BY <3>1, <3>2, <3>3, <3>5, WorkedGrows
    <3> QED BY <3>4, <3>5
  <2> HIDE DEF new
  <2>4. new \in Limited'
    BY <2>2, <2>3 DEF Limited, At
  <2> QED BY <2>4 DEF new, ms
<1>4. ASSUME NEW c \in Turns
      PROVE  /\ call[c].st.messages \in Limited /\ call[c].st.messages \in Seq(Message)
             /\ call[c].turn \in Turns /\ call[c].st \in Bag
  BY ListsAreSequences, RunIsTyped DEF Lists, Shape
<1>5. ASSUME NEW c \in Turns, Prepare(c) PROVE Said(c) \in Limited'
  <2>1. call[c].pc = "prepare" /\ call'[c].pc \in {"run", "record"} /\ call'[c].turn = call[c].turn
    BY <1>5, PrepareDoes DEF Continues
  <2>2. CASE ExtractMessage(call[c].st) = Unset
    BY <1>1, <1>4, <2>2 DEF Said, AppendMessage
  <2>3. CASE ExtractMessage(call[c].st) # Unset
    <3> DEFINE m == [role |-> "user", text |-> ExtractMessage(call[c].st), by |-> call[c].turn]
    <3>1. ExtractMessage(call[c].st) \in Turns \cup {Unset}
      BY <1>4, PreparedBag
    <3>2. m \in Message /\ Said(c) = Append(call[c].st.messages, m)
      BY <1>4, <2>3, <3>1, AppendedMessages DEF Said
    <3>3. m.role = "user" /\ m.by = call[c].turn
      OBVIOUS
    <3> HIDE DEF m
    <3> QED BY <1>3, <2>1, <3>2, <3>3 DEF Behind
  <2> QED BY <2>2, <2>3
<1>6. ASSUME NEW c \in Turns, RecordAssistantTurn(c), AssistantText(call[c].st) \in Turns
      PROVE  Answered(c) \in Limited'
  <2>1. /\ call[c].pc = "record" /\ call'[c].pc \in {"close", "done"}
        /\ call'[c].turn = call[c].turn
    BY <1>6, RecordDoes DEF Continues
  <2> DEFINE m == [role |-> "assistant", text |-> AssistantText(call[c].st), by |-> call[c].turn]
  <2>2. m \in Message /\ Answered(c) = Append(call[c].st.messages, m)
    BY <1>4, <1>6, AppendedMessages, SessionAssumption DEF Answered
  <2>3. m.role = "assistant" /\ m.by = call[c].turn
    OBVIOUS
  <2> HIDE DEF m
  <2> QED BY <1>3, <2>1, <2>2, <2>3 DEF Behind
<1>7. CASE Lists' \subseteq Lists \cup {<<>>}
  BY <1>1, <1>2, <1>7
<1>8. CASE \E c \in Turns : Prepare(c) /\ Lists' \subseteq Lists \cup {Said(c)}
  <2>1. PICK c \in Turns : Prepare(c) /\ Lists' \subseteq Lists \cup {Said(c)}
    BY <1>8
  <2>2. Said(c) \in Limited'
    BY <1>5, <2>1
  <2> QED BY <1>1, <2>1, <2>2
<1>9. CASE \E c \in Turns : /\ RecordAssistantTurn(c) /\ AssistantText(call[c].st) \in Turns
                            /\ Lists' \subseteq Lists \cup {Answered(c)}
  <2>1. PICK c \in Turns : /\ RecordAssistantTurn(c) /\ AssistantText(call[c].st) \in Turns
                           /\ Lists' \subseteq Lists \cup {Answered(c)}
    BY <1>9
  <2>2. Answered(c) \in Limited'
    BY <1>6, <2>1
  <2> QED BY <1>1, <2>1, <2>2
<1>10. \/ Lists' \subseteq Lists \cup {<<>>}
       \/ \E c \in Turns : Prepare(c) /\ Lists' \subseteq Lists \cup {Said(c)}
       \/ \E c \in Turns : /\ RecordAssistantTurn(c) /\ AssistantText(call[c].st) \in Turns
                           /\ Lists' \subseteq Lists \cup {Answered(c)}
  BY ListsStep
<1> QED BY <1>7, <1>8, <1>9, <1>10

\* In any system of finitely many turns a text or an answer appears in a transcript no
\* more often than runs worked on it, whatever runs beside them and however often the
\* same list is stored.
THEOREM AppearsPerRunCorrect ==
  ASSUME IsFiniteSet(Turns)
  PROVE  Spec => []AppearsPerRun
<1> DEFINE CountInv == Lists \subseteq Limited
<1>1. ASSUME NEW role \in {"user", "assistant"}, NEW t \in Turns
      PROVE  /\ At(<<>>, role, t) = {} /\ IsFiniteSet(Worked(role, t))
             /\ Cardinality(Worked(role, t)) \in Nat
  <2>1. Worked(role, t) \subseteq Turns
    BY DEF Worked
  <2> QED BY <2>1, FS_Subset, FS_CardinalityType DEF At
<1>2. <<>> \in Limited
  <2>1. ASSUME NEW role \in {"user", "assistant"}, NEW t \in Turns
        PROVE  Cardinality(At(<<>>, role, t)) <= Cardinality(Worked(role, t))
    <3>1. Cardinality(At(<<>>, role, t)) = 0
      BY <1>1, FS_EmptySet
    <3> QED BY <1>1, <3>1
  <2>2. <<>> \in Seq(Message)
    OBVIOUS
  <2> QED BY <2>1, <2>2 DEF Limited
<1>3. Init => CountInv
  BY <1>2 DEF Init, Lists, NoRun, EmptyBag
<1>4. Shape /\ CountInv => AppearsPerRun
  <2> SUFFICES ASSUME Shape, CountInv, NEW th \in Threads, NEW t \in Turns,
                      NEW role \in {"user", "assistant"}
               PROVE  Cardinality(At(Transcript(th), role, t)) <=
                        Cardinality({c \in Turns : call[c].turn = t /\ call[c].pc # "idle"})
    BY DEF AppearsPerRun, At
  <2> DEFINE some == {c \in Turns : call[c].turn = t /\ call[c].pc # "idle"}
  <2>1. Transcript(th) \in Limited
    BY <1>2 DEF Transcript, Loaded, EmptyBag, Lists
  <2>2. Cardinality(At(Transcript(th), role, t)) <= Cardinality(Worked(role, t))
    BY <2>1 DEF Limited
  <2>3. Worked(role, t) \subseteq some /\ some \subseteq Turns
    BY DEF Worked, Behind
  <2>4. IsFiniteSet(some) /\ Cardinality(Worked(role, t)) <= Cardinality(some)
        /\ Cardinality(some) \in Nat
    BY <2>3, FS_Subset, FS_CardinalityType
  <2>5. Cardinality(At(Transcript(th), role, t)) \in Nat
    BY <2>1, AtIsFinite DEF Limited
  <2> QED BY <1>1, <2>2, <2>4, <2>5
<1>5. Shape /\ CountInv /\ [Next]_vars => CountInv'
  BY CountStep
<1> QED BY <1>3, <1>4, <1>5, ShapeAlways, PTL DEF Spec
-----------------------------------------------------------------------------
(* Turns that wait. *)

Unresumed(t) == \A c \in Turns : ~(call[c].kind = "resume" /\ call[c].turn = t)

\* The turns no list holds an answer of.
Silent == {t \in Turns : \A ms \in Lists : At(ms, "assistant", t) = {}}

Under == {"idle", "prepare", "run", "record"}
SilentInv ==
  \A t \in Turns : Unresumed(t) =>
    /\ call[t].pc \in Under => pauses[t] = Unset /\ t \in Silent
    /\ pauses[t] # Unset => t \in Silent

LEMMA AtOfOther ==
  ASSUME NEW ms \in Seq(Message), NEW m \in Message, NEW role, NEW t,
         ~(m.role = role /\ m.by = t)
  PROVE  At(Append(ms, m), role, t) = At(ms, role, t)
<1> DEFINE n == Len(ms) + 1
<1>1. /\ Append(ms, m) \in Seq(Message) /\ Len(ms) \in Nat
      /\ DOMAIN Append(ms, m) = 1..n /\ DOMAIN ms = 1..Len(ms)
      /\ \A i \in 1..Len(ms) : Append(ms, m)[i] = ms[i]
      /\ Append(ms, m)[n] = m
  OBVIOUS
<1> QED BY <1>1 DEF At

\* Only the run that records an answer of t ends t's silence.
LEMMA SilenceStays ==
  ASSUME Shape, [Next]_vars, NEW t \in Silent,
         \A c \in Turns : RecordAssistantTurn(c) => call[c].turn # t
  PROVE  t \in Silent'
<1>1. \A ms \in Lists : At(ms, "assistant", t) = {}
  BY DEF Silent
<1>2. ASSUME NEW c \in Turns
      PROVE  /\ call[c].st.messages \in Lists /\ call[c].st.messages \in Seq(Message)
             /\ call[c].turn \in Turns /\ call[c].st \in Bag
  BY ListsAreSequences, RunIsTyped DEF Lists, Shape
<1>3. At(<<>>, "assistant", t) = {}
  BY DEF At
<1>4. ASSUME NEW c \in Turns PROVE At(Said(c), "assistant", t) = {}
  <2>1. CASE ExtractMessage(call[c].st) = Unset
    BY <1>1, <1>2, <2>1 DEF Said, AppendMessage
  <2>2. CASE ExtractMessage(call[c].st) # Unset
    <3> DEFINE m == [role |-> "user", text |-> ExtractMessage(call[c].st), by |-> call[c].turn]
    <3>1. ExtractMessage(call[c].st) \in Turns \cup {Unset}
      BY <1>2, PreparedBag
    <3>2. m \in Message /\ Said(c) = Append(call[c].st.messages, m)
      BY <1>2, <2>2, <3>1, AppendedMessages DEF Said
    <3>3. m.role # "assistant"
      OBVIOUS
    <3> HIDE DEF m
    <3> QED BY <1>1, <1>2, <3>2, <3>3, AtOfOther
  <2> QED BY <2>1, <2>2
<1>5. ASSUME NEW c \in Turns, RecordAssistantTurn(c), AssistantText(call[c].st) \in Turns
      PROVE  At(Answered(c), "assistant", t) = {}
  <2> DEFINE m == [role |-> "assistant", text |-> AssistantText(call[c].st), by |-> call[c].turn]
  <2>1. m \in Message /\ Answered(c) = Append(call[c].st.messages, m)
    BY <1>2, <1>5, AppendedMessages, SessionAssumption DEF Answered
  <2>2. m.by = call[c].turn /\ call[c].turn # t
    BY <1>5
  <2> HIDE DEF m
  <2> QED BY <1>1, <1>2, <2>1, <2>2, AtOfOther
<1>6. \A ms \in Lists' : At(ms, "assistant", t) = {}
  <2>1. CASE Lists' \subseteq Lists \cup {<<>>}
    BY <1>1, <1>3, <2>1
  <2>2. CASE \E c \in Turns : Lists' \subseteq Lists \cup {Said(c)}
    BY <1>1, <1>4, <2>2
  <2>3. CASE \E c \in Turns : /\ RecordAssistantTurn(c) /\ AssistantText(call[c].st) \in Turns
                              /\ Lists' \subseteq Lists \cup {Answered(c)}
    <3>1. PICK c \in Turns : /\ RecordAssistantTurn(c) /\ AssistantText(call[c].st) \in Turns
                             /\ Lists' \subseteq Lists \cup {Answered(c)}
      BY <2>3
    <3>2. At(Answered(c), "assistant", t) = {}
      BY <1>5, <3>1
    <3> QED BY <1>1, <3>1, <3>2
  <2>4. \/ Lists' \subseteq Lists \cup {<<>>}
        \/ \E c \in Turns : Prepare(c) /\ Lists' \subseteq Lists \cup {Said(c)}
        \/ \E c \in Turns : /\ RecordAssistantTurn(c) /\ AssistantText(call[c].st) \in Turns
                            /\ Lists' \subseteq Lists \cup {Answered(c)}
    BY ListsStep
  <2> QED BY <2>1, <2>2, <2>3, <2>4
<1> QED BY <1>6 DEF Silent, At

LEMMA PausesStep ==
  ASSUME Shape, [Next]_vars, NEW t \in Turns, pauses'[t] # pauses[t], pauses'[t] # Unset
  PROVE  \E c \in Turns : GatePause(c) /\ call[c].turn = t /\ call'[c].pc = "done"
<1>1. CASE \E c \in Turns, th \in Threads, key \in Keys, b \in InState : Begin(c, th, key, b)
  BY <1>1 DEF Begin
<1>2. CASE \E c \in Turns, s \in Turns, th \in Threads : Resume(c, s, th)
  BY <1>2 DEF Resume
<1>3. ASSUME NEW c \in Turns, GatePause(c)
      PROVE  call[c].turn = t /\ call'[c].pc = "done"
  <2>1. PICK b \in Bag : pauses' = [pauses EXCEPT ![call[c].turn] = b]
    BY <1>3, GatePauseDoes
  <2>2. call[c].turn = t
    BY <2>1 DEF Shape, TypeOK
  <2> QED BY <1>3, <2>2, GatePauseDoes
<1>4. ASSUME NEW c \in Turns, Close(c) \/ Fail(c) PROVE FALSE
  <2>1. CASE pauses' = pauses
    BY <2>1
  <2>2. CASE pauses' = [pauses EXCEPT ![call[c].turn] = Unset]
    BY <2>2 DEF Shape, TypeOK
  <2> QED BY <1>4, <2>1, <2>2, EndDoes
<1>5. ASSUME NEW c \in Turns,
             Prepare(c) \/ SkipNode(c) \/ WorkNode(c) \/ GateResume(c) \/ RecordAssistantTurn(c)
      PROVE  FALSE
  BY <1>5, PrepareDoes, NodeDoes, RecordDoes
<1>6. CASE UNCHANGED vars
  BY <1>6 DEF vars
<1> QED BY <1>1, <1>2, <1>3, <1>4, <1>5, <1>6 DEF Next, Step, AllReturned

LEMMA SilentStep == Shape /\ SilentInv /\ [Next]_vars => SilentInv'
<1> SUFFICES ASSUME Shape, SilentInv, [Next]_vars, NEW t \in Turns, Unresumed(t)'
             PROVE  /\ call'[t].pc \in Under => pauses'[t] = Unset /\ t \in Silent'
                    /\ pauses'[t] # Unset => t \in Silent'
  BY DEF SilentInv
<1>1. Unresumed(t)
  BY RunsProgress DEF Unresumed
<1>2. \A c \in Turns : call[c].turn = t /\ call[c].pc # "idle" => c = t
  BY <1>1, RunIsTyped DEF Unresumed, Shape, WorksOn
<1>3. /\ call[t].pc \in Under => pauses[t] = Unset /\ t \in Silent
      /\ pauses[t] # Unset => t \in Silent
  BY <1>1 DEF SilentInv
<1>4. call'[t].pc \in Under => call[t].pc \in Under
  <2>1. call[t].pc \in PCs
    BY RunIsTyped DEF Shape
  <2>2. call[t].pc \in {"close", "done", "failed"} => call'[t].pc \in {"close", "done", "failed"}
    BY RunsProgress
  <2> QED BY <2>1, <2>2 DEF PCs, Running, Under
<1>5. \A c \in Turns : RecordAssistantTurn(c) =>
        /\ call[c].pc = "record" /\ call'[c].pc \in {"close", "done"}
  BY RecordDoes
<1>6. \A c \in Turns : GatePause(c) => call[c].pc = "run"
  BY GatePauseDoes
<1>7. CASE call'[t].pc \in Under
  <2>1. t \in Silent /\ pauses[t] = Unset
    BY <1>3, <1>4, <1>7
  <2>2. \A c \in Turns : RecordAssistantTurn(c) => call[c].turn # t
    BY <1>2, <1>5, <1>7 DEF Under
  <2>3. t \in Silent'
    BY <2>1, <2>2, SilenceStays
  <2>4. pauses'[t] = Unset
    <3>1. ASSUME NEW c \in Turns, GatePause(c), call[c].turn = t, call'[c].pc = "done"
          PROVE  FALSE
      BY <1>2, <1>6, <1>7, <3>1 DEF Under
    <3> QED BY <2>1, <3>1, PausesStep
  <2> QED BY <2>3, <2>4
<1>8. ASSUME pauses'[t] # Unset PROVE t \in Silent'
  <2>1. t \in Silent /\ \A c \in Turns : RecordAssistantTurn(c) => call[c].turn # t
    <3>1. CASE pauses[t] # Unset
      <4>1. call[t].pc \notin Under
        BY <1>3, <3>1
      <4> QED BY <1>2, <1>3, <1>5, <3>1, <4>1 DEF Under
    <3>2. CASE pauses[t] = Unset
      <4>1. PICK c \in Turns : GatePause(c) /\ call[c].turn = t
        BY <1>8, <3>2, PausesStep
      <4>2. c = t /\ call[t].pc = "run"
        BY <1>2, <1>6, <4>1
      <4> QED BY <1>2, <1>3, <1>5, <4>2 DEF Under
    <3> QED BY <3>1, <3>2
  <2> QED BY <2>1, SilenceStays
<1> QED BY <1>7, <1>8

\* A turn that waits for a reviewer, and that nobody resumed, has said nothing in any
\* transcript.
THEOREM PausedTurnsAreSilentCorrect == Spec => []PausedTurnsAreSilent
<1>1. Init => SilentInv
  <2> SUFFICES ASSUME Init PROVE SilentInv
    OBVIOUS
  <2>1. Lists \subseteq {<<>>}
    BY DEF Init, Lists, NoRun, EmptyBag
  <2>2. \A t \in Turns : pauses[t] = Unset /\ t \in Silent
    BY <2>1 DEF Init, Silent, At
  <2> QED BY <2>2 DEF SilentInv
<1>2. Shape /\ SilentInv => PausedTurnsAreSilent
  <2> SUFFICES ASSUME Shape, SilentInv, NEW t \in Turns, pauses[t] # Unset, Unresumed(t),
                      NEW th \in Threads
               PROVE  At(Transcript(th), "assistant", t) = {}
    BY DEF PausedTurnsAreSilent, Unresumed, At
  <2>1. t \in Silent
    BY DEF SilentInv
  <2>2. At(<<>>, "assistant", t) = {}
    BY DEF At
  <2> QED BY <2>1, <2>2 DEF Silent, Transcript, Loaded, EmptyBag, Lists
<1> QED BY <1>1, <1>2, ShapeAlways, SilentStep, PTL DEF Spec
-----------------------------------------------------------------------------
(* Texts and answers alternate. *)

Conversations ==
  {ms \in Seq(Message) : \A i \in DOMAIN ms : ms[i].role = "assistant" =>
     i > 1 /\ ms[i-1].role = "user" /\ ms[i-1].by = ms[i].by}

Ends(ms, t) == Len(ms) > 0 /\ ms[Len(ms)].role = "user" /\ ms[Len(ms)].by = t

\* A run that is past session_prepare has a list that ends with the text it works on.
Asked(c) ==
  /\ call[c].pc = "prepare" => ExtractMessage(call[c].st) # Unset
  /\ call[c].pc \in {"run", "record"} =>
       call[c].st.user # Unset /\ Ends(call[c].st.messages, call[c].turn)

AskedInv ==
  /\ \A c \in Turns : Asked(c)
  /\ \A t \in Turns : pauses[t] # Unset => pauses[t].user # Unset

LEMMA AppendedText ==
  ASSUME NEW ms \in Seq(Message), NEW m \in Message
  PROVE  /\ m.role = "user" => Ends(Append(ms, m), m.by)
         /\ ms \in Conversations /\ m.role = "user" => Append(ms, m) \in Conversations
         /\ ms \in Conversations /\ m.role = "assistant" /\ Ends(ms, m.by) =>
              Append(ms, m) \in Conversations
<1> DEFINE n == Len(ms) + 1
           new == Append(ms, m)
<1>1. /\ new \in Seq(Message) /\ Len(ms) \in Nat /\ Len(new) = n
      /\ DOMAIN new = 1..n /\ DOMAIN ms = 1..Len(ms)
      /\ \A i \in 1..Len(ms) : new[i] = ms[i]
      /\ new[n] = m
  OBVIOUS
<1> HIDE DEF new
<1>2. m.role = "user" => Ends(new, m.by)
  BY <1>1 DEF Ends
<1>3. ASSUME ms \in Conversations,
             m.role = "user" \/ (m.role = "assistant" /\ Ends(ms, m.by)),
             NEW i \in DOMAIN new, new[i].role = "assistant"
      PROVE  i > 1 /\ new[i-1].role = "user" /\ new[i-1].by = new[i].by
  <2>1. CASE i \in 1..Len(ms)
    <3>1. ms[i].role = "assistant"
      BY <1>1, <1>3, <2>1
    <3>2. i > 1 /\ ms[i-1].role = "user" /\ ms[i-1].by = ms[i].by
      BY <1>1, <1>3, <2>1, <3>1 DEF Conversations
    <3>3. i - 1 \in 1..Len(ms)
      BY <1>1, <2>1, <3>2
    <3> QED BY <1>1, <2>1, <3>2, <3>3
  <2>2. CASE i = n
    <3>1. Ends(ms, m.by)
      BY <1>1, <1>3, <2>2
    <3> QED BY <1>1, <2>2, <3>1 DEF Ends
  <2> QED BY <1>1, <1>3, <2>1, <2>2
<1> QED BY <1>1, <1>2, <1>3 DEF Conversations, new

LEMMA AskedKept ==
  ASSUME Shape, AskedInv, NEW c \in Turns, Changes(c), Asked(c)',
         \/ UNCHANGED pauses
         \/ \E t \in Turns : pauses' = [pauses EXCEPT ![t] = Unset]
         \/ \E t \in Turns : \E b \in Bag :
              pauses' = [pauses EXCEPT ![t] = b] /\ b.user # Unset
  PROVE  AskedInv'
<1>1. ASSUME NEW e \in Turns PROVE Asked(e)'
  <2>1. CASE e = c
    BY <2>1
  <2>2. CASE e # c
    <3>1. call'[e] = call[e]
      BY <2>2 DEF Changes
    <3> QED BY <3>1 DEF AskedInv, Asked, Ends, ExtractMessage
  <2> QED BY <2>1, <2>2
<1>2. ASSUME NEW t \in Turns, pauses'[t] # Unset PROVE pauses'[t].user # Unset
  <2>1. CASE pauses'[t] = pauses[t]
    BY <1>2, <2>1 DEF AskedInv
  <2>2. CASE pauses'[t] # pauses[t]
    BY <1>2, <2>2 DEF Shape, TypeOK
  <2> QED BY <2>1, <2>2
<1> QED BY <1>1, <1>2 DEF AskedInv

LEMMA AskedStep ==
  ASSUME "none" \notin Keys
  PROVE  Shape /\ AskedInv /\ [Next]_vars => AskedInv'
<1> SUFFICES ASSUME Shape, AskedInv, [Next]_vars PROVE AskedInv'
  OBVIOUS
<1>1. ASSUME NEW c \in Turns, NEW th \in Threads, NEW key \in Keys, NEW b \in InState,
             Begin(c, th, key, b)
      PROVE  AskedInv'
  <2>1. /\ Changes(c) /\ UNCHANGED pauses /\ call'[c].pc = "prepare"
        /\ ExtractMessage(call'[c].st) # Unset
    BY <1>1, BeginDoes
  <2>2. Asked(c)'
    BY <2>1 DEF Asked, ExtractMessage
  <2> QED BY <2>1, <2>2, AskedKept
<1>2. ASSUME NEW c \in Turns, NEW t \in Turns, NEW th \in Threads, Resume(c, t, th)
      PROVE  AskedInv'
  <2>1. /\ Changes(c) /\ UNCHANGED pauses /\ call'[c].pc = "prepare" /\ pauses[t] # Unset
        /\ call'[c].st.user = Or(pauses[t].user, Loaded(th).user)
    BY <1>2, ResumeDoes
  <2>2. call'[c].st.user # Unset
    BY <2>1 DEF AskedInv, Or
  <2>3. Asked(c)'
    BY <2>1, <2>2 DEF Asked, ExtractMessage
  <2> QED BY <2>1, <2>3, AskedKept
<1>3. ASSUME NEW c \in Turns, Prepare(c) PROVE AskedInv'
  <2>1. /\ Continues(c) /\ Changes(c) /\ UNCHANGED pauses /\ call[c].pc = "prepare"
        /\ call'[c].pc \in {"run", "record"} /\ call'[c].turn = call[c].turn
        /\ call'[c].st = Prepared(call[c].st, call[c].turn)
    BY <1>3, PrepareDoes DEF Continues
  <2>2. call[c].st \in Bag /\ call[c].turn \in Turns /\ call[c].st.messages \in Seq(Message)
    BY RunIsTyped, ListsAreSequences DEF Shape, Lists
  <2>3. ExtractMessage(call[c].st) \in Turns
    <3>1. ExtractMessage(call[c].st) \in Turns \cup {Unset}
      BY <2>2, PreparedBag
    <3>2. ExtractMessage(call[c].st) # Unset
      BY <2>1 DEF AskedInv, Asked
    <3> QED BY <3>1, <3>2
  <2>4. /\ call'[c].st.user # Unset
        /\ call'[c].st.messages = Said(c)
    <3> DEFINE st == call[c].st
               p == Prepared(st, call[c].turn)
    <3>1. p.user = (IF ExtractMessage(st) = Unset THEN st.user ELSE ExtractMessage(st))
      BY <2>2, PreparedBag
    <3>2. p.messages = Said(c)
      BY <2>2, PreparedBag DEF Said
    <3>3. ExtractMessage(st) # Unset
      BY <2>3, SessionAssumption
    <3> HIDE DEF p
    <3>4. p.user # Unset
      BY <3>1, <3>3
    <3> QED BY <2>1, <3>2, <3>4 DEF p
  <2>5. Ends(Said(c), call[c].turn)
    <3> DEFINE m == [role |-> "user", text |-> ExtractMessage(call[c].st), by |-> call[c].turn]
    <3>1. m \in Message /\ Said(c) = Append(call[c].st.messages, m)
      BY <2>2, <2>3, AppendedMessages, SessionAssumption DEF Said
    <3>2. m.role = "user" /\ m.by = call[c].turn
      OBVIOUS
    <3> HIDE DEF m
    <3> QED BY <2>2, <3>1, <3>2, AppendedText
  <2>6. Asked(c)'
    BY <2>1, <2>4, <2>5 DEF Asked, Ends
  <2> QED BY <2>1, <2>6, AskedKept
<1>4. ASSUME NEW c \in Turns, SkipNode(c) \/ WorkNode(c) \/ GateResume(c) PROVE AskedInv'
  <2>1. /\ Changes(c) /\ UNCHANGED pauses /\ call[c].pc = "run"
        /\ call'[c].pc \in {"run", "record"} /\ call'[c].turn = call[c].turn
        /\ call'[c].st.user = call[c].st.user /\ call'[c].st.messages = call[c].st.messages
    BY <1>4, NodeDoes DEF Continues, SameRest
  <2>2. Asked(c)'
    BY <2>1 DEF AskedInv, Asked, Ends
  <2> QED BY <2>1, <2>2, AskedKept
<1>5. ASSUME NEW c \in Turns, GatePause(c) PROVE AskedInv'
  <2>1. /\ Changes(c) /\ call[c].pc = "run" /\ call'[c].pc = "done" /\ call[c].turn \in Turns
    BY <1>5, GatePauseDoes, RunIsTyped DEF Continues, Shape
  <2>2. PICK b \in Bag : /\ pauses' = [pauses EXCEPT ![call[c].turn] = b]
                         /\ SameRest(b, call[c].st)
    BY <1>5, GatePauseDoes
  <2>3. b.user # Unset
    BY <2>1, <2>2 DEF AskedInv, Asked, SameRest
  <2>4. Asked(c)'
    BY <2>1 DEF Asked
  <2> QED BY <2>1, <2>2, <2>3, <2>4, AskedKept
<1>6. ASSUME NEW c \in Turns, RecordAssistantTurn(c) PROVE AskedInv'
  <2>1. Changes(c) /\ UNCHANGED pauses /\ call'[c].pc \in {"close", "done"}
    BY <1>6, RecordDoes DEF Continues
  <2>2. Asked(c)'
    BY <2>1 DEF Asked
  <2> QED BY <2>1, <2>2, AskedKept
<1>7. ASSUME NEW c \in Turns, Close(c) \/ Fail(c) PROVE AskedInv'
  <2>1. Changes(c) /\ call'[c].pc \in {"done", "failed"}
    BY <1>7, EndDoes DEF Continues
  <2>2. UNCHANGED pauses \/ \E t \in Turns : pauses' = [pauses EXCEPT ![t] = Unset]
    BY <1>7, EndDoes, RunIsTyped DEF Shape
  <2>3. Asked(c)'
    BY <2>1 DEF Asked
  <2> QED BY <2>1, <2>2, <2>3, AskedKept
<1>8. CASE UNCHANGED vars
  BY <1>8 DEF vars, AskedInv, Asked, Ends, ExtractMessage
<1> QED BY <1>1, <1>2, <1>3, <1>4, <1>5, <1>6, <1>7, <1>8 DEF Next, Step, AllReturned

LEMMA ConversationsStep ==
  Shape /\ AskedInv /\ Lists \subseteq Conversations /\ [Next]_vars =>
    Lists' \subseteq Conversations
<1> SUFFICES ASSUME Shape, AskedInv, Lists \subseteq Conversations, [Next]_vars
             PROVE  Lists' \subseteq Conversations
  OBVIOUS
<1>1. ASSUME NEW c \in Turns
      PROVE  /\ call[c].st.messages \in Conversations /\ call[c].st.messages \in Seq(Message)
             /\ call[c].turn \in Turns /\ call[c].st \in Bag
  BY ListsAreSequences, RunIsTyped DEF Lists, Shape
<1>2. <<>> \in Conversations
  BY DEF Conversations
<1>3. ASSUME NEW c \in Turns, Prepare(c) PROVE Said(c) \in Conversations
  <2>1. CASE ExtractMessage(call[c].st) = Unset
    BY <1>1, <2>1 DEF Said, AppendMessage
  <2>2. CASE ExtractMessage(call[c].st) # Unset
    <3> DEFINE m == [role |-> "user", text |-> ExtractMessage(call[c].st), by |-> call[c].turn]
    <3>1. ExtractMessage(call[c].st) \in Turns \cup {Unset}
      BY <1>1, PreparedBag
    <3>2. m \in Message /\ Said(c) = Append(call[c].st.messages, m)
      BY <1>1, <2>2, <3>1, AppendedMessages DEF Said
    <3>3. m.role = "user"
      OBVIOUS
    <3> HIDE DEF m
    <3> QED BY <1>1, <3>2, <3>3, AppendedText
  <2> QED BY <2>1, <2>2
<1>4. ASSUME NEW c \in Turns, RecordAssistantTurn(c), AssistantText(call[c].st) \in Turns
      PROVE  Answered(c) \in Conversations
  <2> DEFINE m == [role |-> "assistant", text |-> AssistantText(call[c].st), by |-> call[c].turn]
  <2>1. m \in Message /\ Answered(c) = Append(call[c].st.messages, m)
    BY <1>1, <1>4, AppendedMessages, SessionAssumption DEF Answered
  <2>2. m.role = "assistant" /\ m.by = call[c].turn
    OBVIOUS
  <2>3. Ends(call[c].st.messages, call[c].turn)
    BY <1>4, RecordDoes DEF AskedInv, Asked
  <2> HIDE DEF m
  <2> QED BY <1>1, <2>1, <2>2, <2>3, AppendedText
<1>5. CASE Lists' \subseteq Lists \cup {<<>>}
  BY <1>2, <1>5
<1>6. CASE \E c \in Turns : Prepare(c) /\ Lists' \subseteq Lists \cup {Said(c)}
  BY <1>3, <1>6
<1>7. CASE \E c \in Turns : /\ RecordAssistantTurn(c) /\ AssistantText(call[c].st) \in Turns
                            /\ Lists' \subseteq Lists \cup {Answered(c)}
  BY <1>4, <1>7
<1>8. \/ Lists' \subseteq Lists \cup {<<>>}
      \/ \E c \in Turns : Prepare(c) /\ Lists' \subseteq Lists \cup {Said(c)}
      \/ \E c \in Turns : /\ RecordAssistantTurn(c) /\ AssistantText(call[c].st) \in Turns
                          /\ Lists' \subseteq Lists \cup {Answered(c)}
  BY ListsStep
<1> QED BY <1>5, <1>6, <1>7, <1>8

\* When every turn is sent with a text, an answer directly follows the text of the turn
\* that gives it, however many runs share a thread.
THEOREM AnswersFollowCorrect ==
  ASSUME "none" \notin Keys
  PROVE  Spec => []AnswersFollow
<1> DEFINE Inv == AskedInv /\ Lists \subseteq Conversations
<1>1. <<>> \in Conversations
  BY DEF Conversations
<1>2. Init => Inv
  BY <1>1 DEF Init, Lists, NoRun, EmptyBag, AskedInv, Asked
<1>3. Shape /\ Inv /\ [Next]_vars => Inv'
  BY AskedStep, ConversationsStep DEF Conversations
<1>4. Shape /\ Inv => AnswersFollow
  <2> SUFFICES ASSUME Shape, Inv, NEW th \in Threads
               PROVE  Transcript(th) \in Conversations
    BY DEF AnswersFollow, Conversations
  <2> QED BY <1>1 DEF Transcript, Loaded, EmptyBag, Lists
<1> QED BY <1>2, <1>3, <1>4, ShapeAlways, PTL DEF Spec

-----------------------------------------------------------------------------
(* A conversation is only ever continued.

   Where the host admits one run per thread and no gate pauses one, a run alone on its
   thread holds the transcript the thread has: what it saves is that transcript, with
   its text or its answer behind it. *)

LEMMA ExtendsItself ==
  ASSUME NEW ms \in Seq(Message)
  PROVE  Extends(ms, ms)
<1>1. SubSeq(ms, 1, Len(ms)) = ms /\ Len(ms) \in Nat
  OBVIOUS
<1> QED BY <1>1 DEF Extends

LEMMA ExtendsByOne ==
  ASSUME NEW ms \in Seq(Message), NEW role \in {"user", "assistant"},
         NEW text \in Turns \cup {Unset}, NEW t \in Turns
  PROVE  Extends(AppendMessage(ms, role, text, t), ms)
<1>1. CASE text = Unset
  BY <1>1, ExtendsItself DEF AppendMessage
<1>2. CASE text # Unset
  <2> DEFINE m == [role |-> role, text |-> text, by |-> t]
             new == Append(ms, m)
  <2>1. m \in Message /\ AppendMessage(ms, role, text, t) = new
    BY <1>2, AppendedMessages
  <2> HIDE DEF m
  <2>2. SubSeq(new, 1, Len(ms)) = ms /\ Len(ms) <= Len(new)
    BY <2>1
  <2> QED BY <2>1, <2>2 DEF Extends
<1> QED BY <1>1, <1>2

Saving == {"prepare", "run", "record"}

\* A run that still saves holds the transcript of its thread.
Holds(c) ==
  call[c].pc \in Saving => ckpt[call[c].thread].messages = call[c].st.messages

AloneInv ==
  /\ \A t \in Turns : pauses[t] = Unset
  /\ \A c \in Turns : Holds(c)
  /\ \A c, d \in Turns :
       (c # d /\ InFlight(c) /\ InFlight(d)) => call[c].thread # call[d].thread

Grows == \A th \in Threads : Extends(Loaded(th)'.messages, Loaded(th).messages)

\* A run that saves b on its own thread.
LEMMA GrowsAlone ==
  ASSUME Shape, AloneInv, UNCHANGED pauses, NEW c \in Turns, Changes(c),
         NEW th \in Threads, call'[c].thread = th,
         \A d \in Turns \ {c} : InFlight(d) => call[d].thread # th,
         NEW b \in Bag, ckpt' = [ckpt EXCEPT ![th] = b],
         Extends(b.messages, Loaded(th).messages),
         call'[c].pc \in Saving => call'[c].st.messages = b.messages
  PROVE  AloneInv' /\ Grows
<1>1. \A x \in Threads : ckpt'[x] = IF x = th THEN b ELSE ckpt[x]
  BY DEF Shape, TypeOK
<1>2. \A d \in Turns \ {c} : call'[d] = call[d]
  BY DEF Changes
<1>3. ASSUME NEW d \in Turns PROVE Holds(d)'
  <2>1. CASE d = c
    BY <1>1, <2>1 DEF Holds
  <2>2. CASE d # c
    <3>1. call'[d] = call[d] /\ (call[d].pc \in Saving => call[d].thread # th)
      BY <1>2, <2>2 DEF InFlight, Saving, Running
    <3>2. call[d].pc \in Saving => call[d].thread \in Threads
      BY DEF Shape, Placed, Saving
    <3> QED BY <1>1, <3>1, <3>2 DEF AloneInv, Holds
  <2> QED BY <2>1, <2>2
<1>4. \A d, e \in Turns :
        (d # e /\ InFlight(d)' /\ InFlight(e)') => call'[d].thread # call'[e].thread
  BY <1>2 DEF AloneInv, InFlight
<1>5. ASSUME NEW x \in Threads PROVE Extends(Loaded(x)'.messages, Loaded(x).messages)
  <2>1. CASE x = th
    <3>1. Loaded(x)' = b
      BY <1>1, <2>1, BagAssumption DEF Loaded
    <3> QED BY <2>1, <3>1
  <2>2. CASE x # th
    <3>1. Loaded(x)' = Loaded(x) /\ Loaded(x) \in Bag
      BY <1>1, <2>2, LoadedIsBag DEF Loaded, EmptyBag, Shape
    <3>2. Loaded(x).messages \in Seq(Message)
      BY <3>1 DEF Bag
    <3> QED BY <3>1, <3>2, ExtendsItself
  <2> QED BY <2>1, <2>2
<1> QED BY <1>3, <1>4, <1>5 DEF AloneInv, Grows

LEMMA GrowsStep ==
  ASSUME OnePerThread, Gates = {}
  PROVE  Shape /\ AloneInv /\ [Next]_vars => AloneInv' /\ Grows
<1> SUFFICES ASSUME Shape, AloneInv, [Next]_vars PROVE AloneInv' /\ Grows
  OBVIOUS
<1>1. \A th \in Threads : Loaded(th) \in Bag /\ Loaded(th).messages \in Seq(Message)
  BY LoadedIsBag DEF Shape, Bag
<1>2. ASSUME NEW c \in Turns, NEW th \in Threads, NEW key \in Keys, NEW i \in InState,
             Begin(c, th, key, i)
      PROVE  AloneInv' /\ Grows
  <2>1. /\ Changes(c) /\ UNCHANGED pauses /\ Free(th) /\ call'[c].thread = th
        /\ ckpt' = [ckpt EXCEPT ![th] = call'[c].st] /\ call'[c].st \in Bag
        /\ call'[c].st.messages = Loaded(th).messages
    BY <1>2, BeginDoes DEF Stores
  <2>2. \A d \in Turns \ {c} : InFlight(d) => call[d].thread # th
    BY <2>1 DEF Free
  <2>3. Extends(call'[c].st.messages, Loaded(th).messages)
    BY <1>1, <2>1, ExtendsItself
  <2> QED BY <2>1, <2>2, <2>3, GrowsAlone
<1>3. ASSUME NEW c \in Turns, NEW t \in Turns, NEW th \in Threads, Resume(c, t, th)
      PROVE  FALSE
  BY <1>3 DEF Resume, AloneInv
\* A run that goes on is alone on its thread, and saves or leaves what the thread has.
<1>4. ASSUME NEW c \in Turns, Continues(c), InFlight(c), UNCHANGED pauses,
             \/ UNCHANGED ckpt /\ call'[c].st.messages = call[c].st.messages
                  /\ (call'[c].pc \in Saving => call[c].pc \in Saving)
             \/ /\ call[c].pc \in Saving
                /\ \E b \in Bag :
                     /\ ckpt' = [ckpt EXCEPT ![call[c].thread] = b]
                     /\ Extends(b.messages, call[c].st.messages)
                     /\ call'[c].pc \in Saving => call'[c].st.messages = b.messages
      PROVE  AloneInv' /\ Grows
  <2>0. PICK th \in Threads : th = call[c].thread
    BY <1>4 DEF Continues, Shape, Placed, TypeOK
  <2>1. /\ ckpt[th] # Unset /\ ckpt[th] \in Bag /\ Loaded(th) = ckpt[th]
        /\ call'[c].thread = th /\ Changes(c)
    BY <1>4, <2>0 DEF Continues, Shape, Placed, TypeOK, Loaded
  <2>2. \A d \in Turns \ {c} : InFlight(d) => call[d].thread # th
    BY <1>4, <2>0 DEF AloneInv
  <2>3. call[c].pc \in Saving => Loaded(th).messages = call[c].st.messages
    BY <2>0, <2>1 DEF AloneInv, Holds
  <2>4. \E b \in Bag : /\ ckpt' = [ckpt EXCEPT ![th] = b]
                       /\ Extends(b.messages, Loaded(th).messages)
                       /\ call'[c].pc \in Saving => call'[c].st.messages = b.messages
    <3>1. CASE UNCHANGED ckpt /\ call'[c].st.messages = call[c].st.messages
                 /\ (call'[c].pc \in Saving => call[c].pc \in Saving)
      <4>1. ckpt' = [ckpt EXCEPT ![th] = ckpt[th]]
        BY <2>0, <3>1 DEF Shape, TypeOK
      <4>2. Extends(ckpt[th].messages, Loaded(th).messages)
        BY <1>1, <2>1, ExtendsItself
      <4> QED BY <2>0, <2>1, <2>3, <3>1, <4>1, <4>2
    <3>2. CASE /\ call[c].pc \in Saving
               /\ \E b \in Bag :
                    /\ ckpt' = [ckpt EXCEPT ![call[c].thread] = b]
                    /\ Extends(b.messages, call[c].st.messages)
                    /\ call'[c].pc \in Saving => call'[c].st.messages = b.messages
      BY <2>0, <2>3, <3>2
    <3> QED BY <1>4, <3>1, <3>2
  <2>5. PICK b \in Bag :
          /\ ckpt' = [ckpt EXCEPT ![th] = b]
          /\ Extends(b.messages, Loaded(th).messages)
          /\ call'[c].pc \in Saving => call'[c].st.messages = b.messages
    BY <2>4
  <2> QED BY <1>4, <2>1, <2>2, <2>5, GrowsAlone
<1>5. ASSUME NEW c \in Turns, call[c].pc # "idle", Continues(c)
      PROVE  /\ call[c].st \in Bag /\ call[c].st.messages \in Seq(Message)
             /\ call[c].turn \in Turns /\ call'[c].st \in Bag
             /\ call'[c].thread = call[c].thread
  BY <1>5, RunIsTyped DEF Shape, Continues, Changes, Bag, Run
<1>6. ASSUME NEW c \in Turns, Prepare(c) PROVE AloneInv' /\ Grows
  <2>1. /\ Continues(c) /\ UNCHANGED pauses /\ call[c].pc = "prepare"
        /\ ckpt' = [ckpt EXCEPT ![call[c].thread] = call'[c].st]
        /\ call'[c].st = Prepared(call[c].st, call[c].turn)
    BY <1>6, PrepareDoes DEF Stores, Continues
  <2>2. /\ call[c].st \in Bag /\ call[c].turn \in Turns /\ call'[c].st \in Bag
        /\ call[c].st.messages \in Seq(Message)
    BY <1>5, <2>1
  <2>3. /\ call'[c].st.messages =
             AppendMessage(call[c].st.messages, "user", ExtractMessage(call[c].st), call[c].turn)
        /\ ExtractMessage(call[c].st) \in Turns \cup {Unset}
    BY <2>1, <2>2, PreparedBag
  <2>4. Extends(call'[c].st.messages, call[c].st.messages)
    BY <2>2, <2>3, ExtendsByOne
  <2>5. InFlight(c) /\ call[c].pc \in Saving
    BY <2>1 DEF InFlight, Running, Saving
  <2> QED BY <1>4, <2>1, <2>2, <2>4, <2>5
<1>7. ASSUME NEW c \in Turns, SkipNode(c) \/ WorkNode(c) \/ GateResume(c)
      PROVE  AloneInv' /\ Grows
  <2>1. /\ Continues(c) /\ UNCHANGED pauses /\ call[c].pc = "run"
        /\ ckpt' = [ckpt EXCEPT ![call[c].thread] = call'[c].st]
        /\ call'[c].st \in Bag /\ call'[c].st.messages = call[c].st.messages
    BY <1>7, NodeDoes DEF Stores, Continues, SameRest
  <2>2. Extends(call'[c].st.messages, call[c].st.messages)
    BY <1>5, <2>1, ExtendsItself
  <2>3. InFlight(c) /\ call[c].pc \in Saving
    BY <2>1 DEF InFlight, Running, Saving
  <2> QED BY <1>4, <2>1, <2>2, <2>3
<1>8. ASSUME NEW c \in Turns, GatePause(c) PROVE FALSE
  BY <1>8 DEF GatePause
<1>9. ASSUME NEW c \in Turns, RecordAssistantTurn(c) PROVE AloneInv' /\ Grows
  <2>1. /\ Continues(c) /\ UNCHANGED pauses /\ call[c].pc = "record"
        /\ call'[c].pc \in {"close", "done"} /\ call'[c].st = call[c].st
        /\ \/ UNCHANGED ckpt
           \/ \E u \in Bag :
                /\ AssistantText(call[c].st) \in Turns
                /\ ckpt' = [ckpt EXCEPT ![call[c].thread] = u]
                /\ u.messages = AppendMessage(call[c].st.messages, "assistant",
                                              AssistantText(call[c].st), call[c].turn)
    BY <1>9, RecordDoes
  <2>2. /\ call[c].st.messages \in Seq(Message) /\ call[c].turn \in Turns
        /\ call'[c].pc \notin Saving /\ InFlight(c) /\ call[c].pc \in Saving
    BY <1>5, <2>1 DEF Saving, InFlight, Running
  <2>3. CASE UNCHANGED ckpt
    BY <1>4, <2>1, <2>2, <2>3
  <2>4. ASSUME NEW u \in Bag, AssistantText(call[c].st) \in Turns,
               ckpt' = [ckpt EXCEPT ![call[c].thread] = u],
               u.messages = AppendMessage(call[c].st.messages, "assistant",
                                          AssistantText(call[c].st), call[c].turn)
        PROVE  AloneInv' /\ Grows
    <3>1. Extends(u.messages, call[c].st.messages)
      BY <2>2, <2>4, ExtendsByOne
    <3> QED BY <1>4, <2>1, <2>2, <2>4, <3>1
  <2> QED BY <2>1, <2>3, <2>4
<1>10. ASSUME NEW c \in Turns, Close(c) \/ Fail(c) PROVE AloneInv' /\ Grows
  <2>1. /\ Continues(c) /\ UNCHANGED ckpt /\ InFlight(c) /\ call'[c].st = call[c].st
        /\ call'[c].pc \in {"done", "failed"} /\ call[c].turn \in Turns
    BY <1>10, EndDoes, RunIsTyped DEF Shape
  <2>2. UNCHANGED pauses
    BY <1>10, <2>1, EndDoes DEF AloneInv, Shape, TypeOK
  <2> QED BY <1>4, <2>1, <2>2 DEF Saving
<1>11. CASE UNCHANGED vars
  <2>1. AloneInv'
    BY <1>11 DEF vars, AloneInv, Holds, InFlight
  <2>2. \A th \in Threads : Loaded(th)' = Loaded(th)
    BY <1>11 DEF vars, Loaded, EmptyBag
  <2> QED BY <1>1, <2>1, <2>2, ExtendsItself DEF Grows
<1> QED BY <1>2, <1>3, <1>6, <1>7, <1>8, <1>9, <1>10, <1>11 DEF Next, Step, AllReturned

\* When the host admits one run per thread and no path holds a gate, a conversation is
\* only ever continued: no save takes back or changes what its transcript held.  Code:
\* session_prepare and _record_assistant_turn append to the list the run has loaded.
THEOREM TranscriptGrowsCorrect ==
  ASSUME OnePerThread, Gates = {}
  PROVE  Spec => TranscriptGrows
<1>1. Init => AloneInv
  BY DEF Init, AloneInv, Holds, NoRun, InFlight, Running, Saving
<1>2. Shape /\ AloneInv /\ [Next]_vars => AloneInv' /\ Grows
  BY GrowsStep
<1>3. Grows => [\A th \in Threads : Extends(Loaded(th)'.messages, Loaded(th).messages)]_vars
  BY DEF Grows
<1> QED BY <1>1, <1>2, <1>3, ShapeAlways, PTL DEF Spec, TranscriptGrows
=============================================================================
