---------------------------- MODULE SessionTurns ----------------------------
(***************************************************************************)
(* Multi-turn agents: MetadataAgent over a graph that build_session_graph    *)
(* compiled with a checkpointer, session_prepare in front, and one path per *)
(* mode (initialize, converse, regenerate).                                 *)
(*                                                                         *)
(* The state of a conversation is the checkpoint of its thread.  A turn      *)
(* loads it, merges the caller's input over it, runs session_prepare and    *)
(* the nodes of its mode's path, saving after each step, and at last writes  *)
(* the assistant's message back with update_state.  Several turns may run    *)
(* on one thread: each works on its own copy and saves the whole of it.      *)
(*                                                                         *)
(* A path may hold hitl gates.  What a pause stores and how a resume is      *)
(* checked is HitlFlow's subject; here it matters that the snapshot is a     *)
(* copy of the conversation and that the resume is one more run on a thread. *)
(*                                                                         *)
(* The checkpointer is LangGraph's: load the latest state, merge the input   *)
(* with _merge_dicts, save after every step.  Paths are straight lines.  A   *)
(* text stands for the turn it comes from.                                   *)
(***************************************************************************)
EXTENDS Naturals, Sequences, FiniteSets

CONSTANTS
  Unset,
  Threads,       \* thread ids
  Turns,         \* invocations; a turn that sends a text is known by it
  Nodes,
  Gates,         \* the hitl.gate nodes; id and gate_id agree
  Writes,        \* node -> output key it writes, or Unset
  Path,          \* mode -> sequence of nodes
  Regenerating,  \* turns whose text holds a regenerate phrase
  Keys,          \* how texts are sent: "user_message", "message" or "none"
  InState,       \* whether the thread id is also in the state (BOOLEANs)
  OnePerThread,  \* TRUE when the host admits one run per thread at a time
  Failing        \* turns whose nodes, checkpointer or process may fail

Modes == {"initialize", "converse", "regenerate"}

\* Keys assistant_text_from_final looks at, the first that is set wins.
OutKeys == <<"result", "explanation", "recommendation", "output">>
Outputs == {OutKeys[i] : i \in DOMAIN OutKeys}

ASSUME SessionAssumption ==
  /\ Unset \notin Threads \cup Turns \cup Nodes \cup Modes
  /\ Gates \subseteq Nodes
  /\ Writes \in [Nodes -> Outputs \cup {Unset}]
  /\ Path \in [Modes -> Seq(Nodes)]
  /\ Regenerating \subseteq Turns
  /\ Keys \subseteq {"user_message", "message", "none"}
  /\ InState \subseteq BOOLEAN

VARIABLES
  ckpt,      \* thread -> latest checkpoint, or Unset
  call,      \* turn -> its run
  pauses     \* turn -> snapshot of the waiting session it paused in, or Unset

vars == <<ckpt, call, pauses>>
-----------------------------------------------------------------------------
\* `by' is a ghost: the turn in which the message was appended.
Message == [role : {"user", "assistant"}, text : Turns, by : Turns]

Bag == [messages : Seq(Message),
        user     : Turns \cup {Unset},                \* user_message
        message  : Turns \cup {Unset},
        mode     : Modes \cup {Unset},                \* session_mode
        initialized : BOOLEAN,                        \* session_initialized
        out      : [Outputs -> Turns \cup {Unset}],   \* the turn that wrote the key
        decided  : SUBSET Gates,                      \* DOMAIN of hitl_decisions
        resume_at : Gates \cup {Unset},               \* hitl_resume_at
        thread   : Threads \cup {Unset}]              \* thread_id in the state

ASSUME BagAssumption == Unset \notin Bag

EmptyBag ==
  [messages |-> <<>>, user |-> Unset, message |-> Unset, mode |-> Unset,
   initialized |-> FALSE, out |-> [k \in Outputs |-> Unset], decided |-> {},
   resume_at |-> Unset, thread |-> Unset]

Running == {"prepare", "run", "record", "close"}
PCs == {"idle", "done", "failed"} \cup Running

\* `turn' is the turn whose text is worked on: the run's own, or that of the pause a
\* resume continues.  `at' is the position in the path.
Run == [pc : PCs, kind : {"turn", "resume"}, turn : Turns, thread : Threads \cup {Unset},
        st : Bag, at : Nat, ran : SUBSET Nodes]

InFlight(c) == call[c].pc \in Running
Free(th) == OnePerThread => \A c \in Turns : InFlight(c) => call[c].thread # th

NodeAt(c) == Path[call[c].st.mode][call[c].at]
-----------------------------------------------------------------------------
(* What the functions compute. *)

\* extract_user_message
ExtractMessage(st) == IF st.user # Unset THEN st.user ELSE st.message

\* resolve_session_mode
ResolveMode(st) ==
  CASE ~st.initialized -> "initialize"
    [] st.initialized /\ ExtractMessage(st) \in Regenerating -> "regenerate"
    [] OTHER -> "converse"

AppendMessage(messages, role, text, by) ==
  IF text = Unset THEN messages
  ELSE Append(messages, [role |-> role, text |-> text, by |-> by])

\* Mutant: the windowed messages are stored instead of all of them.
PreparedWindowed(st, t) ==
  LET text == ExtractMessage(st)
  IN  [st EXCEPT !.messages = AppendMessage(<<>>, "user", text, t),
                 !.mode = ResolveMode(st),
                 !.user = IF text = Unset THEN @ ELSE text]

\* Mutant: the thread counts as initialized once it has been routed.
PreparedInitialized(st, t) ==
  LET text == ExtractMessage(st)
  IN  [st EXCEPT !.messages = AppendMessage(@, "user", text, t),
                 !.mode = ResolveMode(st), !.initialized = TRUE,
                 !.user = IF text = Unset THEN @ ELSE text]

\* Mutant: follow-ups are not appended.
PreparedOnce(st, t) ==
  LET text == ExtractMessage(st)
  IN  [st EXCEPT !.messages = IF st.initialized THEN @ ELSE AppendMessage(@, "user", text, t),
                 !.mode = ResolveMode(st),
                 !.user = IF text = Unset THEN @ ELSE text]

\* The update of session_prepare.
Prepared(st, t) ==
  LET text == ExtractMessage(st)
  IN  [st EXCEPT !.messages = AppendMessage(@, "user", text, t),
                 !.mode = ResolveMode(st),
                 !.user = IF text = Unset THEN @ ELSE text]

\* Mutant: only a `result' is spoken.
AssistantTextOfResult(st) == st.out["result"]

\* Mutant: the name of the key instead of its value.
AssistantTextName(st) ==
  LET set == {i \in DOMAIN OutKeys : st.out[OutKeys[i]] # Unset}
  IN  IF set = {} THEN Unset ELSE OutKeys[CHOOSE i \in set : \A j \in set : i <= j]

\* assistant_text_from_final: the first of OutKeys that is set.
AssistantText(st) ==
  LET set == {i \in DOMAIN OutKeys : st.out[OutKeys[i]] # Unset}
  IN  IF set = {} THEN Unset
      ELSE st.out[OutKeys[CHOOSE i \in set : \A j \in set : i <= j]]

\* Mutant: the messages are merged by concatenation.
UpdatedAppending(stored, final, text, t) ==
  [stored EXCEPT !.messages = @ \o AppendMessage(final.messages, "assistant", text, t),
                 !.initialized = @ \/ final.mode = "initialize"]

\* The update of _record_assistant_turn on what the thread holds by then.
Updated(stored, final, text, t) ==
  [stored EXCEPT !.messages = AppendMessage(final.messages, "assistant", text, t),
                 !.initialized = @ \/ final.mode = "initialize"]

Or(new, old) == IF new # Unset THEN new ELSE old

\* _merge_dicts of a snapshot over what the thread holds; keys that were not set in
\* the snapshot keep their values.
MergeBag(old, new) ==
  [new EXCEPT !.user = Or(@, old.user), !.message = Or(@, old.message),
              !.initialized = @ \/ old.initialized,
              !.out = [k \in Outputs |-> Or(new.out[k], old.out[k])],
              !.thread = Or(@, old.thread)]

Loaded(th) == IF ckpt[th] = Unset THEN EmptyBag ELSE ckpt[th]
-----------------------------------------------------------------------------
NoRun(c) == [pc |-> "idle", kind |-> "turn", turn |-> c, thread |-> Unset,
             st |-> EmptyBag, at |-> 1, ran |-> {}]

Init ==
  /\ ckpt = [th \in Threads |-> Unset]
  /\ call = [c \in Turns |-> NoRun(c)]
  /\ pauses = [c \in Turns |-> Unset]

Save(th, st) == ckpt' = [ckpt EXCEPT ![th] = st]

\* MetadataAgent.invoke of a session agent; a client that sends no thread id gets a
\* fresh one, which is one it might have chosen.
Begin(c, th, key, inState) ==
  /\ call[c].pc = "idle"
  /\ Free(th)
  /\ LET st == [Loaded(th) EXCEPT !.user = IF key = "user_message" THEN c ELSE @,
                                  !.message = IF key = "message" THEN c ELSE @,
                                  !.thread = IF inState THEN th ELSE @]
     IN  /\ call' = [call EXCEPT ![c].pc = "prepare", ![c].thread = th, ![c].st = st]
         /\ Save(th, st)
  /\ UNCHANGED pauses

\* resume_hitl_session of the pause of turn t, which only asks that it still waits: other
\* resumes of it may be under way.  The thread is the one named by the snapshot, or a new
\* one.
Resume(c, t, th) ==
  /\ call[c].pc = "idle"
  /\ pauses[t] # Unset
  /\ IF pauses[t].thread # Unset THEN th = pauses[t].thread ELSE ckpt[th] = Unset
  /\ Free(th)
  /\ LET snapshot == [pauses[t] EXCEPT !.decided = @ \cup {pauses[t].resume_at}]
         st == MergeBag(Loaded(th), snapshot)
     IN  /\ call' = [call EXCEPT ![c].pc = "prepare", ![c].kind = "resume",
                                 ![c].turn = t, ![c].thread = th, ![c].st = st]
         /\ Save(th, st)
  /\ UNCHANGED pauses

\* session_prepare, which skip_until_resume does not wrap, and the branch behind it.
Prepare(c) ==
  /\ call[c].pc = "prepare"
  /\ LET st == Prepared(call[c].st, call[c].turn)
     IN  /\ call' = [call EXCEPT ![c].pc = IF Path[st.mode] = <<>> THEN "record" ELSE "run",
                                 ![c].st = st]
         /\ Save(call[c].thread, st)
  /\ UNCHANGED pauses

\* The node at c's place returned and left bag st.
Leave(c, st, ran) ==
  /\ call' = [call EXCEPT ![c].st = st, ![c].at = @ + 1, ![c].ran = @ \cup ran,
                          ![c].pc = IF call[c].at = Len(Path[st.mode]) THEN "record" ELSE "run"]
  /\ Save(call[c].thread, st)
  /\ UNCHANGED pauses

Skipped(c) == call[c].st.resume_at \notin {Unset, NodeAt(c)}

SkipNode(c) ==
  /\ call[c].pc = "run"
  /\ Skipped(c)
  /\ Leave(c, call[c].st, {})

WorkNode(c) ==
  /\ call[c].pc = "run"
  /\ ~Skipped(c)
  /\ NodeAt(c) \notin Gates
  /\ LET k == Writes[NodeAt(c)]
         st == IF k = Unset THEN call[c].st ELSE [call[c].st EXCEPT !.out[k] = call[c].turn]
     IN  Leave(c, st, {NodeAt(c)})

GateResume(c) ==
  /\ call[c].pc = "run"
  /\ ~Skipped(c)
  /\ NodeAt(c) \in Gates \cap call[c].st.decided
  /\ Leave(c, [call[c].st EXCEPT !.resume_at = Unset], {NodeAt(c)})

\* Mutant: the pause is recorded as the assistant's turn.
GatePauseRecording(c) ==
  /\ call[c].pc = "run"
  /\ ~Skipped(c)
  /\ NodeAt(c) \in Gates \ call[c].st.decided
  /\ pauses' = [pauses EXCEPT ![call[c].turn] = [call[c].st EXCEPT !.resume_at = NodeAt(c)]]
  /\ call' = [call EXCEPT ![c].pc = "record"]
  /\ UNCHANGED ckpt

\* Mutant: the snapshot is returned as the gate's update as well.
GatePauseSaved(c) ==
  /\ call[c].pc = "run"
  /\ ~Skipped(c)
  /\ NodeAt(c) \in Gates \ call[c].st.decided
  /\ LET snapshot == [call[c].st EXCEPT !.resume_at = NodeAt(c)]
     IN  pauses' = [pauses EXCEPT ![call[c].turn] = snapshot] /\ Save(call[c].thread, snapshot)
  /\ call' = [call EXCEPT ![c].pc = "done"]

\* The gate pauses; HitlPaused leaves the checkpoint as it is and nothing is recorded.
GatePause(c) ==
  /\ call[c].pc = "run"
  /\ ~Skipped(c)
  /\ NodeAt(c) \in Gates \ call[c].st.decided
  /\ pauses' = [pauses EXCEPT ![call[c].turn] = [call[c].st EXCEPT !.resume_at = NodeAt(c)]]
  /\ call' = [call EXCEPT ![c].pc = "done"]
  /\ UNCHANGED ckpt

\* _record_assistant_turn: nothing to say, or update_state, which may fail silently.
RecordAssistantTurn(c) ==
  /\ call[c].pc = "record"
  /\ LET text == AssistantText(call[c].st)
         th == call[c].thread
     IN  \/ /\ text # Unset
            /\ Save(th, Updated(ckpt[th], call[c].st, text, call[c].turn))
         \/ /\ text = Unset \/ c \in Failing
            /\ UNCHANGED ckpt
  /\ call' = [call EXCEPT ![c].pc = IF call[c].kind = "resume" THEN "close" ELSE "done"]
  /\ UNCHANGED pauses

\* close_hitl_session of a resumed run.
Close(c) ==
  /\ call[c].pc = "close"
  /\ pauses' = [pauses EXCEPT ![call[c].turn] = Unset]
  /\ call' = [call EXCEPT ![c].pc = "done"]
  /\ UNCHANGED ckpt

Fail(c) ==
  /\ c \in Failing
  /\ InFlight(c)
  /\ call' = [call EXCEPT ![c].pc = "failed"]
  /\ UNCHANGED <<ckpt, pauses>>

AllReturned ==
  /\ \A c \in Turns : call[c].pc \in {"done", "failed"}
  /\ UNCHANGED vars

Step(c) ==
  \/ Prepare(c) \/ SkipNode(c) \/ WorkNode(c) \/ GateResume(c) \/ GatePause(c)
  \/ RecordAssistantTurn(c) \/ Close(c)

Next ==
  \/ \E c \in Turns, th \in Threads, key \in Keys, b \in InState : Begin(c, th, key, b)
  \/ \E c \in Turns, t \in Turns, th \in Threads : Resume(c, t, th)
  \/ \E c \in Turns : Step(c) \/ Fail(c)
  \/ AllReturned

Spec == Init /\ [][Next]_vars

\* A run that has started is a thread of the process and takes its next step.
FairSpec == Spec /\ \A c \in Turns : WF_vars(Step(c))
-----------------------------------------------------------------------------
TypeOK ==
  /\ ckpt \in [Threads -> Bag \cup {Unset}]
  /\ call \in [Turns -> Run]
  /\ pauses \in [Turns -> Bag \cup {Unset}]

Transcript(th) == Loaded(th).messages

\* c took the initialize path, got to its end and had something to say.
Initialized(c) ==
  /\ call[c].st.mode = "initialize" /\ call[c].pc \in {"close", "done", "failed"}
  /\ call[c].at > Len(Path["initialize"])
  /\ AssistantText(call[c].st) # Unset

\* The conversation of th was taken there from another thread: by the resume of a pause
\* whose snapshot names no thread.
Moved(th) ==
  \E c \in Turns : /\ call[c].kind = "resume" /\ call[c].thread = th
                  /\ call[call[c].turn].thread # th

\* Only a turn that took the initialize path, got to its end and had something to say
\* initializes a thread, or the thread its conversation came from, whatever runs beside
\* it.  Code: _record_assistant_turn, resolve_session_mode, resume_hitl_session.
InitializedByAnswer ==
  \A th \in Threads : Loaded(th).initialized =>
    \E c \in Turns : Initialized(c) /\ (call[c].thread = th \/ Moved(th))

\* The transcript is a conversation: an answer directly follows the text of the turn
\* that gives it.  Code: session_prepare and _record_assistant_turn append to one list.
AnswersFollow ==
  \A th \in Threads : \A i \in DOMAIN Transcript(th) :
    LET m == Transcript(th)[i]
    IN  m.role = "assistant" =>
          /\ i > 1
          /\ Transcript(th)[i-1].role = "user" /\ Transcript(th)[i-1].by = m.by

\* A text or an answer appears no more often than runs worked on it: once per turn, and
\* once more per resume of the turn, whatever runs beside it.  Code: session_prepare and
\* _record_assistant_turn on copies of one list, update_state of the whole.
AppearsPerRun ==
  \A th \in Threads, t \in Turns, role \in {"user", "assistant"} :
    Cardinality({i \in DOMAIN Transcript(th) :
                   Transcript(th)[i].role = role /\ Transcript(th)[i].by = t})
      <= Cardinality({c \in Turns : call[c].turn = t /\ call[c].pc # "idle"})

\* A turn that waits for a reviewer has said nothing yet.  Code: invoke returns the
\* snapshot when HitlPaused is raised, before _record_assistant_turn.
PausedTurnsAreSilent ==
  \A t \in Turns :
    (pauses[t] # Unset /\ \A c \in Turns : ~(call[c].kind = "resume" /\ call[c].turn = t)) =>
      \A th \in Threads : \A i \in DOMAIN Transcript(th) :
        ~(Transcript(th)[i].role = "assistant" /\ Transcript(th)[i].by = t)

\* A conversation is only ever continued: "Messages live on flat graph state ... and are
\* persisted by the LangGraph checkpointer between turns" (session/messages.py:3).
Extends(longer, shorter) ==
  Len(shorter) <= Len(longer) /\ SubSeq(longer, 1, Len(shorter)) = shorter
TranscriptGrows ==
  [][\A th \in Threads : Extends(Loaded(th)'.messages, Loaded(th).messages)]_vars

\* "Appends the current user message" (session/nodes.py:5): what a turn appends is the
\* text it was sent.
CurrentMessage ==
  \A th \in Threads : \A i \in DOMAIN Transcript(th) :
    Transcript(th)[i].role = "user" => Transcript(th)[i].text = Transcript(th)[i].by

\* "If state.hitl_decisions[gate_id] already has a decision (resume)"
\* (hitl/gate.py:59): a gate only lets a resume pass.
GatePassesResumesOnly ==
  \A c \in Turns : call[c].kind = "turn" => call[c].ran \cap Gates = {}

\* A conversation holds hitl_resume_at or a decision only when a run of it was resumed for
\* that gate: a turn that merely pauses leaves neither, so that later turns skip nothing
\* and are reviewed.  Code: HitlPaused unwinds the graph before the gate's update reaches
\* the checkpoint; merge_hitl_decision works on the stored snapshot.
HitlKeysOfResumes ==
  \A th \in Threads : \A g \in Loaded(th).decided \cup ({Loaded(th).resume_at} \ {Unset}) :
    \E c \in Turns : call[c].kind = "resume" /\ call[c].thread = th /\ g \in call[c].st.decided

\* A turn that starts and meets no failure itself is answered, whatever failed before or
\* fails on other threads: its answer is in the transcript of its thread.  Code: invoke
\* to the end of _record_assistant_turn.  Needs FairSpec, no gates and one run per thread.
TurnIsAnswered ==
  \A c \in Turns \ Failing, th \in Threads :
    (call[c].pc = "prepare" /\ call[c].thread = th) ~>
      \E i \in DOMAIN Transcript(th) :
        Transcript(th)[i].role = "assistant" /\ Transcript(th)[i].by = c
=============================================================================
