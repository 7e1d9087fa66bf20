------------------------------- MODULE A2ACalls -------------------------------
(***************************************************************************)
(* call_agent of one process to one agent id (a2a/call.py), which runs in     *)
(* the process or at a peer: where it goes (a2a/resolve.py, a2a/bindings.py), *)
(* the attempts of the HTTP dialer (a2a/dialers/http.py) over a network that   *)
(* delays and loses, and the envelope that comes back (a2a/envelope.py).      *)
(* The peer runs the same code: it answers with an envelope or its bare       *)
(* state, and keeps the tasks of A2ATasks for calls it answers later.        *)
(***************************************************************************)
EXTENDS A2ATasks, Sequences

CONSTANTS
  Calls,
  Entries,           \* directory entries: [mode, transport, endpoint], keys Unset
  MaxAttempts,       \* EDIM_A2A_HTTP_RETRIES + 1
  MaxHeartbeats      \* bound: register_runtime_binding

ASSUME AttemptsAssumption == MaxAttempts \in Nat \ {0}

\* What an accepted call leaves in the task store, and a worker storing it.
TaskRecord == [call : [of : Calls, attempt : 1..MaxAttempts],
               status : {"running", "completed", "error"}]
Upserts == [at : {"open", "write", "replace"}, task : Tasks, record : TaskRecord]

ASSUME UnsetAssumption ==
  /\ Unset \notin TaskRecord /\ Unset \notin Upserts /\ Unset \notin Tasks \cup Workers
  /\ Unset \notin {"waiting", "waiting_hitl", "input_needed", "completed", "running", "shipped"}
  /\ Bad \notin TaskRecord

VARIABLES
  loaded,            \* the agent is registered in this process
  listed,            \* its entry in EDIM_AGENT_DIRECTORY_JSON or the fetched directory
  runtime,           \* its entry in _RUNTIME_BINDINGS
  heartbeats,
  call,              \* call[c]: a call_agent call
  wire,              \* requests and answers under way
  ran                \* ran[c]: where the call has been executed, a sequence of places

callVars == <<loaded, listed, runtime, heartbeats, call, wire, ran>>
vars == <<taskVars, callVars>>
-----------------------------------------------------------------------------
(* The directory and the decision. *)

Or(v, default) == IF v = Unset THEN default ELSE v

\* list_bindings for one agent: a runtime entry replaces a listed one as a whole; a
\* loaded agent takes from it the keys it has, null ones only if it is a runtime one.
Overlay == IF runtime # Unset THEN runtime ELSE listed
Binding ==
  IF loaded
  THEN IF Overlay = Unset THEN [mode |-> "local", transport |-> "in_process", endpoint |-> Unset]
       ELSE [mode      |-> Or(Overlay.mode, "local"),
             transport |-> Or(Overlay.transport, "in_process"),
             endpoint  |-> Overlay.endpoint]
  ELSE IF Overlay = Unset THEN Unset
  ELSE [mode      |-> Or(Overlay.mode, "remote"),
        transport |-> Or(Overlay.transport, "http"),
        endpoint  |-> Overlay.endpoint]

IsRemote(b) ==
  /\ b # Unset
  /\ b.mode = "remote" \/ b.transport \notin {"in_process", "local"}
Dialable(b) == IsRemote(b) /\ b.endpoint # Unset

\* Mutant: a loaded agent wins over its remote entry.
ResolveLocalFirst(policy, b) ==
  IF policy # "remote" /\ loaded THEN "local"
  ELSE IF policy # "local" /\ Dialable(b) THEN "remote" ELSE "refused"

\* resolve_invoke_target: under auto the directory's remote entry wins, one
\* without an endpoint only falls back to a loaded agent.
Resolve(policy, b) ==
  CASE policy = "local" -> IF loaded THEN "local" ELSE "refused"
    [] policy = "remote" -> IF Dialable(b) THEN "remote" ELSE "refused"
    [] policy = "auto" -> IF Dialable(b) THEN "remote"
                          ELSE IF loaded THEN "local" ELSE "refused"
-----------------------------------------------------------------------------
(* Envelopes.  What an agent's run leaves is [status, a2a, hitl, held]: a state   *)
(* key called status, a2a_status and hitl_status, and whether it holds a       *)
(* task_id, its caller's or an earlier call's.  Such a task_id is no task of    *)
(* this call, and `task' below is not it.                                    *)

NormalizeStatus(s) ==
  IF s \in {"waiting", "waiting_hitl"} THEN "input_needed"
  ELSE IF s = Unset THEN "completed" ELSE s

\* build_call_envelope
EnvelopeStatus(explicit, state) ==
  IF explicit # Unset THEN NormalizeStatus(explicit)
  ELSE IF state.a2a # Unset THEN NormalizeStatus(state.a2a)
  ELSE IF state.hitl \in {"waiting", "waiting_hitl"} THEN "input_needed"
  ELSE "completed"

\* Mutant: a bare state is not asked for its hitl_status.
ParseStatusPlain(body) ==
  IF body.enveloped THEN EnvelopeStatus(body.status, body.state)
  ELSE NormalizeStatus(body.state.status)

\* parse_call_envelope: a bare state with a key called status passes for an envelope.
ParseStatus(body) ==
  EnvelopeStatus(IF body.enveloped THEN body.status ELSE body.state.status, body.state)

NeedsContinue(status) == NormalizeStatus(status) = "input_needed"

States == [status : {Unset, "shipped"}, a2a : {Unset, "running"},
           hitl : {Unset, "waiting_hitl"}, held : BOOLEAN]
Blank == [status |-> Unset, a2a |-> Unset, hitl |-> Unset, held |-> FALSE]
\* The peer's own build_call_envelope, or a legacy runtime's bare state.
Bodies(state) ==
  {[enveloped |-> TRUE, status |-> EnvelopeStatus(Unset, state), state |-> state,
    task |-> Unset],
   [enveloped |-> FALSE, status |-> Unset, state |-> state, task |-> Unset]}
-----------------------------------------------------------------------------
Init ==
  /\ TaskInit
  /\ loaded \in BOOLEAN
  /\ listed \in Entries \cup {Unset}
  /\ runtime = Unset
  /\ heartbeats = 0
  /\ call = [c \in Calls |-> [at |-> "new"]]
  /\ wire = {}
  /\ ran = [c \in Calls |-> <<>>]

\* register_runtime_binding, with its defaults.
Heartbeat(entry) ==
  /\ heartbeats < MaxHeartbeats
  /\ heartbeats' = heartbeats + 1
  /\ runtime' = [mode |-> Or(entry.mode, "remote"), transport |-> Or(entry.transport, "http"),
                 endpoint |-> entry.endpoint]
  /\ UNCHANGED <<loaded, listed, call, wire, ran, taskVars>>

Request(c, n, b, later) == [kind |-> "request", call |-> c, attempt |-> n,
                            to |-> b.endpoint, later |-> later]

\* call_agent: resolve, then dial the first attempt or run the agent here.  A
\* transport without a dialer, and mcp's stub, raise.
CallAgent(c, policy, later) ==
  /\ call[c].at = "new"
  /\ LET place == Resolve(policy, Binding)
         dialed == place = "remote" /\ Binding.transport = "http"
     IN  /\ call' = [call EXCEPT ![c] =
                       [at |-> IF dialed THEN "dialing" ELSE IF place = "local" THEN "local"
                               ELSE "refused",
                        policy |-> policy, binding |-> Binding, attempt |-> 1, later |-> later]]
         /\ wire' = wire \cup (IF dialed THEN {Request(c, 1, Binding, later)} ELSE {})
  /\ UNCHANGED <<loaded, listed, runtime, heartbeats, ran, taskVars>>

\* The status call_agent itself gives an agent that ran here: async_accept and a task_id
\* in the state make it `running', and outweigh a hitl_status.
StatusHere(later, state) ==
  IF state.a2a # Unset THEN state.a2a ELSE IF later /\ state.held THEN "running" ELSE Unset

\* create_agent(target).invoke and the envelope of what it leaves.
RunHere(c, state) ==
  /\ call[c].at = "local"
  /\ ran' = [ran EXCEPT ![c] = Append(@, "here")]
  /\ call' = [call EXCEPT ![c] = [at |-> "done", policy |-> @.policy, binding |-> @.binding,
                                  attempt |-> 1, later |-> @.later,
                                  status |-> EnvelopeStatus(StatusHere(@.later, state), state),
                                  body |-> [enveloped |-> TRUE, status |-> Unset,
                                            state |-> state, task |-> Unset]]]
  /\ UNCHANGED <<loaded, listed, runtime, heartbeats, wire, taskVars>>

\* The peer runs a request, when its caller may long have given it up; it may also do so
\* for an async_accept one.  An envelope's status does not depend on a task_id in the state.
Execute(m, state) ==
  /\ m \in wire /\ m.kind = "request" /\ ~state.held
  /\ ran' = [ran EXCEPT ![m.call] = Append(@, m.to)]
  /\ \E body \in Bodies(state) :
       wire' = (wire \ {m}) \cup {[kind |-> "answer", call |-> m.call,
                                   attempt |-> m.attempt, body |-> body]}
  /\ UNCHANGED <<loaded, listed, runtime, heartbeats, call, taskVars>>

\* An async_accept request becomes a task, another attempt another one ...
Accept(m, w, t) ==
  /\ m \in wire /\ m.kind = "request" /\ m.later
  /\ AcceptTask(w, t, [of |-> m.call, attempt |-> m.attempt])
  /\ ran' = [ran EXCEPT ![m.call] = Append(@, m.to)]
  /\ wire' = wire \ {m}
  /\ UNCHANGED <<loaded, listed, runtime, heartbeats, call>>

\* ... which is answered with its task_id once accept_task has stored it.
Stored(w) ==
  /\ Put(w) \/ Replace(w)
  /\ LET request == job[w].record.call
     IN  wire' = IF job[w].record.status # "running" THEN wire
                 ELSE wire \cup
                   {[kind |-> "answer", call |-> request.of, attempt |-> request.attempt,
                     body |-> [enveloped |-> TRUE, status |-> "running", state |-> Blank,
                               task |-> job[w].task]]}
  /\ UNCHANGED <<loaded, listed, runtime, heartbeats, call, ran>>

\* A gateway answers 502, 503 or 504, the connection breaks, an answer is no JSON.
Lose(m) ==
  /\ m \in wire
  /\ wire' = wire \ {m}
  /\ UNCHANGED <<loaded, listed, runtime, heartbeats, call, ran, taskVars>>

\* The body of the attempt the dialer waits for; later ones are nobody's.
Receive(c, m) ==
  /\ call[c].at = "dialing"
  /\ m \in wire /\ m.kind = "answer" /\ m.call = c /\ m.attempt = call[c].attempt
  /\ call' = [call EXCEPT ![c] = [at |-> "done", policy |-> @.policy, binding |-> @.binding,
                                  attempt |-> @.attempt, later |-> @.later,
                                  status |-> ParseStatus(m.body), body |-> m.body]]
  /\ wire' = wire \ {m}
  /\ UNCHANGED <<loaded, listed, runtime, heartbeats, ran, taskVars>>

\* Mutant: one attempt too many.
MayRetryOnce(c) == call[c].attempt <= MaxAttempts
MayRetry(c) == call[c].attempt < MaxAttempts

\* A timeout or retryable failure: the same body is posted again.
Retry(c) ==
  /\ call[c].at = "dialing" /\ MayRetry(c)
  /\ call' = [call EXCEPT ![c].attempt = @ + 1]
  /\ wire' = wire \cup {Request(c, call[c].attempt + 1, call[c].binding, call[c].later)}
  /\ UNCHANGED <<loaded, listed, runtime, heartbeats, ran, taskVars>>

\* DialerError: the attempts are used up, or a status that is not retried.
GiveUp(c) ==
  /\ call[c].at = "dialing"
  /\ call' = [call EXCEPT ![c].at = "failed"]
  /\ UNCHANGED <<loaded, listed, runtime, heartbeats, wire, ran, taskVars>>

CallStep(c) ==
  \/ \E p \in {"auto", "local", "remote"}, later \in BOOLEAN : CallAgent(c, p, later)
  \/ \E s \in States : RunHere(c, s)
  \/ \E m \in wire : Receive(c, m)
  \/ Retry(c) \/ GiveUp(c)
PeerStep ==
  \E m \in wire : \/ \E s \in States : Execute(m, s)
                  \/ \E w \in Workers, t \in Tasks : Accept(m, w, t)
                  \/ Lose(m)
TaskStep ==
  /\ \/ \E w \in Workers :
          \/ OpenTmp(w) \/ WriteTmp(w)
          \/ \E t \in Tasks, s \in {"completed", "error"} : UpdateTask(w, t, s)
     \/ CrashTasks \/ ClearTasks
  /\ UNCHANGED callVars

Next ==
  \/ \E c \in Calls : CallStep(c)
  \/ \E e \in Entries : Heartbeat(e)
  \/ \E w \in Workers : Stored(w)
  \/ PeerStep \/ TaskStep

Spec == Init /\ [][Next]_vars
-----------------------------------------------------------------------------
(* Properties. *)

\* A call runs where its policy and the directory of that moment send it: a remote
\* entry with an endpoint wins unless the policy is local; it runs once here, or at
\* that endpoint at least once for an answer and at most MaxAttempts times whatever
\* the network does, and a refused call nowhere (resolve_invoke_target, _post_json).
CallOutcome ==
  \A c \in Calls :
    LET k == call[c]
        remote == k.policy # "local" /\ Dialable(k.binding)
    IN  /\ Len(ran[c]) <= MaxAttempts
        /\ k.at \in {"new", "refused", "local"} => ran[c] = <<>>
        /\ k.at \notin {"new", "refused"} =>
             \A n \in DOMAIN ran[c] :
               ran[c][n] = IF remote THEN k.binding.endpoint ELSE "here"
        /\ k.at = "done" => Len(ran[c]) \in 1..(IF remote THEN k.attempt ELSE 1)

\* A caller is told to continue the conversation when the peer's run waits for a
\* person, over an envelope or a bare state (needs_continue, parse_call_envelope).
\* A bare state that has a key of its own called status hides it; and a call with
\* async_accept that runs here hides it behind `running' if the state holds a task_id,
\* but no other call does (call.py:116).
PauseIsReported ==
  \A c \in Calls :
    LET k == call[c] IN
    /\ k.at = "done" /\ k.body.state.hitl # Unset /\ k.body.state.a2a = Unset
    /\ k.body.enveloped \/ k.body.state.status = Unset
    => \/ NeedsContinue(k.status)
       \/ /\ k.later /\ k.body.state.held /\ k.status = "running"
          /\ k.policy = "local" \/ ~Dialable(k.binding)

\* The task_id a caller was given can be polled until the tasks are cleared: no
\* crash of the process and no moment of an update makes a stored task unreadable
\* (FileTaskStore, one JSON file per task, atomic replace).
AcceptedTaskIsFound ==
  durable /\ ~cleared =>
    \A c \in Calls :
      call[c].at = "done" /\ call[c].body.task # Unset =>
        /\ GetTask(call[c].body.task) # Unset
        /\ GetTask(call[c].body.task).call.of = c
=============================================================================
