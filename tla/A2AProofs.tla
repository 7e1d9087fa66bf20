------------------------------- MODULE A2AProofs -------------------------------
(***************************************************************************)
(* Proofs about A2ACalls for any numbers of calls, tasks, workers, attempts   *)
(* and directory entries: the task store first, then the calls.              *)
(***************************************************************************)
EXTENDS A2ACalls, FiniteSetTheorems, TLAPS
-----------------------------------------------------------------------------
(* The task store. *)

TaskType ==
  /\ durable \in BOOLEAN /\ cleared \in BOOLEAN
  /\ task \in [Tasks -> TaskRecord \cup {Unset}]
  /\ tmp \in [Tasks -> TaskRecord \cup {Unset, Bad}]
  /\ job \in [Workers -> Upserts \cup {Unset}]

Busy(w) == job[w] # Unset

\* Only the worker that holds the lock is between open and replace, and what it will
\* rename is what it was asked to store.
FilesInv ==
  \A w \in Workers : Busy(w) =>
    /\ job[w].at \in {"write", "replace"} => locked = w
    /\ job[w].at = "replace" => tmp[job[w].task] = job[w].record

\* A task is of one call, wherever its record is.
OwnerInv ==
  /\ \A w \in Workers : Busy(w) => job[w].task \in ids
  /\ \A t \in Tasks : task[t] # Unset => t \in ids
  /\ \A w, v \in Workers : Busy(w) /\ Busy(v) /\ job[w].task = job[v].task =>
       job[w].record.call = job[v].record.call
  /\ \A w \in Workers : Busy(w) /\ task[job[w].task] # Unset =>
       job[w].record.call = task[job[w].task].call

TaskInv == TaskType /\ FilesInv /\ OwnerInv

\* The calls there are records of.
Recorded == {job[w].record.call.of : w \in {x \in Workers : Busy(x)}}
              \cup {task[t].call.of : t \in {x \in Tasks : task[x] # Unset}}

\* No stored task is lost or handed to another call while the tasks are not cleared.
Kept ==
  /\ durable' = durable /\ (cleared => cleared')
  /\ durable /\ ~cleared' =>
       \A t \in Tasks : task[t] # Unset => task'[t] # Unset /\ task'[t].call = task[t].call

LEMMA TaskInitial == TaskInit => TaskInv /\ Recorded = {}
BY DEF TaskInit, TaskInv, TaskType, FilesInv, OwnerInv, Busy, Recorded

LEMMA TaskUnchanged ==
  ASSUME TaskInv, UNCHANGED taskVars PROVE TaskInv' /\ Recorded' = Recorded /\ Kept
BY DEF taskVars, TaskInv, TaskType, FilesInv, OwnerInv, Busy, Recorded, Kept

LEMMA JobIsTyped ==
  ASSUME TaskInv, NEW w \in Workers, Busy(w)
  PROVE  /\ job[w] \in Upserts /\ job[w].task \in Tasks /\ job[w].record \in TaskRecord
         /\ job[w].record # Unset /\ job[w].record # Bad
BY UnsetAssumption DEF TaskInv, TaskType, Busy, Upserts

\* A worker takes up an upsert of a record of a call the task already has.
LEMMA NewUpsert ==
  ASSUME TaskInv, NEW w \in Workers, ~Busy(w), NEW t \in Tasks, NEW r \in TaskRecord,
         Upsert(w, t, r), UNCHANGED <<durable, task, tmp, locked, cleared>>,
         ids \subseteq ids', t \in ids',
         \A v \in Workers : Busy(v) /\ job[v].task = t => job[v].record.call = r.call,
         task[t] # Unset => task[t].call = r.call
  PROVE  TaskInv' /\ Kept /\ Recorded' \subseteq Recorded \cup {r.call.of}
<1> DEFINE u == [at |-> "open", task |-> t, record |-> r]
<1>1. /\ u \in Upserts /\ u # Unset /\ u.at = "open" /\ u.task = t /\ u.record = r
  BY UnsetAssumption DEF Upserts
<1>2. job' = [job EXCEPT ![w] = u]
  BY DEF Upsert
<1> HIDE DEF u
<1>3. /\ job' \in [Workers -> Upserts \cup {Unset}] /\ job'[w] = u /\ Busy(w)'
      /\ \A v \in Workers \ {w} : job'[v] = job[v] /\ (Busy(v)' <=> Busy(v))
  BY <1>1, <1>2 DEF TaskInv, TaskType, Busy
<1>4. TaskType' /\ Kept
  BY <1>3 DEF TaskInv, TaskType, Kept
<1>5. FilesInv'
  BY <1>1, <1>3 DEF TaskInv, FilesInv
<1>6. OwnerInv'
  <2>1. \A v \in Workers : Busy(v)' => job'[v].task \in ids'
    BY <1>1, <1>3 DEF TaskInv, OwnerInv
  <2>2. \A s \in Tasks : task'[s] # Unset => s \in ids'
    BY DEF TaskInv, OwnerInv
  <2>3. ASSUME NEW v \in Workers, NEW x \in Workers, Busy(v)', Busy(x)',
               job'[v].task = job'[x].task
        PROVE  job'[v].record.call = job'[x].record.call
    BY <1>1, <1>3, <2>3 DEF TaskInv, OwnerInv
  <2>4. ASSUME NEW v \in Workers, Busy(v)', task'[job'[v].task] # Unset
        PROVE  job'[v].record.call = task'[job'[v].task].call
    BY <1>1, <1>3, <2>4 DEF TaskInv, OwnerInv
  <2> QED BY <2>1, <2>2, <2>3, <2>4 DEF OwnerInv, Busy
<1>7. Recorded' \subseteq Recorded \cup {r.call.of}
  BY <1>1, <1>3 DEF Recorded, Busy
<1> QED BY <1>4, <1>5, <1>6, <1>7 DEF TaskInv

LEMMA AcceptDoes ==
  ASSUME TaskInv, NEW w \in Workers, NEW t \in Tasks,
         NEW k \in [of : Calls, attempt : 1..MaxAttempts], AcceptTask(w, t, k)
  PROVE  TaskInv' /\ Kept /\ Recorded' \subseteq Recorded \cup {k.of}
<1> DEFINE r == [call |-> k, status |-> "running"]
<1>1. r \in TaskRecord /\ r.call = k
  BY DEF TaskRecord
<1>2. /\ ~Busy(w) /\ t \notin ids /\ Upsert(w, t, r) /\ ids' = ids \cup {t}
      /\ UNCHANGED <<durable, task, tmp, locked, cleared>>
  BY DEF AcceptTask, Busy
<1>3. task[t] = Unset /\ \A v \in Workers : Busy(v) => job[v].task # t
  BY <1>2 DEF TaskInv, OwnerInv
<1> HIDE DEF r
<1> QED BY <1>1, <1>2, <1>3, NewUpsert

LEMMA UpdateDoes ==
  ASSUME TaskInv, NEW w \in Workers, NEW t \in Tasks, NEW s \in {"completed", "error"},
         UpdateTask(w, t, s)
  PROVE  TaskInv' /\ Kept /\ Recorded' \subseteq Recorded
<1> DEFINE r == [task[t] EXCEPT !.status = s]
<1>1. GetTask(t) = task[t] /\ task[t] \in TaskRecord /\ task[t] # Unset
  BY UnsetAssumption DEF UpdateTask, GetTask, TaskInv, TaskType
<1>2. r \in TaskRecord /\ r.call = task[t].call
  BY <1>1 DEF TaskRecord
<1>3. /\ ~Busy(w) /\ Upsert(w, t, r) /\ ids' = ids
      /\ UNCHANGED <<durable, task, tmp, locked, cleared>>
  BY <1>1 DEF UpdateTask, Busy
<1>4. /\ t \in ids
      /\ \A v \in Workers : Busy(v) /\ job[v].task = t => job[v].record.call = r.call
  BY <1>1, <1>2 DEF TaskInv, OwnerInv
<1> HIDE DEF r
<1>5. TaskInv' /\ Kept /\ Recorded' \subseteq Recorded \cup {r.call.of}
  BY <1>2, <1>3, <1>4, NewUpsert
<1>6. r.call.of \in Recorded
  BY <1>1, <1>2 DEF Recorded
<1> QED BY <1>5, <1>6

\* The record of a worker that is done with it is stored.
LEMMA StoreDoes ==
  ASSUME TaskInv, NEW w \in Workers, Put(w) \/ Replace(w)
  PROVE  /\ TaskInv' /\ Kept /\ Recorded' \subseteq Recorded
         /\ Busy(w) /\ task'[job[w].task] = job[w].record
<1> DEFINE t == job[w].task
           r == job[w].record
<1>1. /\ Busy(w) /\ job' = [job EXCEPT ![w] = Unset] /\ ids' = ids
      /\ durable' = durable /\ cleared' = cleared
  BY DEF Put, Replace, At, Busy
<1>2. t \in Tasks /\ r \in TaskRecord /\ r # Unset
  BY <1>1, JobIsTyped
<1>3. /\ task' = [task EXCEPT ![t] = r]
      /\ \/ UNCHANGED <<tmp, locked>>
         \/ tmp' = [tmp EXCEPT ![t] = Unset] /\ locked = w
  <2>1. CASE Put(w)
    BY <2>1 DEF Put
  <2>2. CASE Replace(w)
    <3>1. job[w].at = "replace" /\ locked = w /\ tmp[t] = r
      BY <1>1, <2>2 DEF Replace, At, TaskInv, FilesInv
    <3> QED BY <2>2, <3>1 DEF Replace
  <2> QED BY <2>1, <2>2
<1> HIDE DEF t, r
<1>4. /\ ~Busy(w)' /\ \A v \in Workers \ {w} : job'[v] = job[v] /\ (Busy(v)' <=> Busy(v))
      /\ job' \in [Workers -> Upserts \cup {Unset}]
  BY <1>1 DEF TaskInv, TaskType, Busy
<1>5. /\ task'[t] = r /\ \A s \in Tasks \ {t} : task'[s] = task[s]
      /\ task' \in [Tasks -> TaskRecord \cup {Unset}]
  BY <1>2, <1>3 DEF TaskInv, TaskType
<1>6. task[t] # Unset => task[t].call = r.call
  BY <1>1 DEF TaskInv, OwnerInv, t, r
<1>7. TaskType' /\ Kept
  <2>1. tmp' \in [Tasks -> TaskRecord \cup {Unset, Bad}]
    BY <1>3 DEF TaskInv, TaskType
  <2> QED BY <1>1, <1>2, <1>4, <1>5, <1>6, <2>1 DEF TaskInv, TaskType, Kept
<1>8. FilesInv'
  <2>1. CASE UNCHANGED <<tmp, locked>>
    BY <1>4, <2>1 DEF TaskInv, FilesInv
  <2>2. CASE tmp' = [tmp EXCEPT ![t] = Unset] /\ locked = w
    <3>1. \A v \in Workers \ {w} : Busy(v) => job[v].at \notin {"write", "replace"}
      BY <2>2 DEF TaskInv, FilesInv
    <3> QED BY <1>4, <3>1 DEF FilesInv
  <2> QED BY <1>3, <2>1, <2>2
<1>9. OwnerInv'
  <2>1. \A v \in Workers : Busy(v)' => job'[v].task \in ids'
    BY <1>1, <1>4 DEF TaskInv, OwnerInv
  <2>2. \A s \in Tasks : task'[s] # Unset => s \in ids'
    BY <1>1, <1>5 DEF TaskInv, OwnerInv, t
  <2>3. \A v, x \in Workers : Busy(v)' /\ Busy(x)' /\ job'[v].task = job'[x].task =>
          job'[v].record.call = job'[x].record.call
    BY <1>4 DEF TaskInv, OwnerInv
  <2>4. ASSUME NEW v \in Workers, Busy(v)', task'[job'[v].task] # Unset
        PROVE  job'[v].record.call = task'[job'[v].task].call
    <3>1. v # w /\ job'[v] = job[v] /\ Busy(v)
      BY <1>4, <2>4
    <3>2. job[v].task \in Tasks
      BY <3>1, JobIsTyped
    <3>3. CASE job[v].task = t
      BY <1>1, <1>5, <3>1, <3>3 DEF TaskInv, OwnerInv, t, r
    <3>4. CASE job[v].task # t
      BY <1>5, <2>4, <3>1, <3>2, <3>4 DEF TaskInv, OwnerInv
    <3> QED BY <3>3, <3>4
  <2> QED BY <2>1, <2>2, <2>3, <2>4 DEF OwnerInv, Busy
<1>10. Recorded' \subseteq Recorded
  <2>1. r.call.of \in Recorded
    BY <1>1 DEF Recorded, r
  <2>2. \A v \in Workers : Busy(v)' => job'[v].record.call.of \in Recorded
    BY <1>4 DEF Recorded
  <2>3. \A s \in Tasks : task'[s] # Unset => task'[s].call.of \in Recorded
    BY <1>5, <2>1 DEF Recorded
  <2> QED BY <2>2, <2>3 DEF Recorded, Busy
<1> QED BY <1>1, <1>5, <1>7, <1>8, <1>9, <1>10 DEF TaskInv, t, r

LEMMA FileDoes ==
  ASSUME TaskInv, NEW w \in Workers, OpenTmp(w) \/ WriteTmp(w)
  PROVE  TaskInv' /\ Kept /\ Recorded' \subseteq Recorded
<1> DEFINE t == job[w].task
           place == IF job[w].at = "open" THEN "write" ELSE "replace"
           u == [job[w] EXCEPT !.at = place]
           file == IF job[w].at = "open" THEN Bad ELSE job[w].record
<1>1. Busy(w) /\ job[w] \in Upserts /\ t \in Tasks
  BY JobIsTyped DEF OpenTmp, WriteTmp, At, Busy
<1>2. /\ job' = [job EXCEPT ![w] = u] /\ tmp' = [tmp EXCEPT ![t] = file]
      /\ locked' = w /\ locked \in {Unset, w}
      /\ UNCHANGED <<durable, task, ids, cleared>>
  <2>1. CASE OpenTmp(w)
    BY <2>1 DEF OpenTmp, At, TaskInv, TaskType
  <2>2. CASE WriteTmp(w)
    <3>1. job[w].at = "write" /\ locked = w
      BY <1>1, <2>2 DEF WriteTmp, At, TaskInv, FilesInv
    <3>2. place = "replace" /\ file = job[w].record
      BY <3>1
    <3>3. /\ job' = [job EXCEPT ![w].at = "replace"] /\ tmp' = [tmp EXCEPT ![t] = file]
          /\ UNCHANGED <<durable, task, locked, ids, cleared>>
      BY <2>2, <3>2 DEF WriteTmp
    <3>4. job' = [job EXCEPT ![w] = u]
      BY <3>2, <3>3 DEF TaskInv, TaskType
    <3> HIDE DEF u, file, place
    <3> QED BY <3>1, <3>3, <3>4
  <2> QED BY <2>1, <2>2
<1>3. /\ u \in Upserts /\ u # Unset /\ u.at = place /\ u.task = t /\ u.record = job[w].record
      /\ file \in TaskRecord \cup {Bad} /\ (place = "replace" => file = u.record)
  BY <1>1, JobIsTyped, UnsetAssumption DEF Upserts
<1> HIDE DEF u, file, place
<1>4. /\ job' \in [Workers -> Upserts \cup {Unset}] /\ job'[w] = u /\ Busy(w)'
      /\ \A v \in Workers \ {w} : job'[v] = job[v] /\ (Busy(v)' <=> Busy(v))
  BY <1>2, <1>3 DEF TaskInv, TaskType, Busy
<1>5. \A v \in Workers \ {w} : Busy(v) => job[v].at \notin {"write", "replace"}
  BY <1>2, UnsetAssumption DEF TaskInv, FilesInv
<1>6. TaskType' /\ Kept
  BY <1>1, <1>2, <1>3, <1>4 DEF TaskInv, TaskType, Kept
<1>7. FilesInv'
  <2>1. tmp'[t] = file
    BY <1>1, <1>2 DEF TaskInv, TaskType
  <2> QED BY <1>2, <1>3, <1>4, <1>5, <2>1 DEF FilesInv
<1>8. \A v \in Workers : Busy(v)' =>
        Busy(v) /\ job'[v].task = job[v].task /\ job'[v].record = job[v].record
  BY <1>1, <1>3, <1>4
<1>9. OwnerInv' /\ Recorded' \subseteq Recorded
  BY <1>2, <1>8 DEF TaskInv, OwnerInv, Recorded, Busy
<1> QED BY <1>6, <1>7, <1>9 DEF TaskInv

LEMMA EndsDoes ==
  ASSUME TaskInv, CrashTasks \/ ClearTasks
  PROVE  TaskInv' /\ Kept /\ Recorded' \subseteq Recorded
<1>1. CASE CrashTasks
  <2>1. /\ job' = [w \in Workers |-> Unset] /\ UNCHANGED <<durable, tmp, ids, cleared>>
        /\ task' = IF durable THEN task ELSE [t \in Tasks |-> Unset]
    BY <1>1 DEF CrashTasks
  <2>2. \A w \in Workers : ~Busy(w)'
    BY <2>1 DEF Busy
  <2>3. \A t \in Tasks : task'[t] \in {task[t], Unset}
    BY <2>1
  <2>4. TaskType' /\ Kept
    BY <2>1 DEF TaskInv, TaskType, Kept
  <2> QED BY <2>1, <2>2, <2>3, <2>4 DEF TaskInv, FilesInv, OwnerInv, Recorded, Busy
<1>2. CASE ClearTasks
  <2>1. /\ task' = [t \in Tasks |-> Unset] /\ cleared' = TRUE
        /\ UNCHANGED <<durable, tmp, locked, job, ids>>
    BY <1>2 DEF ClearTasks
  <2>2. TaskType' /\ Kept
    BY <2>1 DEF TaskInv, TaskType, Kept
  <2>3. FilesInv'
    BY <2>1 DEF TaskInv, FilesInv, Busy
  <2>4. \A t \in Tasks : task'[t] = Unset
    BY <2>1
  <2>5. \A w \in Workers : Busy(w)' => job'[w].task \in Tasks
    BY <2>1, JobIsTyped DEF Busy
  <2>6. OwnerInv' /\ Recorded' \subseteq Recorded
    BY <2>1, <2>4, <2>5 DEF TaskInv, OwnerInv, Recorded, Busy
  <2> QED BY <2>2, <2>3, <2>6 DEF TaskInv
<1> QED BY <1>1, <1>2

LEMMA TaskStepDoes ==
  ASSUME TaskInv, TaskStep
  PROVE  TaskInv' /\ Kept /\ Recorded' \subseteq Recorded /\ UNCHANGED callVars
BY FileDoes, UpdateDoes, EndsDoes DEF TaskStep
-----------------------------------------------------------------------------
(* Calls, requests and answers. *)

Places == {"here", Unset} \cup {e.endpoint : e \in Entries}
Binds == [mode : {"local", "remote"} \cup {e.mode : e \in Entries},
          transport : {"in_process", "http"} \cup {e.transport : e \in Entries},
          endpoint : Places]
Statuses == {"completed", "running", "input_needed", "shipped"}
Answers == [enveloped : BOOLEAN, status : Statuses \cup {Unset}, state : States,
            task : Tasks \cup {Unset}]
Begun == [at : {"dialing", "local", "refused", "failed"},
          policy : {"auto", "local", "remote"}, binding : Binds \cup {Unset},
          attempt : 1..MaxAttempts, later : BOOLEAN]
Ended == [at : {"done"},
          policy : {"auto", "local", "remote"}, binding : Binds \cup {Unset},
          attempt : 1..MaxAttempts, later : BOOLEAN, status : Statuses, body : Answers]
Requested == [kind : {"request"}, call : Calls, attempt : 1..MaxAttempts,
              to : Places, later : BOOLEAN]
Replied == [kind : {"answer"}, call : Calls, attempt : 1..MaxAttempts, body : Answers]

Remote(k) == k.policy # "local" /\ Dialable(k.binding)

\* A call is dialed exactly when its policy and binding send it to a peer.
CallType ==
  /\ listed \in Entries \cup {Unset} /\ runtime \in Binds \cup {Unset}
  /\ call \in [Calls -> {[at |-> "new"]} \cup Begun \cup Ended]
  /\ wire \subseteq Requested \cup Replied /\ IsFiniteSet(wire)
  /\ ran \in [Calls -> Seq(Places)]
  /\ \A c \in Calls :
       /\ call[c].at \in {"dialing", "failed"} => Remote(call[c])
       /\ call[c].at = "local" => ~Remote(call[c])
       /\ call[c].at = "done" /\ ~Remote(call[c]) => call[c].attempt = 1

\* A call begins in one of three places.
LEMMA CallAgentDoes ==
  ASSUME CallType, NEW c \in Calls, NEW p \in {"auto", "local", "remote"}, NEW later \in BOOLEAN,
         CallAgent(c, p, later)
  PROVE  \E k \in Begun :
           /\ call[c].at = "new" /\ call' = [call EXCEPT ![c] = k] /\ k.attempt = 1
           /\ k.at \in {"dialing", "local", "refused"}
           /\ k.at = "dialing" => Remote(k)
           /\ k.at = "local" => ~Remote(k)
           /\ IF k.at = "dialing"
              THEN \E m \in Requested : m.call = c /\ m.to = k.binding.endpoint
                                        /\ wire' = wire \cup {m}
              ELSE wire' = wire
           /\ UNCHANGED <<ran, taskVars, listed, runtime>>
<1> DEFINE place == Resolve(p, Binding)
           dialed == place = "remote" /\ Binding.transport = "http"
           at == IF dialed THEN "dialing" ELSE IF place = "local" THEN "local" ELSE "refused"
           k == [at |-> at, policy |-> p, binding |-> Binding, attempt |-> 1, later |-> later]
           m == [kind |-> "request", call |-> c, attempt |-> 1,
                 to |-> Binding.endpoint, later |-> later]
<1>1. Binding \in Binds \cup {Unset}
  <2>1. Overlay \in Entries \cup Binds \cup {Unset}
    BY DEF CallType, Overlay
  <2>2. CASE Overlay \in Entries /\ Overlay # Unset
    BY <2>2 DEF Binding, Or, Binds, Places
  <2>3. CASE Overlay \in Binds /\ Overlay # Unset
    BY <2>3 DEF Binding, Or, Binds
  <2>4. CASE Overlay = Unset
    BY <2>4 DEF Binding, Binds, Places
  <2> QED BY <2>1, <2>2, <2>3, <2>4
<1>2. 1 \in 1..MaxAttempts
  BY AttemptsAssumption
<1>3. /\ place = "remote" => p # "local" /\ Dialable(Binding)
      /\ place = "local" => ~(p # "local" /\ Dialable(Binding))
  BY DEF Resolve
<1>4. /\ call[c].at = "new" /\ call' = [call EXCEPT ![c] = k]
      /\ wire' = IF dialed THEN wire \cup {m} ELSE wire
      /\ UNCHANGED <<ran, taskVars, listed, runtime>>
  BY DEF CallAgent, Request
<1>5. k \in Begun /\ k.at = at /\ k.policy = p /\ k.binding = Binding /\ k.attempt = 1
  BY <1>1, <1>2 DEF Begun
<1>6. dialed => m \in Requested /\ m.call = c /\ m.to = Binding.endpoint
  <2>1. dialed => Binding \in Binds
    BY <1>1, <1>3 DEF Dialable, IsRemote
  <2> QED BY <1>2, <2>1 DEF Requested, Binds
<1>7. at \in {"dialing", "local", "refused"} /\ (at = "dialing" <=> dialed)
  OBVIOUS
<1>8. at = "local" => place = "local"
  OBVIOUS
<1> HIDE DEF k, m, at
<1>9. /\ k.at = "dialing" => Remote(k)
      /\ k.at = "local" => ~Remote(k)
  BY <1>3, <1>5, <1>7, <1>8 DEF Remote
<1> HIDE DEF dialed, place
<1> QED BY <1>4, <1>5, <1>6, <1>7, <1>9

LEMMA CallIsTyped ==
  ASSUME CallType, NEW c \in Calls
  PROVE  /\ call[c].at \in {"new", "dialing", "local", "refused", "failed", "done"}
         /\ call[c].at = "done" => call[c] \in Ended
         /\ call[c].at \notin {"new", "done"} => call[c] \in Begun
BY DEF CallType, Begun, Ended

\* A call goes on with the policy and the binding it began with.
Goes(c, k) ==
  /\ call' = [call EXCEPT ![c] = k]
  /\ k.policy = call[c].policy /\ k.binding = call[c].binding

LEMMA StatusIsTyped ==
  ASSUME NEW state \in States, NEW explicit \in Statuses \cup {Unset}
  PROVE  EnvelopeStatus(explicit, state) \in Statuses
BY DEF EnvelopeStatus, NormalizeStatus, States, Statuses

LEMMA RunHereDoes ==
  ASSUME CallType, NEW c \in Calls, NEW state \in States, RunHere(c, state)
  PROVE  \E k \in Ended :
           /\ call[c].at = "local" /\ Goes(c, k) /\ k.attempt = 1
           /\ k.later = call[c].later
           /\ k.status = EnvelopeStatus(StatusHere(k.later, state), state)
           /\ k.body.state = state /\ k.body.task = Unset
           /\ ran' = [ran EXCEPT ![c] = Append(@, "here")]
           /\ UNCHANGED <<wire, taskVars, listed, runtime>>
<1> DEFINE body == [enveloped |-> TRUE, status |-> Unset, state |-> state, task |-> Unset]
           status == EnvelopeStatus(StatusHere(call[c].later, state), state)
           k == [at |-> "done", policy |-> call[c].policy, binding |-> call[c].binding,
                 attempt |-> 1, later |-> call[c].later, status |-> status, body |-> body]
<1>1. call[c].at = "local" /\ call[c] \in Begun
  BY CallIsTyped DEF RunHere
<1>2. body \in Answers /\ body.state = state /\ body.task = Unset
  BY DEF Answers
<1>3. status \in Statuses
  <2>1. StatusHere(call[c].later, state) \in Statuses \cup {Unset}
    BY DEF StatusHere, States, Statuses
  <2> QED BY <2>1, StatusIsTyped
<1>4. /\ call' = [call EXCEPT ![c] = k] /\ ran' = [ran EXCEPT ![c] = Append(@, "here")]
      /\ UNCHANGED <<wire, taskVars, listed, runtime>>
  BY DEF RunHere
<1> HIDE DEF body, status
<1>5. /\ k \in Ended /\ k.policy = call[c].policy /\ k.binding = call[c].binding
      /\ k.attempt = 1 /\ k.status = status /\ k.body = body /\ k.later = call[c].later
  BY <1>1, <1>2, <1>3, AttemptsAssumption DEF Begun, Ended
<1> HIDE DEF k
<1> QED BY <1>1, <1>2, <1>4, <1>5 DEF Goes, status

LEMMA ReceiveDoes ==
  ASSUME CallType, NEW c \in Calls, NEW m \in wire, Receive(c, m)
  PROVE  \E k \in Ended :
           /\ call[c].at = "dialing" /\ Goes(c, k) /\ k.attempt = call[c].attempt
           /\ m \in Replied /\ m.kind = "answer" /\ m.call = c
           /\ k.body = m.body /\ k.status = ParseStatus(m.body)
           /\ wire' = wire \ {m} /\ UNCHANGED <<ran, taskVars, listed, runtime>>
<1> DEFINE body == m.body
           status == ParseStatus(body)
           k == [at |-> "done", policy |-> call[c].policy, binding |-> call[c].binding,
                 attempt |-> call[c].attempt, later |-> call[c].later,
                 status |-> status, body |-> body]
<1>1. call[c].at = "dialing" /\ call[c] \in Begun
  BY CallIsTyped DEF Receive
<1>2. m \in Replied /\ m.kind = "answer" /\ m.call = c /\ body \in Answers
  BY DEF Receive, CallType, Requested, Replied
<1>3. status \in Statuses
  <2>1. /\ body.state \in States /\ body.status \in Statuses \cup {Unset}
        /\ body.state.status \in Statuses \cup {Unset}
    BY <1>2 DEF Answers, States, Statuses
  <2> QED BY <2>1, StatusIsTyped DEF ParseStatus
<1>4. /\ call' = [call EXCEPT ![c] = k] /\ wire' = wire \ {m}
      /\ UNCHANGED <<ran, taskVars, listed, runtime>>
  BY DEF Receive
<1> HIDE DEF body, status
<1>5. /\ k \in Ended /\ k.policy = call[c].policy /\ k.binding = call[c].binding
      /\ k.attempt = call[c].attempt /\ k.status = status /\ k.body = body
  BY <1>1, <1>2, <1>3 DEF Begun, Ended
<1> HIDE DEF k
<1> QED BY <1>1, <1>2, <1>4, <1>5 DEF Goes, status, body

LEMMA RetryDoes ==
  ASSUME CallType, NEW c \in Calls, Retry(c)
  PROVE  \E k \in Begun, m \in Requested :
           /\ call[c].at = "dialing" /\ Goes(c, k) /\ k.at = "dialing"
           /\ k.attempt = call[c].attempt + 1
           /\ m.call = c /\ m.to = call[c].binding.endpoint
           /\ wire' = wire \cup {m}
           /\ UNCHANGED <<ran, taskVars, listed, runtime>>
<1> DEFINE n == call[c].attempt + 1
           k == [call[c] EXCEPT !.attempt = n]
           m == [kind |-> "request", call |-> c, attempt |-> n,
                 to |-> call[c].binding.endpoint, later |-> call[c].later]
<1>1. call[c].at = "dialing" /\ call[c] \in Begun /\ call[c].binding \in Binds
  <2>1. call[c].at = "dialing" /\ call[c] \in Begun
    BY CallIsTyped DEF Retry
  <2> QED BY <2>1 DEF CallType, Remote, Dialable, IsRemote, Begun
<1>2. n \in 1..MaxAttempts
  BY <1>1, AttemptsAssumption DEF Retry, MayRetry, Begun
<1>3. /\ call' = [call EXCEPT ![c] = k] /\ wire' = wire \cup {m}
      /\ UNCHANGED <<ran, taskVars, listed, runtime>>
  <2>1. call' = [call EXCEPT ![c].attempt = n]
    BY DEF Retry
  <2> QED BY <2>1 DEF Retry, Request, CallType
<1> HIDE DEF n
<1>4. /\ k \in Begun /\ k.at = "dialing" /\ k.attempt = n
      /\ k.policy = call[c].policy /\ k.binding = call[c].binding
  BY <1>1, <1>2 DEF Begun
<1>5. m \in Requested /\ m.call = c /\ m.to = call[c].binding.endpoint
  BY <1>1, <1>2 DEF Requested, Begun, Binds
<1> HIDE DEF k, m
<1> QED BY <1>1, <1>3, <1>4, <1>5 DEF Goes, n

LEMMA GiveUpDoes ==
  ASSUME CallType, NEW c \in Calls, GiveUp(c)
  PROVE  \E k \in Begun :
           /\ call[c].at = "dialing" /\ Goes(c, k) /\ k.at = "failed"
           /\ k.attempt = call[c].attempt
           /\ UNCHANGED <<wire, ran, taskVars, listed, runtime>>
<1> DEFINE k == [call[c] EXCEPT !.at = "failed"]
<1>1. call[c].at = "dialing" /\ call[c] \in Begun
  BY CallIsTyped DEF GiveUp
<1>2. /\ call' = [call EXCEPT ![c] = k] /\ UNCHANGED <<wire, ran, taskVars, listed, runtime>>
  BY DEF GiveUp, CallType
<1>3. /\ k \in Begun /\ k.at = "failed" /\ k.attempt = call[c].attempt
      /\ k.policy = call[c].policy /\ k.binding = call[c].binding
  BY <1>1 DEF Begun
<1> HIDE DEF k
<1> QED BY <1>1, <1>2, <1>3 DEF Goes

\* What an answer says of the peer's run: one that waits for a person is reported so,
\* unless the agent's own a2a_status or a key of its own called status speaks for it.
Tells(body) ==
  body.state.hitl # Unset /\ body.state.a2a = Unset
    /\ (body.enveloped \/ body.state.status = Unset)
  => NeedsContinue(ParseStatus(body))

LEMMA BodiesTell ==
  ASSUME NEW state \in States, NEW body \in Bodies(state)
  PROVE  body \in Answers /\ body.task = Unset /\ Tells(body)
<1>1. EnvelopeStatus(Unset, state) \in Statuses
  BY StatusIsTyped
<1>2. CASE body = [enveloped |-> TRUE, status |-> EnvelopeStatus(Unset, state),
                   state |-> state, task |-> Unset]
  <2>1. /\ body \in Answers /\ body.task = Unset /\ body.state = state /\ body.enveloped
        /\ body.status = EnvelopeStatus(Unset, state)
    BY <1>1, <1>2 DEF Answers
  <2>2. state.hitl # Unset /\ state.a2a = Unset => body.status = "input_needed"
    BY <2>1 DEF EnvelopeStatus, NormalizeStatus, States
  <2> QED BY <2>1, <2>2, UnsetAssumption
          DEF Tells, ParseStatus, EnvelopeStatus, NormalizeStatus, NeedsContinue
<1>3. CASE body = [enveloped |-> FALSE, status |-> Unset, state |-> state, task |-> Unset]
  <2>1. body \in Answers /\ body.task = Unset /\ body.state = state /\ ~body.enveloped
    BY <1>3 DEF Answers
  <2>2. state.hitl # Unset => state.hitl = "waiting_hitl"
    BY DEF States
  <2> QED BY <2>1, <2>2, UnsetAssumption
          DEF Tells, ParseStatus, EnvelopeStatus, NormalizeStatus, NeedsContinue
<1> QED BY <1>2, <1>3 DEF Bodies

LEMMA ExecuteDoes ==
  ASSUME CallType, NEW m \in wire, NEW state \in States, Execute(m, state)
  PROVE  /\ m \in Requested /\ m.kind = "request"
         /\ ran' = [ran EXCEPT ![m.call] = Append(@, m.to)]
         /\ \E a \in Replied : /\ a.call = m.call /\ a.body.task = Unset /\ Tells(a.body)
                               /\ wire' = (wire \ {m}) \cup {a}
         /\ UNCHANGED <<call, taskVars, listed, runtime>>
<1>1. m \in Requested /\ m.kind = "request"
  BY DEF Execute, CallType, Requested, Replied
<1>2. PICK body \in Bodies(state) :
        wire' = (wire \ {m}) \cup {[kind |-> "answer", call |-> m.call,
                                    attempt |-> m.attempt, body |-> body]}
  BY DEF Execute
<1> DEFINE a == [kind |-> "answer", call |-> m.call, attempt |-> m.attempt, body |-> body]
<1>3. body \in Answers /\ body.task = Unset /\ Tells(body)
  BY BodiesTell
<1>4. a \in Replied /\ a.call = m.call /\ a.body = body
  BY <1>1, <1>3 DEF Requested, Replied
<1> HIDE DEF a
<1>5. wire' = (wire \ {m}) \cup {a}
  BY <1>2 DEF a
<1>6. /\ ran' = [ran EXCEPT ![m.call] = Append(@, m.to)]
      /\ UNCHANGED <<call, taskVars, listed, runtime>>
  BY DEF Execute
<1> QED BY <1>1, <1>3, <1>4, <1>5, <1>6

LEMMA AcceptRuns ==
  ASSUME CallType, TaskInv, NEW m \in wire, NEW w \in Workers, NEW t \in Tasks, Accept(m, w, t)
  PROVE  /\ m \in Requested /\ m.kind = "request"
         /\ ran' = [ran EXCEPT ![m.call] = Append(@, m.to)]
         /\ wire' = wire \ {m} /\ UNCHANGED <<call, listed, runtime>>
         /\ TaskInv' /\ Kept /\ Recorded' \subseteq Recorded \cup {m.call}
<1>1. m \in Requested /\ m.kind = "request"
  BY DEF Accept, CallType, Requested, Replied
<1> DEFINE k == [of |-> m.call, attempt |-> m.attempt]
<1>2. k \in [of : Calls, attempt : 1..MaxAttempts] /\ k.of = m.call
  BY <1>1 DEF Requested
<1>3. AcceptTask(w, t, k)
  BY DEF Accept
<1> HIDE DEF k
<1>4. TaskInv' /\ Kept /\ Recorded' \subseteq Recorded \cup {m.call}
  BY <1>2, <1>3, AcceptDoes
<1> QED BY <1>1, <1>4 DEF Accept

LEMMA StoredDoes ==
  ASSUME TaskInv, NEW w \in Workers, Stored(w)
  PROVE  /\ TaskInv' /\ Kept /\ Recorded' \subseteq Recorded
         /\ UNCHANGED <<call, ran, listed, runtime>>
         /\ \/ UNCHANGED wire
            \/ \E a \in Replied :
                 /\ a.body.task \in Tasks /\ a.call \in Recorded /\ Tells(a.body)
                 /\ task'[a.body.task] # Unset /\ task'[a.body.task].call.of = a.call
                 /\ wire' = wire \cup {a}
<1>1. /\ TaskInv' /\ Kept /\ Recorded' \subseteq Recorded
      /\ Busy(w) /\ task'[job[w].task] = job[w].record
  BY StoreDoes DEF Stored
<1>2. job[w].task \in Tasks /\ job[w].record \in TaskRecord /\ job[w].record # Unset
  BY <1>1, JobIsTyped
<1> DEFINE request == job[w].record.call
           body == [enveloped |-> TRUE, status |-> "running", state |-> Blank,
                    task |-> job[w].task]
           a == [kind |-> "answer", call |-> request.of, attempt |-> request.attempt,
                 body |-> body]
<1>3. body \in Answers /\ body.task = job[w].task /\ Tells(body)
  BY <1>2 DEF Answers, Statuses, States, Blank, Tells
<1>4. UNCHANGED <<call, ran, listed, runtime>> /\ (wire' = wire \/ wire' = wire \cup {a})
  BY DEF Stored
<1>5. request.of \in Calls /\ request.attempt \in 1..MaxAttempts /\ request.of \in Recorded
  BY <1>1, <1>2 DEF TaskRecord, Recorded
<1> HIDE DEF body, request
<1>6. a \in Replied /\ a.call = request.of /\ a.body = body
  BY <1>3, <1>5 DEF Replied
<1> HIDE DEF a
<1> QED BY <1>1, <1>2, <1>3, <1>4, <1>5, <1>6 DEF request
-----------------------------------------------------------------------------
(* Everything is well formed. *)

LEMMA GoesOn ==
  ASSUME CallType, NEW c \in Calls, NEW k \in Begun \cup Ended, call' = [call EXCEPT ![c] = k]
  PROVE  /\ call' \in [Calls -> {[at |-> "new"]} \cup Begun \cup Ended]
         /\ call'[c] = k /\ \A d \in Calls \ {c} : call'[d] = call[d]
BY DEF CallType

\* What a step does to a call, with a wire and runs that stay well formed.
LEMMA CallTypeKept ==
  ASSUME CallType, listed' = listed, runtime' \in Binds \cup {Unset},
         wire' \subseteq Requested \cup Replied, IsFiniteSet(wire'),
         ran' \in [Calls -> Seq(Places)],
         \/ UNCHANGED call
         \/ \E c \in Calls : \E k \in Begun \cup Ended :
              /\ call' = [call EXCEPT ![c] = k]
              /\ k.at \in {"dialing", "failed"} => Remote(k)
              /\ k.at = "local" => ~Remote(k)
              /\ k.at = "done" /\ ~Remote(k) => k.attempt = 1
  PROVE  CallType'
<1>1. CASE UNCHANGED call
  BY <1>1 DEF CallType
<1>2. ASSUME NEW c \in Calls, NEW k \in Begun \cup Ended,
             call' = [call EXCEPT ![c] = k],
             k.at \in {"dialing", "failed"} => Remote(k),
             k.at = "local" => ~Remote(k),
             k.at = "done" /\ ~Remote(k) => k.attempt = 1
      PROVE  CallType'
  <2>1. /\ call' \in [Calls -> {[at |-> "new"]} \cup Begun \cup Ended]
        /\ call'[c] = k /\ \A d \in Calls \ {c} : call'[d] = call[d]
    BY <1>2, GoesOn
  <2>2. ASSUME NEW d \in Calls
        PROVE  /\ call'[d].at \in {"dialing", "failed"} => Remote(call'[d])
               /\ call'[d].at = "local" => ~Remote(call'[d])
               /\ call'[d].at = "done" /\ ~Remote(call'[d]) => call'[d].attempt = 1
    <3>1. CASE d = c
      BY <1>2, <2>1, <3>1
    <3>2. CASE d # c
      <4>1. call'[d] = call[d]
        BY <2>1, <3>2
      <4> QED BY <4>1 DEF CallType
    <3> QED BY <3>1, <3>2
  <2>3. \A k1 : Remote(k1)' <=> Remote(k1)
    BY DEF Remote, Dialable, IsRemote
  <2> QED BY <1>2, <2>1, <2>2 DEF CallType, Remote, Dialable, IsRemote
<1> QED BY <1>1, <1>2

\* What is put on a wire of finitely many messages leaves it one of finitely many.
LEMMA PutOnWire ==
  ASSUME CallType, NEW W \in SUBSET wire, NEW x \in Requested \cup Replied
  PROVE  /\ W \cup {x} \subseteq Requested \cup Replied
         /\ IsFiniteSet(W \cup {x})
<1>1. wire \subseteq Requested \cup Replied /\ IsFiniteSet(wire)
  BY DEF CallType
<1>2. IsFiniteSet(W)
  BY <1>1, FS_Subset
<1>3. IsFiniteSet(W \cup {x})
  BY <1>2, FS_AddElement
<1> QED BY <1>1, <1>3

LEMMA AppendedRun ==
  ASSUME CallType, NEW c \in Calls, NEW p \in Places, ran' = [ran EXCEPT ![c] = Append(@, p)]
  PROVE  /\ ran' \in [Calls -> Seq(Places)]
         /\ \A d \in Calls \ {c} : ran'[d] = ran[d]
         /\ ran'[c] # <<>> /\ Len(ran'[c]) = Len(ran[c]) + 1
         /\ \A n \in DOMAIN ran'[c] : n \in DOMAIN ran[c] \/ ran'[c][n] = p
         /\ \A n \in DOMAIN ran[c] : ran'[c][n] = ran[c][n]
<1> DEFINE s == ran[c]
<1>1. s \in Seq(Places)
  BY DEF CallType
<1>2. Append(s, p) \in Seq(Places) /\ ran'[c] = Append(s, p)
  BY <1>1 DEF CallType
<1>3. ran' \in [Calls -> Seq(Places)] /\ \A d \in Calls \ {c} : ran'[d] = ran[d]
  BY <1>2 DEF CallType
<1>4. /\ Append(s, p) # <<>> /\ Len(Append(s, p)) = Len(s) + 1
      /\ \A n \in DOMAIN Append(s, p) : n \in DOMAIN s \/ Append(s, p)[n] = p
      /\ \A n \in DOMAIN s : Append(s, p)[n] = s[n]
  BY <1>1
<1> QED BY <1>2, <1>3, <1>4

LEMMA TypeStep ==
  ASSUME TaskInv, CallType, [Next]_vars
  PROVE  TaskInv' /\ CallType' /\ Kept
<1>0. /\ runtime \in Binds \cup {Unset} /\ wire \subseteq Requested \cup Replied
      /\ IsFiniteSet(wire) /\ ran \in [Calls -> Seq(Places)]
  BY DEF CallType
<1>1. ASSUME UNCHANGED taskVars PROVE TaskInv' /\ Kept
  BY <1>1, TaskUnchanged
<1>2. ASSUME NEW c \in Calls, NEW p \in {"auto", "local", "remote"}, NEW later \in BOOLEAN,
             CallAgent(c, p, later)
      PROVE  TaskInv' /\ CallType' /\ Kept
  <2>1. PICK k \in Begun :
          /\ call' = [call EXCEPT ![c] = k] /\ k.at \in {"dialing", "local", "refused"}
          /\ k.at = "dialing" => Remote(k)
          /\ k.at = "local" => ~Remote(k)
          /\ wire' = wire \/ \E m \in Requested : wire' = wire \cup {m}
          /\ UNCHANGED <<ran, taskVars, listed, runtime>>
    BY <1>2, CallAgentDoes
  <2>2. wire' \subseteq Requested \cup Replied /\ IsFiniteSet(wire')
    BY <1>0, <2>1, PutOnWire DEF CallType
  <2>3. CallType'
    BY <1>0, <2>1, <2>2, CallTypeKept
  <2> QED BY <1>1, <2>1, <2>3
<1>3. ASSUME NEW c \in Calls, NEW state \in States, RunHere(c, state)
      PROVE  TaskInv' /\ CallType' /\ Kept
  <2>1. PICK k \in Ended :
          /\ call[c].at = "local" /\ Goes(c, k) /\ k.attempt = 1
          /\ ran' = [ran EXCEPT ![c] = Append(@, "here")]
          /\ UNCHANGED <<wire, taskVars, listed, runtime>>
    BY <1>3, RunHereDoes
  <2>2. ran' \in [Calls -> Seq(Places)]
    BY <2>1, AppendedRun DEF Places
  <2>3. k.at = "done"
    BY DEF Ended
  <2>4. CallType'
    BY <1>0, <2>1, <2>2, <2>3, CallTypeKept DEF Goes
  <2> QED BY <1>1, <2>1, <2>4
<1>4. ASSUME NEW c \in Calls, NEW m \in wire, Receive(c, m)
      PROVE  TaskInv' /\ CallType' /\ Kept
  <2>1. PICK k \in Ended :
          /\ call[c].at = "dialing" /\ Goes(c, k)
          /\ wire' = wire \ {m} /\ UNCHANGED <<ran, taskVars, listed, runtime>>
    BY <1>4, ReceiveDoes
  <2>2. k.at = "done" /\ Remote(k)
    BY <2>1 DEF Ended, Goes, CallType, Remote
  <2>3. wire' \subseteq Requested \cup Replied /\ IsFiniteSet(wire')
    BY <1>0, <2>1, FS_Subset
  <2>4. CallType'
    BY <1>0, <2>1, <2>2, <2>3, CallTypeKept DEF Goes
  <2> QED BY <1>1, <2>1, <2>4
<1>5. ASSUME NEW c \in Calls, Retry(c) \/ GiveUp(c)
      PROVE  TaskInv' /\ CallType' /\ Kept
  <2>1. \E k \in Begun :
          /\ call[c].at = "dialing" /\ Goes(c, k) /\ k.at \in {"dialing", "failed"}
          /\ wire' = wire \/ \E m \in Requested : wire' = wire \cup {m}
          /\ UNCHANGED <<ran, taskVars, listed, runtime>>
    BY <1>5, RetryDoes, GiveUpDoes
  <2>2. PICK k \in Begun :
          /\ call[c].at = "dialing" /\ Goes(c, k) /\ k.at \in {"dialing", "failed"}
          /\ wire' = wire \/ \E m \in Requested : wire' = wire \cup {m}
          /\ UNCHANGED <<ran, taskVars, listed, runtime>>
    BY <2>1
  <2>3. Remote(k)
    BY <2>2 DEF Goes, CallType, Remote
  <2>4. wire' \subseteq Requested \cup Replied /\ IsFiniteSet(wire')
    BY <1>0, <2>2, PutOnWire DEF CallType
  <2>5. CallType'
    BY <1>0, <2>2, <2>3, <2>4, CallTypeKept DEF Goes
  <2> QED BY <1>1, <2>2, <2>5
<1>6. ASSUME NEW e \in Entries, Heartbeat(e)
      PROVE  TaskInv' /\ CallType' /\ Kept
  <2>1. /\ runtime' = [mode |-> Or(e.mode, "remote"), transport |-> Or(e.transport, "http"),
                       endpoint |-> e.endpoint]
        /\ UNCHANGED <<listed, call, wire, ran, taskVars>>
    BY <1>6 DEF Heartbeat
  <2>2. runtime' \in Binds
    BY <2>1 DEF Or, Binds, Places
  <2>3. CallType'
    BY <1>0, <2>1, <2>2, CallTypeKept
  <2> QED BY <1>1, <2>1, <2>3
<1>7. ASSUME NEW w \in Workers, Stored(w)
      PROVE  TaskInv' /\ CallType' /\ Kept
  <2>1. /\ TaskInv' /\ Kept /\ UNCHANGED <<call, ran, listed, runtime>>
        /\ wire' = wire \/ \E a \in Replied : wire' = wire \cup {a}
    BY <1>7, StoredDoes
  <2>2. wire' \subseteq Requested \cup Replied /\ IsFiniteSet(wire')
    <3>1. ASSUME NEW a \in Replied, wire' = wire \cup {a}
          PROVE  wire' \subseteq Requested \cup Replied /\ IsFiniteSet(wire')
      BY ONLY CallType, <3>1, PutOnWire
    <3> QED BY <1>0, <2>1, <3>1
  <2> QED BY <1>0, <2>1, <2>2, CallTypeKept
<1>8. ASSUME NEW m \in wire, NEW state \in States, Execute(m, state)
      PROVE  TaskInv' /\ CallType' /\ Kept
  <2>1. /\ m \in Requested /\ ran' = [ran EXCEPT ![m.call] = Append(@, m.to)]
        /\ \E a \in Replied : wire' = (wire \ {m}) \cup {a}
        /\ UNCHANGED <<call, taskVars, listed, runtime>>
    BY <1>8, ExecuteDoes
  <2>2. m.call \in Calls /\ m.to \in Places
    BY <2>1 DEF Requested
  <2>4. wire' \subseteq Requested \cup Replied /\ IsFiniteSet(wire')
    <3>1. PICK a \in Replied : wire' = (wire \ {m}) \cup {a}
      BY <2>1
    <3>2. wire \ {m} \in SUBSET wire
      OBVIOUS
    <3> QED BY ONLY CallType, <3>1, <3>2, PutOnWire
  <2>5. CallType'
    BY <1>0, <2>1, <2>2, <2>4, AppendedRun, CallTypeKept
  <2> QED BY <1>1, <2>1, <2>5
<1>9. ASSUME NEW m \in wire, NEW w \in Workers, NEW t \in Tasks, Accept(m, w, t)
      PROVE  TaskInv' /\ CallType' /\ Kept
  <2>1. /\ m \in Requested /\ ran' = [ran EXCEPT ![m.call] = Append(@, m.to)]
        /\ wire' = wire \ {m} /\ UNCHANGED <<call, listed, runtime>>
        /\ TaskInv' /\ Kept
    BY <1>9, AcceptRuns
  <2>2. m.call \in Calls /\ m.to \in Places
    BY <2>1 DEF Requested
  <2>3. wire' \subseteq Requested \cup Replied /\ IsFiniteSet(wire')
    BY <1>0, <2>1, FS_Subset
  <2> QED BY <1>0, <2>1, <2>2, <2>3, AppendedRun, CallTypeKept
<1>10. ASSUME NEW m \in wire, Lose(m)
       PROVE  TaskInv' /\ CallType' /\ Kept
  <2>1. wire' = wire \ {m} /\ UNCHANGED <<call, ran, listed, runtime, taskVars>>
    BY <1>10 DEF Lose
  <2>2. wire' \subseteq Requested \cup Replied /\ IsFiniteSet(wire')
    BY <1>0, <2>1, FS_Subset
  <2>3. CallType'
    BY <1>0, <2>1, <2>2, CallTypeKept
  <2> QED BY <1>1, <2>1, <2>3
<1>11. CASE TaskStep
  <2>1. TaskInv' /\ Kept /\ UNCHANGED <<call, ran, wire, listed, runtime>>
    BY <1>11, TaskStepDoes DEF callVars
  <2> QED BY <1>0, <2>1, CallTypeKept
<1>12. CASE UNCHANGED vars
  <2>1. UNCHANGED <<call, ran, wire, listed, runtime>> /\ UNCHANGED taskVars
    BY <1>12 DEF vars, callVars
  <2>2. CallType'
    BY <1>0, <2>1, CallTypeKept
  <2> QED BY <1>1, <2>1, <2>2
<1> QED BY <1>2, <1>3, <1>4, <1>5, <1>6, <1>7, <1>8, <1>9, <1>10, <1>11, <1>12
        DEF Next, CallStep, PeerStep

LEMMA TypeInitial == Init => TaskInv /\ CallType /\ Recorded = {}
<1> SUFFICES ASSUME Init PROVE TaskInv /\ CallType /\ Recorded = {}
  OBVIOUS
<1>1. /\ listed \in Entries \cup {Unset} /\ runtime = Unset
      /\ call = [c \in Calls |-> [at |-> "new"]] /\ wire = {} /\ ran = [c \in Calls |-> <<>>]
  BY DEF Init
<1>2. \A c \in Calls : call[c].at = "new"
  BY <1>1
<1>3. <<>> \in Seq(Places) /\ IsFiniteSet({})
  BY FS_EmptySet
<1> QED BY <1>1, <1>2, <1>3, TaskInitial DEF CallType, Init

LEMMA TypeAlways == Spec => [](TaskInv /\ CallType)
<1>1. TaskInv /\ CallType /\ [Next]_vars => (TaskInv /\ CallType)'
  BY TypeStep
<1> QED BY <1>1, TypeInitial, PTL DEF Spec
-----------------------------------------------------------------------------
(* What a caller is told. *)

\* The pairs of a task, or none, and a call that may be told of it.
FoundTasks ==
  {x \in (Tasks \cup {Unset}) \X Calls :
     x[1] # Unset /\ durable /\ ~cleared => task[x[1]] # Unset /\ task[x[1]].call.of = x[2]}

Telling == {body \in Answers : Tells(body)}
Informed ==
  {k \in Ended :
     k.body.state.hitl # Unset /\ k.body.state.a2a = Unset
       /\ (k.body.enveloped \/ k.body.state.status = Unset)
     => \/ NeedsContinue(k.status)
        \/ k.later /\ k.body.state.held /\ k.status = "running" /\ ~Remote(k)}

\* An answer on its way tells the truth, and so does the envelope a caller holds.
AnswerInv ==
  /\ \A m \in wire : m.kind = "answer" =>
       m.body \in Telling /\ <<m.body.task, m.call>> \in FoundTasks
  /\ \A c \in Calls : call[c].at = "done" =>
       call[c] \in Informed /\ <<call[c].body.task, c>> \in FoundTasks

LEMMA NoTaskIsFound ==
  ASSUME NEW c \in Calls PROVE <<Unset, c>> \in FoundTasks /\ <<Unset, c>> \in FoundTasks'
BY DEF FoundTasks

LEMMA FoundStays == ASSUME TaskInv, Kept PROVE FoundTasks \subseteq FoundTasks'
<1> SUFFICES ASSUME NEW x \in FoundTasks PROVE x \in FoundTasks'
  OBVIOUS
<1>1. x \in (Tasks \cup {Unset}) \X Calls
  BY DEF FoundTasks
<1>2. ASSUME x[1] # Unset, durable', ~cleared'
      PROVE  task'[x[1]] # Unset /\ task'[x[1]].call.of = x[2]
  <2>1. durable /\ ~cleared /\ x[1] \in Tasks
    BY <1>1, <1>2 DEF Kept
  <2>2. task[x[1]] # Unset /\ task[x[1]].call.of = x[2]
    BY <1>2, <2>1 DEF FoundTasks
  <2> QED BY <1>2, <2>1, <2>2 DEF Kept
<1> QED BY <1>1, <1>2 DEF FoundTasks

\* New answers and ended calls that tell the truth keep the others true.
LEMMA AnswerKept ==
  ASSUME AnswerInv, TaskInv, Kept,
         \A m \in wire' : \/ m \in wire \/ m.kind = "request"
                          \/ m.body \in Telling /\ <<m.body.task, m.call>> \in FoundTasks',
         \A c \in Calls : \/ call'[c] = call[c] \/ call'[c].at # "done"
                          \/ call'[c] \in Informed /\ <<call'[c].body.task, c>> \in FoundTasks'
  PROVE  AnswerInv'
<1>1. FoundTasks \subseteq FoundTasks'
  BY FoundStays
<1>2. ASSUME NEW m \in wire', m.kind = "answer"
      PROVE  m.body \in Telling /\ <<m.body.task, m.call>> \in FoundTasks'
  BY <1>1, <1>2 DEF AnswerInv
<1>3. ASSUME NEW c \in Calls, call'[c].at = "done"
      PROVE  call'[c] \in Informed /\ <<call'[c].body.task, c>> \in FoundTasks'
  BY <1>1, <1>3 DEF AnswerInv
<1> QED BY <1>2, <1>3 DEF AnswerInv

\* No answer is sent.
OnlyAsks == \A m \in wire' : m \in wire \/ m.kind = "request"

\* A step of one call that leaves the answers under way alone.
LEMMA AnswerGoes ==
  ASSUME AnswerInv, TaskInv, CallType, Kept, NEW c \in Calls, NEW k \in Begun \cup Ended,
         call' = [call EXCEPT ![c] = k],
         k.at = "done" => k \in Informed /\ <<k.body.task, c>> \in FoundTasks',
         OnlyAsks
  PROVE  AnswerInv'
<1>1. call'[c] = k /\ \A d \in Calls \ {c} : call'[d] = call[d]
  BY GoesOn
<1>3. \A d \in Calls : \/ call'[d] = call[d] \/ call'[d].at # "done"
                       \/ call'[d] \in Informed /\ <<call'[d].body.task, d>> \in FoundTasks'
  BY <1>1
<1> QED BY <1>3, AnswerKept DEF OnlyAsks

LEMMA AnswerStep ==
  ASSUME TaskInv, CallType, AnswerInv, [Next]_vars
  PROVE  AnswerInv'
<1>0. Kept /\ TaskInv' /\ CallType'
  BY TypeStep
<1>1. \A m \in Requested : m.kind = "request"
  BY DEF Requested
<1>2. ASSUME NEW c \in Calls, NEW p \in {"auto", "local", "remote"}, NEW later \in BOOLEAN,
             CallAgent(c, p, later)
      PROVE  AnswerInv'
  <2>1. PICK k \in Begun :
          /\ call' = [call EXCEPT ![c] = k]
          /\ wire' = wire \/ \E m \in Requested : wire' = wire \cup {m}
    BY <1>2, CallAgentDoes
  <2>2. OnlyAsks
    BY <1>1, <2>1 DEF OnlyAsks
  <2>3. k.at # "done"
    BY DEF Begun
  <2> QED BY <1>0, <2>1, <2>2, <2>3, AnswerGoes
<1>3. ASSUME NEW c \in Calls, NEW state \in States, RunHere(c, state)
      PROVE  AnswerInv'
  <2>1. PICK k \in Ended :
          /\ call[c].at = "local" /\ Goes(c, k)
          /\ k.status = EnvelopeStatus(StatusHere(k.later, state), state)
          /\ k.body.state = state /\ k.body.task = Unset /\ UNCHANGED wire
    BY <1>3, RunHereDoes
  <2>2. state.hitl # Unset /\ state.a2a = Unset =>
          IF k.later /\ state.held THEN k.status = "running" ELSE k.status = "input_needed"
    BY <2>1, UnsetAssumption DEF EnvelopeStatus, NormalizeStatus, StatusHere, States
  <2>6. ~Remote(k)
    BY <2>1 DEF CallType, Goes, Remote
  <2>3. k \in Informed
    BY <2>1, <2>2, <2>6, UnsetAssumption DEF Informed, NeedsContinue, NormalizeStatus
  <2>4. <<k.body.task, c>> \in FoundTasks'
    BY <2>1, NoTaskIsFound
  <2>5. OnlyAsks
    BY <2>1 DEF OnlyAsks
  <2> QED BY <1>0, <2>1, <2>3, <2>4, <2>5, AnswerGoes DEF Goes
<1>4. ASSUME NEW c \in Calls, NEW m \in wire, Receive(c, m)
      PROVE  AnswerInv'
  <2>1. PICK k \in Ended :
          /\ Goes(c, k) /\ m.kind = "answer" /\ m.call = c
          /\ k.body = m.body /\ k.status = ParseStatus(m.body) /\ wire' = wire \ {m}
    BY <1>4, ReceiveDoes
  <2>2. m.body \in Telling /\ <<k.body.task, c>> \in FoundTasks
    BY <2>1 DEF AnswerInv
  <2>3. k \in Informed
    BY <2>1, <2>2 DEF Telling, Tells, Informed
  <2>4. <<k.body.task, c>> \in FoundTasks'
    BY <1>0, <2>2, FoundStays
  <2>5. OnlyAsks
    BY <2>1 DEF OnlyAsks
  <2> QED BY <1>0, <2>1, <2>3, <2>4, <2>5, AnswerGoes DEF Goes
<1>5. ASSUME NEW c \in Calls, Retry(c) \/ GiveUp(c)
      PROVE  AnswerInv'
  <2>1. \E k \in Begun : /\ Goes(c, k)
                         /\ wire' = wire \/ \E m \in Requested : wire' = wire \cup {m}
    BY <1>5, RetryDoes, GiveUpDoes
  <2>2. PICK k \in Begun : /\ Goes(c, k)
                           /\ wire' = wire \/ \E m \in Requested : wire' = wire \cup {m}
    BY <2>1
  <2>3. OnlyAsks
    BY <1>1, <2>2 DEF OnlyAsks
  <2>4. k.at # "done"
    BY DEF Begun
  <2> QED BY <1>0, <2>2, <2>3, <2>4, AnswerGoes DEF Goes
<1>6. ASSUME NEW w \in Workers, Stored(w)
      PROVE  AnswerInv'
  <2>1. /\ UNCHANGED call
        /\ wire' = wire \/ \E a \in Replied :
             /\ a.body \in Telling /\ <<a.body.task, a.call>> \in FoundTasks'
             /\ wire' = wire \cup {a}
    BY <1>6, StoredDoes DEF Replied, Telling, FoundTasks
  <2> QED BY <1>0, <2>1, AnswerKept
<1>7. ASSUME NEW m \in wire, NEW state \in States, Execute(m, state)
      PROVE  AnswerInv'
  <2>1. /\ UNCHANGED call
        /\ \E a \in Replied : /\ a.call = m.call /\ a.body.task = Unset /\ Tells(a.body)
                              /\ wire' = (wire \ {m}) \cup {a}
    BY <1>7, ExecuteDoes
  <2>2. PICK a \in Replied : /\ a.body.task = Unset /\ Tells(a.body)
                             /\ wire' = (wire \ {m}) \cup {a}
    BY <2>1
  <2>3. a.body \in Telling /\ <<a.body.task, a.call>> \in FoundTasks'
    BY <2>2, NoTaskIsFound DEF Telling, Replied
  <2> QED BY <1>0, <2>1, <2>2, <2>3, AnswerKept
<1>8. ASSUME NEW m \in wire, NEW w \in Workers, NEW t \in Tasks, Accept(m, w, t)
      PROVE  AnswerInv'
  <2>1. UNCHANGED call /\ wire' = wire \ {m}
    BY <1>8, AcceptRuns
  <2> QED BY <1>0, <2>1, AnswerKept
<1>9. ASSUME NEW m \in wire, Lose(m)
      PROVE  AnswerInv'
  <2>1. UNCHANGED call /\ wire' = wire \ {m}
    BY <1>9 DEF Lose
  <2> QED BY <1>0, <2>1, AnswerKept
<1>10. ASSUME UNCHANGED <<call, wire>>
       PROVE  AnswerInv'
  BY <1>0, <1>10, AnswerKept
<1>11. ASSUME NEW e \in Entries, Heartbeat(e)
       PROVE  AnswerInv'
  BY <1>10, <1>11 DEF Heartbeat
<1>12. CASE TaskStep
  BY <1>10, <1>12 DEF TaskStep, callVars
<1>13. CASE UNCHANGED vars
  BY <1>10, <1>13 DEF vars, callVars
<1> QED BY <1>2, <1>3, <1>4, <1>5, <1>6, <1>7, <1>8, <1>9, <1>11, <1>12, <1>13
        DEF Next, CallStep, PeerStep

LEMMA AnswerAlways == Spec => []AnswerInv
<1>1. Init => AnswerInv
  <2>1. Init => wire = {} /\ \A c \in Calls : call[c].at = "new"
    BY DEF Init
  <2> QED BY <2>1 DEF AnswerInv
<1>2. TaskInv /\ CallType /\ AnswerInv /\ [Next]_vars => AnswerInv'
  BY AnswerStep
<1> QED BY <1>1, <1>2, TypeAlways, PTL DEF Spec

\* Whatever the network delays or loses, a caller that holds the answer of a run that
\* waits for a person is told to continue, unless the run was here, with async_accept, and
\* left a task_id in its state (parse_call_envelope, needs_continue, call_agent).
THEOREM PauseIsReportedCorrect == Spec => []PauseIsReported
<1>1. CallType /\ AnswerInv => PauseIsReported
  BY DEF AnswerInv, Informed, PauseIsReported, Remote
<1> QED BY <1>1, TypeAlways, AnswerAlways, PTL

\* No crash, update or moment of a file replace takes a task away that a caller was
\* given the id of (FileTaskStore, accept_task, update_task).
THEOREM AcceptedTaskIsFoundCorrect == Spec => []AcceptedTaskIsFound
<1>1. TaskInv /\ AnswerInv => AcceptedTaskIsFound
  <2> SUFFICES ASSUME TaskInv, AnswerInv, durable, ~cleared, NEW c \in Calls,
                      call[c].at = "done", call[c].body.task # Unset
               PROVE  /\ GetTask(call[c].body.task) # Unset
                      /\ GetTask(call[c].body.task).call.of = c
    BY DEF AcceptedTaskIsFound
  <2> DEFINE t == call[c].body.task
  <2>1. <<t, c>> \in FoundTasks /\ t # Unset
    BY DEF AnswerInv
  <2> HIDE DEF t
  <2>2. t \in Tasks /\ task[t] # Unset /\ task[t].call.of = c
    BY <2>1 DEF FoundTasks
  <2>3. GetTask(t) = task[t]
    BY <2>2, UnsetAssumption DEF GetTask, TaskInv, TaskType
  <2> QED BY <2>2, <2>3 DEF t
<1> QED BY <1>1, TypeAlways, AnswerAlways, PTL
-----------------------------------------------------------------------------
(* Where a call runs, and how often. *)

Goal(k) == IF Remote(k) THEN k.binding.endpoint ELSE "here"
Requests(c) == {m \in wire : m.kind = "request" /\ m.call = c}

\* A run takes a request off the wire, an attempt puts one on it.
Budget(c) == IF call[c].at \in {"new", "refused", "local"} THEN 0 ELSE call[c].attempt
Fits(c) == Len(ran[c]) + Cardinality(Requests(c)) <= Budget(c)

Aims(c) ==
  call[c].at \notin {"new", "refused"} =>
    /\ \A n \in DOMAIN ran[c] : ran[c][n] = Goal(call[c])
    /\ \A m \in Requests(c) : m.to = Goal(call[c])

Run == {c \in Calls : ran[c] # <<>>}

\* What is answered, recorded or done has been run.
RanInv ==
  /\ \A m \in wire : m.kind = "answer" => m.call \in Run
  /\ Recorded \subseteq Run
  /\ \A c \in Calls : call[c].at = "done" => c \in Run

OutInv == (\A c \in Calls : Fits(c) /\ Aims(c)) /\ RanInv

LEMMA RequestsCount ==
  ASSUME CallType, NEW c \in Calls
  PROVE  /\ IsFiniteSet(Requests(c)) /\ Cardinality(Requests(c)) \in Nat
         /\ Len(ran[c]) \in Nat /\ (Len(ran[c]) = 0 <=> ran[c] = <<>>)
<1>1. IsFiniteSet(wire) /\ Requests(c) \subseteq wire /\ ran[c] \in Seq(Places)
  BY DEF CallType, Requests
<1>2. IsFiniteSet(Requests(c))
  BY <1>1, FS_Subset
<1> QED BY <1>1, <1>2, FS_CardinalityType

\* Nothing but a request of c is new, and no run of another call.
Elsewhere(c) ==
  /\ \A d \in Calls \ {c} : call'[d] = call[d] /\ ran'[d] = ran[d]
  /\ \A m \in wire' : \/ m \in wire
                      \/ m.kind = "request" /\ m.call = c
                      \/ m.kind = "answer" /\ m.call \in Run'
  /\ Run \subseteq Run' /\ Recorded' \subseteq Run'

LEMMA OtherKept ==
  ASSUME CallType, NEW d \in Calls, call'[d] = call[d], ran'[d] = ran[d],
         Requests(d)' \subseteq Requests(d), Fits(d), Aims(d)
  PROVE  Fits(d)' /\ Aims(d)'
<1>1. Cardinality(Requests(d)') <= Cardinality(Requests(d)) /\ Cardinality(Requests(d)') \in Nat
  <2>1. IsFiniteSet(Requests(d)) /\ IsFiniteSet(Requests(d)')
    BY RequestsCount, FS_Subset
  <2> QED BY <2>1, FS_Subset, FS_CardinalityType
<1>2. Fits(d)'
  <2>1. Budget(d)' = Budget(d) /\ Len(ran'[d]) = Len(ran[d])
    BY DEF Budget
  <2>2. Budget(d) \in Nat
    <3>1. call[d].at \in {"new", "refused", "local"} \/ call[d] \in Begun \cup Ended
      BY CallIsTyped
    <3> QED BY <3>1, AttemptsAssumption DEF Budget, Begun, Ended
  <2>3. Cardinality(Requests(d)) \in Nat /\ Len(ran[d]) \in Nat
    BY RequestsCount
  <2> QED BY <1>1, <2>1, <2>2, <2>3 DEF Fits
<1>3. Aims(d)'
  BY DEF Aims, Goal, Remote, Dialable, IsRemote
<1> QED BY <1>2, <1>3

LEMMA OutKept ==
  ASSUME CallType, OutInv, NEW c \in Calls, Elsewhere(c), Fits(c)', Aims(c)',
         call'[c].at = "done" => c \in Run'
  PROVE  OutInv'
<1>1. ASSUME NEW d \in Calls PROVE Fits(d)' /\ Aims(d)'
  <2>1. CASE d = c
    BY <2>1
  <2>2. CASE d # c
    <3>1. call'[d] = call[d] /\ ran'[d] = ran[d] /\ Requests(d)' \subseteq Requests(d)
      BY <2>2 DEF Elsewhere, Requests
    <3> QED BY <3>1, OtherKept DEF OutInv
  <2> QED BY <2>1, <2>2
<1>2. RanInv'
  <2>1. \A m \in wire' : m.kind = "answer" => m.call \in Run'
    BY DEF Elsewhere, OutInv, RanInv
  <2>2. \A d \in Calls : call'[d].at = "done" => d \in Run'
    BY DEF Elsewhere, OutInv, RanInv
  <2> QED BY <2>1, <2>2 DEF Elsewhere, RanInv
<1> QED BY <1>1, <1>2 DEF OutInv

\* Steps of the peer's tasks and of the network between two runs.
LEMMA OutSame ==
  ASSUME CallType, OutInv, UNCHANGED <<call, ran>>, Recorded' \subseteq Recorded,
         \A m \in wire' : m \in wire \/ (m.kind = "answer" /\ m.call \in Recorded)
  PROVE  OutInv'
<1>1. Run' = Run
  BY DEF Run
<1>2. RanInv'
  BY <1>1 DEF OutInv, RanInv
<1>3. ASSUME NEW c \in Calls PROVE Fits(c)' /\ Aims(c)'
  <2>1. Requests(c)' \subseteq Requests(c)
    BY DEF Requests
  <2> QED BY <2>1, OtherKept DEF OutInv
<1> QED BY <1>2, <1>3 DEF OutInv

LEMMA FewerRequests ==
  ASSUME CallType, NEW c \in Calls, Requests(c)' \subseteq Requests(c)
  PROVE  /\ Cardinality(Requests(c)') \in Nat
         /\ Cardinality(Requests(c)') <= Cardinality(Requests(c))
<1>1. IsFiniteSet(Requests(c)) /\ IsFiniteSet(Requests(c)')
  BY RequestsCount, FS_Subset
<1> QED BY <1>1, FS_Subset, FS_CardinalityType

LEMMA OneRequestMore ==
  ASSUME CallType, NEW c \in Calls, NEW m, wire' = wire \/ wire' = wire \cup {m}
  PROVE  /\ Cardinality(Requests(c)') \in Nat
         /\ Cardinality(Requests(c)') <= Cardinality(Requests(c)) + 1
<1> DEFINE R == Requests(c) \cup {m}
<1>1. IsFiniteSet(Requests(c)) /\ Cardinality(Requests(c)) \in Nat
  BY RequestsCount
<1>2. IsFiniteSet(R) /\ Cardinality(R) \in Nat /\ Cardinality(R) <= Cardinality(Requests(c)) + 1
  <2>1. /\ IsFiniteSet(R)
        /\ Cardinality(R) = IF m \in Requests(c) THEN Cardinality(Requests(c))
                            ELSE Cardinality(Requests(c)) + 1
    BY <1>1, FS_AddElement
  <2> QED BY <1>1, <2>1
<1>3. Requests(c)' \subseteq R
  BY DEF Requests
<1> HIDE DEF R
<1>4. IsFiniteSet(Requests(c)') /\ Cardinality(Requests(c)') <= Cardinality(R)
  BY <1>2, <1>3, FS_Subset
<1>5. Cardinality(Requests(c)') \in Nat
  BY <1>4, FS_CardinalityType
<1> QED BY <1>1, <1>2, <1>4, <1>5

LEMMA OneRequestLess ==
  ASSUME CallType, NEW c \in Calls, NEW m \in Requests(c),
         Requests(c)' \subseteq Requests(c) \ {m}
  PROVE  /\ Cardinality(Requests(c)') \in Nat
         /\ Cardinality(Requests(c)') <= Cardinality(Requests(c)) - 1
<1> DEFINE R == Requests(c) \ {m}
<1>1. IsFiniteSet(Requests(c))
  BY RequestsCount
<1>2. IsFiniteSet(R) /\ Cardinality(R) = Cardinality(Requests(c)) - 1
  BY <1>1, FS_RemoveElement
<1> HIDE DEF R
<1>3. IsFiniteSet(Requests(c)') /\ Cardinality(Requests(c)') <= Cardinality(R)
  BY <1>2, FS_Subset DEF R
<1>4. Cardinality(Requests(c)') \in Nat
  BY <1>3, FS_CardinalityType
<1> QED BY <1>2, <1>3, <1>4

\* A call that has not been dialed has neither run nor been asked for.
LEMMA NothingYet ==
  ASSUME CallType, OutInv, NEW c \in Calls, call[c].at \in {"new", "refused", "local"}
  PROVE  ran[c] = <<>> /\ Requests(c) = {} /\ Cardinality(Requests(c)) = 0 /\ Len(ran[c]) = 0
<1>1. Budget(c) = 0 /\ Fits(c)
  BY DEF Budget, OutInv
<1>2. /\ Cardinality(Requests(c)) \in Nat /\ Len(ran[c]) \in Nat
      /\ (Len(ran[c]) = 0 <=> ran[c] = <<>>) /\ IsFiniteSet(Requests(c))
  BY RequestsCount
<1>3. Cardinality(Requests(c)) = 0 /\ Len(ran[c]) = 0
  BY <1>1, <1>2 DEF Fits
<1> QED BY <1>2, <1>3, FS_EmptySet

LEMMA CallAgentOut ==
  ASSUME TaskInv, CallType, OutInv, NEW c \in Calls, NEW p \in {"auto", "local", "remote"},
         NEW later \in BOOLEAN, CallAgent(c, p, later)
  PROVE  OutInv'
<1>1. PICK k \in Begun :
        /\ call[c].at = "new" /\ call' = [call EXCEPT ![c] = k] /\ k.attempt = 1
        /\ k.at \in {"dialing", "local", "refused"}
        /\ k.at = "dialing" => Remote(k)
        /\ IF k.at = "dialing"
           THEN \E m \in Requested : m.call = c /\ m.to = k.binding.endpoint
                                     /\ wire' = wire \cup {m}
           ELSE wire' = wire
        /\ UNCHANGED <<ran, taskVars>>
  BY CallAgentDoes
<1>2. call'[c] = k /\ \A d \in Calls \ {c} : call'[d] = call[d]
  BY <1>1, GoesOn
<1>3. ran[c] = <<>> /\ Requests(c) = {} /\ Cardinality(Requests(c)) = 0 /\ Len(ran[c]) = 0
  BY <1>1, NothingYet
<1>4. Run' = Run /\ Recorded' = Recorded
  BY <1>1, TaskUnchanged DEF Run
<1>5. CASE k.at = "dialing"
  <2>1. PICK m \in Requested : m.call = c /\ m.to = k.binding.endpoint /\ wire' = wire \cup {m}
    BY <1>1, <1>5
  <2>2. m.kind = "request"
    BY DEF Requested
  <2>3. Elsewhere(c)
    BY <1>1, <1>2, <1>4, <2>1, <2>2 DEF Elsewhere, OutInv, RanInv
  <2>4. Cardinality(Requests(c)') \in Nat /\ Cardinality(Requests(c)') <= 1
    <3>1. /\ Cardinality(Requests(c)') \in Nat
          /\ Cardinality(Requests(c)') <= Cardinality(Requests(c)) + 1
      BY <2>1, OneRequestMore
    <3> QED BY <1>3, <3>1
  <2>5. Fits(c)'
    BY <1>1, <1>2, <1>3, <1>5, <2>4 DEF Fits, Budget
  <2>6. Requests(c)' \subseteq {m}
    BY <1>3, <2>1 DEF Requests
  <2>7. Aims(c)'
    BY <1>1, <1>2, <1>3, <1>5, <2>1, <2>6 DEF Aims, Goal, Remote, Dialable, IsRemote
  <2> QED BY <1>2, <1>5, <2>3, <2>5, <2>7, OutKept
<1>6. CASE k.at # "dialing"
  <2>1. wire' = wire /\ Requests(c)' = Requests(c)
    BY <1>1, <1>6 DEF Requests
  <2>2. Elsewhere(c)
    BY <1>1, <1>2, <1>4, <2>1 DEF Elsewhere, OutInv, RanInv
  <2>3. Fits(c)'
    BY <1>1, <1>2, <1>3, <1>6, <2>1 DEF Fits, Budget
  <2>4. Aims(c)'
    BY <1>1, <1>2, <1>3, <2>1 DEF Aims
  <2> QED BY <1>1, <1>2, <2>2, <2>3, <2>4, OutKept
<1> QED BY <1>5, <1>6

LEMMA RunHereOut ==
  ASSUME TaskInv, CallType, OutInv, NEW c \in Calls, NEW state \in States, RunHere(c, state)
  PROVE  OutInv'
<1>1. PICK k \in Ended :
        /\ call[c].at = "local" /\ Goes(c, k) /\ k.attempt = 1
        /\ ran' = [ran EXCEPT ![c] = Append(@, "here")]
        /\ UNCHANGED <<wire, taskVars>>
  BY RunHereDoes
<1>2. call'[c] = k /\ k.at = "done" /\ \A d \in Calls \ {c} : call'[d] = call[d]
  BY <1>1, GoesOn DEF Goes, Ended
<1>3. ran[c] = <<>> /\ Requests(c) = {} /\ Cardinality(Requests(c)) = 0 /\ Len(ran[c]) = 0
  BY <1>1, NothingYet
<1>4. /\ \A d \in Calls \ {c} : ran'[d] = ran[d]
      /\ ran'[c] # <<>> /\ Len(ran'[c]) = 1
      /\ \A n \in DOMAIN ran'[c] : ran'[c][n] = "here"
  <2>1. /\ \A d \in Calls \ {c} : ran'[d] = ran[d]
        /\ ran'[c] # <<>> /\ Len(ran'[c]) = Len(ran[c]) + 1
        /\ \A n \in DOMAIN ran'[c] : n \in DOMAIN ran[c] \/ ran'[c][n] = "here"
    <3>1. "here" \in Places
      BY DEF Places
    <3> QED BY <1>1, <3>1, AppendedRun
  <2>2. DOMAIN ran[c] = {}
    BY <1>3
  <2> QED BY <1>3, <2>1, <2>2
<1>5. Requests(c)' = Requests(c) /\ wire' = wire /\ Recorded' = Recorded
  BY <1>1, TaskUnchanged DEF Requests
<1>6. Run \subseteq Run' /\ c \in Run'
  BY <1>4 DEF Run
<1>7. Elsewhere(c)
  BY <1>2, <1>4, <1>5, <1>6 DEF Elsewhere, OutInv, RanInv
<1>8. Fits(c)'
  BY <1>1, <1>2, <1>3, <1>4, <1>5 DEF Fits, Budget
<1>9. Aims(c)'
  <2>1. ~Remote(k)
    BY <1>1 DEF CallType, Goes, Remote
  <2>2. Goal(k) = "here"
    BY <2>1 DEF Goal
  <2> QED BY <1>2, <1>3, <1>4, <1>5, <2>2 DEF Aims, Goal, Remote, Dialable, IsRemote
<1> QED BY <1>6, <1>7, <1>8, <1>9, OutKept

LEMMA ReceiveOut ==
  ASSUME TaskInv, CallType, OutInv, NEW c \in Calls, NEW m \in wire, Receive(c, m)
  PROVE  OutInv'
<1>1. PICK k \in Ended :
        /\ call[c].at = "dialing" /\ Goes(c, k) /\ k.attempt = call[c].attempt
        /\ m.kind = "answer" /\ m.call = c
        /\ wire' = wire \ {m} /\ UNCHANGED <<ran, taskVars>>
  BY ReceiveDoes
<1>2. call'[c] = k /\ k.at = "done" /\ \A d \in Calls \ {c} : call'[d] = call[d]
  BY <1>1, GoesOn DEF Goes, Ended
<1>3. Requests(c)' = Requests(c) /\ wire' \subseteq wire /\ Recorded' = Recorded /\ Run' = Run
  BY <1>1, TaskUnchanged DEF Requests, Run
<1>4. c \in Run'
  BY <1>1, <1>3 DEF OutInv, RanInv
<1>5. Elsewhere(c)
  BY <1>1, <1>2, <1>3 DEF Elsewhere, OutInv, RanInv
<1>6. Fits(c) /\ Aims(c)
  BY DEF OutInv
<1>7. Fits(c)'
  BY <1>1, <1>2, <1>3, <1>6 DEF Fits, Budget
<1>8. Aims(c)'
  <2>1. Goal(k) = Goal(call[c])
    BY <1>1 DEF Goes, Goal, Remote
  <2> QED BY <1>1, <1>2, <1>3, <1>6, <2>1 DEF Aims, Goal, Remote, Dialable, IsRemote
<1> QED BY <1>4, <1>5, <1>7, <1>8, OutKept

LEMMA RetryOut ==
  ASSUME TaskInv, CallType, OutInv, NEW c \in Calls, Retry(c)
  PROVE  OutInv'
<1>1. PICK k \in Begun, m \in Requested :
        /\ call[c].at = "dialing" /\ Goes(c, k) /\ k.at = "dialing"
        /\ k.attempt = call[c].attempt + 1
        /\ m.call = c /\ m.to = call[c].binding.endpoint
        /\ wire' = wire \cup {m} /\ UNCHANGED <<ran, taskVars>>
  BY RetryDoes
<1>2. call'[c] = k /\ \A d \in Calls \ {c} : call'[d] = call[d]
  BY <1>1, GoesOn DEF Goes
<1>3. m.kind = "request" /\ Recorded' = Recorded /\ Run' = Run
  BY <1>1, TaskUnchanged DEF Requested, Run
<1>4. Elsewhere(c)
  BY <1>1, <1>2, <1>3 DEF Elsewhere, OutInv, RanInv
<1>5. Fits(c) /\ Aims(c)
  BY DEF OutInv
<1>6. Fits(c)'
  <2>1. /\ Cardinality(Requests(c)') \in Nat
        /\ Cardinality(Requests(c)') <= Cardinality(Requests(c)) + 1
    BY <1>1, OneRequestMore
  <2>2. Len(ran[c]) + Cardinality(Requests(c)) <= call[c].attempt
    BY <1>1, <1>5 DEF Fits, Budget
  <2>3. Cardinality(Requests(c)) \in Nat /\ Len(ran[c]) \in Nat /\ call[c].attempt \in Nat
    <3>1. call[c] \in Begun
      BY <1>1, CallIsTyped
    <3> QED BY <3>1, RequestsCount DEF Begun
  <2>4. Len(ran[c]) + Cardinality(Requests(c)') <= k.attempt
    BY <1>1, <2>1, <2>2, <2>3
  <2> QED BY <1>1, <1>2, <2>4 DEF Fits, Budget
<1>7. Aims(c)'
  <2>1. Remote(call[c]) /\ Goal(k) = Goal(call[c]) /\ m.to = Goal(call[c])
    BY <1>1 DEF CallType, Goes, Goal, Remote
  <2>2. Requests(c)' \subseteq Requests(c) \cup {m}
    BY <1>1 DEF Requests
  <2>3. ran'[c] = ran[c]
    BY <1>1
  <2>4. /\ \A n \in DOMAIN ran'[c] : ran'[c][n] = Goal(k)
        /\ \A x \in Requests(c)' : x.to = Goal(k)
    BY <1>1, <1>5, <2>1, <2>2, <2>3 DEF Aims
  <2> QED BY <1>2, <2>4 DEF Aims, Goal, Remote, Dialable, IsRemote
<1>8. call'[c].at # "done"
  BY <1>1, <1>2
<1> QED BY <1>4, <1>6, <1>7, <1>8, OutKept

LEMMA GiveUpOut ==
  ASSUME TaskInv, CallType, OutInv, NEW c \in Calls, GiveUp(c)
  PROVE  OutInv'
<1>1. PICK k \in Begun :
        /\ call[c].at = "dialing" /\ Goes(c, k) /\ k.at = "failed"
        /\ k.attempt = call[c].attempt /\ UNCHANGED <<wire, ran, taskVars>>
  BY GiveUpDoes
<1>2. call'[c] = k /\ \A d \in Calls \ {c} : call'[d] = call[d]
  BY <1>1, GoesOn DEF Goes
<1>3. Requests(c)' = Requests(c) /\ Recorded' = Recorded /\ Run' = Run
  BY <1>1, TaskUnchanged DEF Requests, Run
<1>4. Elsewhere(c)
  BY <1>1, <1>2, <1>3 DEF Elsewhere, OutInv, RanInv
<1>5. Fits(c) /\ Aims(c)
  BY DEF OutInv
<1>6. Fits(c)'
  BY <1>1, <1>2, <1>3, <1>5 DEF Fits, Budget
<1>7. Aims(c)'
  <2>1. Goal(k) = Goal(call[c])
    BY <1>1 DEF Goes, Goal, Remote
  <2> QED BY <1>1, <1>2, <1>3, <1>5, <2>1 DEF Aims, Goal, Remote, Dialable, IsRemote
<1>8. call'[c].at # "done"
  BY <1>1, <1>2
<1> QED BY <1>4, <1>6, <1>7, <1>8, OutKept

\* The peer takes a request off the wire and runs the agent.
LEMMA PeerOut ==
  ASSUME CallType, OutInv, NEW m \in wire, m \in Requested, m.kind = "request",
         ran' = [ran EXCEPT ![m.call] = Append(@, m.to)], UNCHANGED call,
         \/ wire' = wire \ {m}
         \/ \E a \in Replied : a.call = m.call /\ wire' = (wire \ {m}) \cup {a},
         Recorded' \subseteq Recorded \cup {m.call}
  PROVE  OutInv'
<1> DEFINE c == m.call
<1>1. c \in Calls /\ m.to \in Places /\ m \in Requests(c)
  BY DEF Requested, Requests
<1>2. /\ \A d \in Calls \ {c} : ran'[d] = ran[d]
      /\ ran'[c] # <<>> /\ Len(ran'[c]) = Len(ran[c]) + 1
      /\ \A n \in DOMAIN ran'[c] : n \in DOMAIN ran[c] \/ ran'[c][n] = m.to
  <2>1. ran' = [ran EXCEPT ![c] = Append(@, m.to)]
    OBVIOUS
  <2> HIDE DEF c
  <2> QED BY ONLY ZenonT(40), <1>1, <2>1, CallType, AppendedRun
<1>3. \A a \in Replied : a.kind = "answer"
  BY DEF Replied
<1>4. Requests(c)' \subseteq Requests(c) \ {m}
  BY <1>3 DEF Requests
<1> HIDE DEF c
<1>5. Run \subseteq Run' /\ c \in Run'
  BY <1>1, <1>2 DEF Run
<1>6. Elsewhere(c)
  <2>1. \A d \in Calls \ {c} : call'[d] = call[d] /\ ran'[d] = ran[d]
    BY <1>2
  <2>2. \A x \in wire' : x \in wire \/ (x.kind = "answer" /\ x.call \in Run')
    BY <1>3, <1>5 DEF c
  <2>3. Recorded' \subseteq Run'
    BY <1>5 DEF OutInv, RanInv, c
  <2> QED BY <1>5, <2>1, <2>2, <2>3 DEF Elsewhere
<1>7. Fits(c) /\ Aims(c) /\ call[c].at \notin {"new", "refused", "local"}
  BY <1>1, NothingYet DEF OutInv
<1>8. Fits(c)'
  <2>1. /\ Cardinality(Requests(c)') \in Nat
        /\ Cardinality(Requests(c)') <= Cardinality(Requests(c)) - 1
    BY <1>1, <1>4, OneRequestLess
  <2>2. Cardinality(Requests(c)) \in Nat /\ Len(ran[c]) \in Nat
    BY <1>1, RequestsCount
  <2>3. call[c].attempt \in Nat
    <3>1. call[c] \in Begun \cup Ended
      BY <1>1, <1>7, CallIsTyped
    <3> QED BY <3>1 DEF Begun, Ended
  <2>4. Len(ran[c]) + Cardinality(Requests(c)) <= call[c].attempt
    BY <1>7 DEF Fits, Budget
  <2>5. Len(ran'[c]) + Cardinality(Requests(c)') <= call[c].attempt
    BY <1>2, <2>1, <2>2, <2>3, <2>4
  <2> QED BY <1>7, <2>5 DEF Fits, Budget
<1>9. Aims(c)'
  <2>1. /\ \A n \in DOMAIN ran[c] : ran[c][n] = Goal(call[c])
        /\ \A x \in Requests(c) : x.to = Goal(call[c])
    BY <1>7 DEF Aims
  <2>2. \A n \in DOMAIN ran[c] : ran'[c][n] = ran[c][n]
    BY <1>1, AppendedRun DEF c
  <2>3. /\ \A n \in DOMAIN ran'[c] : ran'[c][n] = Goal(call[c])
        /\ \A x \in Requests(c)' : x.to = Goal(call[c])
    BY <1>1, <1>2, <1>4, <2>1, <2>2
  <2> QED BY <2>3 DEF Aims, Goal, Remote, Dialable, IsRemote
<1> QED BY <1>1, <1>5, <1>6, <1>8, <1>9, OutKept

LEMMA OutStep ==
  ASSUME TaskInv, CallType, OutInv, [Next]_vars
  PROVE  OutInv'
<1>1. ASSUME NEW m \in wire, NEW state \in States, Execute(m, state)
      PROVE  OutInv'
  <2>1. /\ m \in Requested /\ m.kind = "request" /\ UNCHANGED <<call, taskVars>>
        /\ ran' = [ran EXCEPT ![m.call] = Append(@, m.to)]
        /\ \E a \in Replied : a.call = m.call /\ wire' = (wire \ {m}) \cup {a}
    BY <1>1, ExecuteDoes
  <2>2. Recorded' = Recorded
    BY <2>1, TaskUnchanged
  <2> QED BY <2>1, <2>2, PeerOut
<1>2. ASSUME NEW m \in wire, NEW w \in Workers, NEW t \in Tasks, Accept(m, w, t)
      PROVE  OutInv'
  <2>1. /\ m \in Requested /\ m.kind = "request" /\ UNCHANGED call
        /\ ran' = [ran EXCEPT ![m.call] = Append(@, m.to)]
        /\ wire' = wire \ {m} /\ Recorded' \subseteq Recorded \cup {m.call}
    BY <1>2, AcceptRuns
  <2> QED BY <2>1, PeerOut
<1>3. ASSUME NEW m \in wire, Lose(m)
      PROVE  OutInv'
  <2>1. UNCHANGED <<call, ran, taskVars>> /\ wire' = wire \ {m}
    BY <1>3 DEF Lose
  <2>2. Recorded' = Recorded
    BY <2>1, TaskUnchanged
  <2> QED BY <2>1, <2>2, OutSame
<1>4. ASSUME NEW w \in Workers, Stored(w)
      PROVE  OutInv'
  <2>1. /\ UNCHANGED <<call, ran>> /\ Recorded' \subseteq Recorded
        /\ wire' = wire \/ \E a \in Replied : a.call \in Recorded /\ wire' = wire \cup {a}
    BY <1>4, StoredDoes
  <2>2. \A m \in wire' : m \in wire \/ (m.kind = "answer" /\ m.call \in Recorded)
    BY <2>1 DEF Replied
  <2> QED BY <2>1, <2>2, OutSame
<1>5. ASSUME NEW e \in Entries, Heartbeat(e)
      PROVE  OutInv'
  <2>1. UNCHANGED <<call, wire, ran>> /\ UNCHANGED taskVars
    BY <1>5 DEF Heartbeat
  <2> QED BY <2>1, TaskUnchanged, OutSame
<1>6. CASE TaskStep
  <2>1. UNCHANGED <<call, wire, ran>> /\ Recorded' \subseteq Recorded
    BY <1>6, TaskStepDoes DEF callVars
  <2> QED BY <2>1, OutSame
<1>7. CASE UNCHANGED vars
  <2>1. UNCHANGED <<call, wire, ran>> /\ UNCHANGED taskVars
    BY <1>7 DEF vars, callVars
  <2> QED BY <2>1, TaskUnchanged, OutSame
<1>8. ASSUME NEW c \in Calls, CallStep(c)
      PROVE  OutInv'
  BY <1>8, CallAgentOut, RunHereOut, ReceiveOut, RetryOut, GiveUpOut DEF CallStep
<1> QED BY <1>1, <1>2, <1>3, <1>4, <1>5, <1>6, <1>7, <1>8 DEF Next, PeerStep

LEMMA OutInitial == Init => OutInv
<1> SUFFICES ASSUME Init PROVE OutInv
  OBVIOUS
<1>1. wire = {} /\ ran = [c \in Calls |-> <<>>] /\ call = [c \in Calls |-> [at |-> "new"]]
  BY DEF Init
<1>2. Recorded = {} /\ \A c \in Calls : call[c].at = "new" /\ ran[c] = <<>>
  BY <1>1, TypeInitial
<1>3. RanInv
  BY <1>1, <1>2 DEF RanInv
<1>4. ASSUME NEW c \in Calls PROVE Fits(c) /\ Aims(c)
  <2>1. Cardinality(Requests(c)) = 0 /\ Len(ran[c]) = 0
    BY <1>1, <1>2, FS_EmptySet DEF Requests
  <2> QED BY <1>2, <2>1 DEF Fits, Budget, Aims
<1> QED BY <1>3, <1>4 DEF OutInv

\* A call runs nowhere but where its policy and the directory sent it, at least once
\* before it is answered and never more often than it was dialed, whatever the
\* network delays or loses (resolve_invoke_target, HttpDialer._post_json).
THEOREM CallOutcomeCorrect == Spec => []CallOutcome
<1>1. TaskInv /\ CallType /\ OutInv /\ [Next]_vars => OutInv'
  BY OutStep
<1>2. CallType /\ OutInv => CallOutcome
  <2> SUFFICES ASSUME CallType, OutInv, NEW c \in Calls
               PROVE  LET k == call[c]
                          remote == k.policy # "local" /\ Dialable(k.binding)
                      IN  /\ Len(ran[c]) <= MaxAttempts
                          /\ k.at \in {"new", "refused", "local"} => ran[c] = <<>>
                          /\ k.at \notin {"new", "refused"} =>
                               \A n \in DOMAIN ran[c] :
                                 ran[c][n] = IF remote THEN k.binding.endpoint ELSE "here"
                          /\ k.at = "done" =>
                               Len(ran[c]) \in 1..(IF remote THEN k.attempt ELSE 1)
    BY DEF CallOutcome
  <2>1. Fits(c) /\ Aims(c) /\ (call[c].at = "done" => ran[c] # <<>>)
    BY DEF OutInv, RanInv, Run
  <2>2. /\ Len(ran[c]) \in Nat /\ Cardinality(Requests(c)) \in Nat
        /\ (Len(ran[c]) = 0 <=> ran[c] = <<>>)
    BY RequestsCount
  <2>3. call[c].at \in {"new", "refused", "local"} => ran[c] = <<>>
    BY NothingYet
  <2>4. call[c].at \notin {"new", "refused", "local"} =>
          call[c].attempt \in 1..MaxAttempts /\ Len(ran[c]) <= call[c].attempt
    <3>1. call[c].at \notin {"new", "refused", "local"} => call[c] \in Begun \cup Ended
      BY CallIsTyped
    <3>2. call[c].at \notin {"new", "refused", "local"} => call[c].attempt \in 1..MaxAttempts
      BY <3>1 DEF Begun, Ended
    <3> QED BY <2>1, <2>2, <3>2, AttemptsAssumption DEF Fits, Budget
  <2>5. Len(ran[c]) <= MaxAttempts
    BY <2>2, <2>3, <2>4, AttemptsAssumption
  <2>6. call[c].at \notin {"new", "refused"} =>
          \A n \in DOMAIN ran[c] :
            ran[c][n] = IF call[c].policy # "local" /\ Dialable(call[c].binding)
                        THEN call[c].binding.endpoint ELSE "here"
    BY <2>1 DEF Aims, Goal, Remote
  <2>7. call[c].at = "done" =>
          Len(ran[c]) \in 1..(IF call[c].policy # "local" /\ Dialable(call[c].binding)
                              THEN call[c].attempt ELSE 1)
    <3>1. call[c].at = "done" /\ ~Remote(call[c]) => call[c].attempt = 1
      BY DEF CallType
    <3> QED BY <2>1, <2>2, <2>4, <3>1 DEF Remote
  <2> QED BY <2>3, <2>5, <2>6, <2>7
<1> QED BY <1>1, <1>2, OutInitial, TypeAlways, PTL DEF Spec
================================================================================
