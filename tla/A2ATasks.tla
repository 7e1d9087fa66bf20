------------------------------- MODULE A2ATasks -------------------------------
(***************************************************************************)
(* a2a/tasks.py: the records of calls a peer accepted to answer later, in a   *)
(* MemoryTaskStore or, one JSON file per task, in a FileTaskStore.  Workers   *)
(* are threads of one process, which may crash between two file operations;   *)
(* the files outlive it, the memory store does not.                         *)
(***************************************************************************)
EXTENDS Integers, FiniteSets

CONSTANTS
  Unset,             \* None
  Bad,               \* a file that was opened for writing and not written yet
  Tasks, Workers,
  MaxUpdates         \* bound: update_task calls

VARIABLES
  durable,           \* EDIM_A2A_TASK_STORE = file
  task,              \* the store: [Tasks -> record, Bad or Unset]
  tmp,               \* the .json.tmp files
  locked,            \* the worker holding FileTaskStore._lock, or Unset
  job,               \* job[w]: the upsert a worker is in, or Unset
  ids,               \* the task ids given out
  updates,           \* update_task calls begun
  cleared            \* clear_a2a_tasks has run

taskVars == <<durable, task, tmp, locked, job, ids, updates, cleared>>

TaskInit ==
  /\ durable \in BOOLEAN
  /\ task = [t \in Tasks |-> Unset]
  /\ tmp = [t \in Tasks |-> Unset]
  /\ locked = Unset
  /\ job = [w \in Workers |-> Unset]
  /\ ids = {}
  /\ updates = 0
  /\ cleared = FALSE

Upsert(w, t, record) ==
  job' = [job EXCEPT ![w] = [at |-> "open", task |-> t, record |-> record]]

\* TaskStore.get: a file that does not parse reads like none.
GetTask(t) == IF task[t] = Bad THEN Unset ELSE task[t]

\* accept_task: a new id, status running.
AcceptTask(w, t, call) ==
  /\ job[w] = Unset /\ t \notin ids
  /\ ids' = ids \cup {t}
  /\ Upsert(w, t, [call |-> call, status |-> "running"])
  /\ UNCHANGED <<durable, task, tmp, locked, updates, cleared>>

\* update_task reads the record here and writes it back when the upsert comes.
UpdateTask(w, t, status) ==
  /\ job[w] = Unset /\ updates < MaxUpdates
  /\ updates' = updates + 1
  /\ GetTask(t) # Unset
  /\ Upsert(w, t, [GetTask(t) EXCEPT !.status = status])
  /\ UNCHANGED <<durable, task, tmp, locked, ids, cleared>>

\* MemoryTaskStore.upsert
Put(w) ==
  /\ job[w] # Unset /\ ~durable
  /\ task' = [task EXCEPT ![job[w].task] = job[w].record]
  /\ job' = [job EXCEPT ![w] = Unset]
  /\ UNCHANGED <<durable, tmp, locked, ids, updates, cleared>>

\* FileTaskStore.upsert: open the temporary file, write it, rename it.
At(w, place) == job[w] # Unset /\ job[w].at = place /\ durable

\* Mutant: the task's own file is opened.
OpenInPlace(w) ==
  /\ At(w, "open")
  /\ locked = Unset
  /\ locked' = w
  /\ task' = [task EXCEPT ![job[w].task] = Bad]
  /\ job' = [job EXCEPT ![w].at = "write"]
  /\ UNCHANGED <<durable, tmp, ids, updates, cleared>>

OpenTmp(w) ==
  /\ At(w, "open")
  /\ locked = Unset
  /\ locked' = w
  /\ tmp' = [tmp EXCEPT ![job[w].task] = Bad]
  /\ job' = [job EXCEPT ![w].at = "write"]
  /\ UNCHANGED <<durable, task, ids, updates, cleared>>

WriteTmp(w) ==
  /\ At(w, "write")
  /\ tmp' = [tmp EXCEPT ![job[w].task] = job[w].record]
  /\ job' = [job EXCEPT ![w].at = "replace"]
  /\ UNCHANGED <<durable, task, locked, ids, updates, cleared>>

Replace(w) ==
  /\ At(w, "replace")
  /\ task' = [task EXCEPT ![job[w].task] = tmp[job[w].task]]
  /\ tmp' = [tmp EXCEPT ![job[w].task] = Unset]
  /\ locked' = Unset
  /\ job' = [job EXCEPT ![w] = Unset]
  /\ UNCHANGED <<durable, ids, updates, cleared>>

\* The process ends and starts again; nothing takes its tasks up.
CrashTasks ==
  /\ \E w \in Workers : job[w] # Unset
  /\ job' = [w \in Workers |-> Unset]
  /\ locked' = Unset
  /\ task' = IF durable THEN task ELSE [t \in Tasks |-> Unset]
  /\ UNCHANGED <<durable, tmp, ids, updates, cleared>>

\* clear_a2a_tasks unlinks *.json, which a temporary file does not match.
ClearTasks ==
  /\ locked = Unset /\ ~cleared
  /\ cleared' = TRUE
  /\ task' = [t \in Tasks |-> Unset]
  /\ UNCHANGED <<durable, tmp, locked, job, ids, updates>>
=============================================================================
