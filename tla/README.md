# Verification of edim-dde-ai

`edim-dde-ai` compiles YAML agent definitions into LangGraph graphs and runs
them. Around that core it keeps state that outlives a run: paused
human-in-the-loop (HITL) sessions and their audit trail, conversations with a
checkpoint per thread, recommendations with an experience index next to them,
and tasks that agents hand to each other. Most of what can go wrong is in
that state. It is shared by calls that no lock keeps apart, it is written in
several steps, and it is read again by a later call that assumes it is whole.
Around that state there are rules, pure functions of YAML and input, where a
mistake fails open or surfaces only when a graph is compiled or run.

This directory models both in TLA+: the behaviour is checked with TLC on
small instances, and the central safety properties are proved with TLAPS for
every instance. Paths below are relative to `src/edim_dde_ai/` in the
repository's `src/`, unless they start with `tests/` or `docs/`.

Contents: [the system](#the-system) - [modules](#modules) -
[from code to model](#from-code-to-model) - [runs](#runs) -
[fairness](#fairness) - [proofs](#proofs) -
[where code and text differ](#where-code-and-text-differ) -
[known limits of the code](#known-limits-of-the-code) -
[what is not modelled](#what-is-not-modelled) - [plan](#plan) -
[running it](#running-it)

## The system

### How the parts interact

```
 host / API / CLI
   |  invoke(input)                      resume_hitl_session(session, decision, patch)
   v                                          |
 MetadataAgent (graph/runtime.py) <-----------+       create_agent -> AgentRegistry + cache
   |  walks the compiled graph                |
   |    node -> skip_until_resume -> SQL / LLM / value / rag node
   |    hitl.gate ---- HitlPaused ----> persist_hitl_pause --> StateStore: session, audit row
   |    invoke_agent --> native child graph | mapped child | call_agent --> HTTP dialer --> peer
   |    session_prepare --> mode --> path --> _record_assistant_turn --> checkpointer
   v
 final state --> close_hitl_session --> StateStore
             --> persist_after_hitl_if_needed --> recommendation store --> experience index
```

A call is one thread of the host from `invoke` or `resume_hitl_session` to its
return. Calls share the StateStore, the checkpointer, the recommendation
store, the retrieval provider and the registries. The registries have locks
for a single access. Nothing holds a lock over two accesses, so every pair of
accesses of one call can have those of another call between them.

### Inventory

**HITL policy** (`hitl/policy.py`). No state. Rules on the `hitl` block of an
agent: which decisions are allowed, which patch keys survive, when `modified`
is refused, how a patch is merged, whether an outcome is product history. Hard:
combinations of unset, empty and unknown entries, where a mistake fails open.
Correct when: a list only ever restricts, a patch touches listed keys only and
never decision metadata, `modified` modifies, and a policy that can never be
answered is exactly one that says so.

**HITL sessions and gates** (`hitl/sessions.py`, `hitl/gate.py`,
`hitl/decorator.py`, `hitl/apply_outcome.py`, `hitl/persist.py`). State: one
record per session (agent, status, gate, snapshot of the state bag) and an
append-only audit trail, both in the StateStore. Operations: pause, resume,
close, apply the outcome, host persistence, deletion by the host. A resume
merges the decision into the snapshot and walks the *whole* graph again,
skipping up to the gate. Hard: several reviewers at once, a crash between
session write and audit row, routers evaluated behind skipped nodes, snapshots
older than the record they come from, a second gate after the first, a child
embedded in a parent. Correct when: nothing behind a gate runs undecided, every
decision is audited before it acts, a waiting record can be answered, nothing
runs twice, rejected outcomes are not persisted, an accepted decision takes
effect.

**Multi-turn sessions** (`graph/session_builder.py`, `graph/runtime.py`,
`session/*`). State: the checkpoint of a thread (messages, mode flags, outputs,
HITL keys). Operations: begin a turn, `session_prepare`, the nodes of the mode's
path, record the assistant's message, pause and resume in a path. Hard: two
turns of one thread, a turn that dies after its text was stored, keys of an
earlier turn read in a later one, a resume from a copy older than the
conversation. Correct when: transcripts only grow, an answer follows its
question, a thread is initialized by an answer only, and every turn is answered.

**Recommendation store** (`recommendations/*`). State: rows by id, in redis
also a sorted set of ids. Operations: save, get, list, update status, label the
outcome. Hard: a status update is a read and a later write of the whole record;
redis writes twice. Correct when: a status update keeps the body, a list and
the rows agree on what exists.

**Experience index** (`experiences/*`). State: one document per indexed row in
a retrieval provider, the transforms domain packs registered. Operations: index
or remove after each save, backfill from the store; on the search side dedupe
and rank. Hard: the index is written after the row and failures are swallowed,
transforms and provider may be registered late, a backfill works on a snapshot.
Correct when: the index agrees with the store wherever no failure or overlap
leaves it open, documents have rows, the backfill's report is true.

**A2A calls and tasks** (`a2a/*`). State: bindings of agent ids to endpoints
(listed and by heartbeat), task records (memory, or one file each), a
per-conversation list of turns. Operations: resolve local or remote, call, retry
over HTTP, build and parse envelopes, accept, get and update a task, append a
turn. Hard: a call that timed out is sent again though the peer ran it;
heartbeats move the endpoint meanwhile; a peer's pause arrives in an envelope or
a bare state; a crash between the two file operations of a task. Correct when:
a call runs where it was sent and at most once per attempt, a pause is not taken
for an answer, an accepted task can be polled.

**State store** (`store/*`). State: sessions, audit events and an agent catalog
in memory, redis, postgres or cosmos. Operations: upsert, get, list, delete,
append, and the sync of the registered agents into the catalog. Hard: each back
end orders, trims and replaces events its own way, and the sync writes row and
event apart. Correct when: the newest event of an agent tells what its row holds.

**Registries and agent cache** (`registry/*`, `factories/agent.py`). State: maps
of definitions, nodes, routers and chains, and the compiled agents. Operations:
register with or without overwrite, get, clear, create. Hard: the registry is
written outside the lock that compilations hold, and cleared after the cache; a
compilation looks up one definition after the other. Correct when: what is
cached is what is registered, or about to be popped, and embeds stay acyclic,
bounded and without sessions.

**Agent definitions** (`core/*`, `schema/*`, the blocks of `session/*`). No
state. Validates YAML, expands the routes shorthand, resolves bindings and
environment references. Hard: two layers of validation with different opinions,
null against missing, two YAML forms for one router. Correct when: routes mean
what they say, bindings fail closed, and it is known exactly which accepted
definitions do not compile.

**Graph builder and builtin nodes** (`graph/builder.py`, `graph/subgraph.py`,
`nodes/builtin.py`). No state at run time. Wire nodes, edges, routers and
embedded children; refuse cycles and depth.

**Retrieval** (`retrieval/*`). State: corpus configs, the provider of the process
and those cached per corpus, documents in the provider, for FAISS two files per
corpus. Operations: register, look up the provider of a corpus, search with
filters, dedupe, boost and context, upsert, delete, build. Hard: configs change
under cached providers; the over-fetch must leave enough rows; two files are two
writes. Correct when: a corpus is served as configured, an answer is complete,
ordered and within its bounds, a hit shows the text its vector was made of.

**Content and prompts** (`content/*`). State: texts per agent, and a directory
per agent that is asked first. Operations: load from a definition, look up. Hard:
what earlier versions left. Correct when: a registered agent runs on its texts.

**Observability** (`observability/*`), **evaluation** (`evaluation/*`), **web
providers and PII** (`web/*`, `security/*`), **command line and API** (`cli/*`,
`api/*`): I/O behind an adapter, formatting. Their effect on the state above is
that a node returns some value or raises, which the models allow at every node.

`PROJECT.json` lists the hazards at their lines, with the properties that would
catch each of them going wrong.

## Modules

| module | what it is |
|---|---|
| `HitlPolicy` | the rules of `hitl/policy.py` as operators over symbolic keys |
| `AgentDefinitions` | from YAML to an `AgentDefinition`; EXTENDS `HitlPolicy` |
| `GraphBuild` | routers, node and gate configs, which definitions compile, the web.search node; EXTENDS `AgentDefinitions` |
| `Rules`, `MCRules` | what those three promise, over any sets of requests, routes, configs and definitions, and the small sets to run it on; EXTENDS `GraphBuild` |
| `RulesProofs` | proofs of those promises for any such sets |
| `HitlFlow` | pause, resume, close, persistence and deletion over an arbitrary graph; EXTENDS `HitlPolicy` |
| `HitlLifecycle` | abstract specification: what the session store promises a reviewer |
| `HitlReplay` | which agents a resume replays faithfully; EXTENDS `HitlFlow` |
| `HitlFlowProofs` | invariance proofs about `HitlFlow`, and that it implements `HitlLifecycle`; EXTENDS `HitlReplay` |
| `MCHitlReview`, `MCHitlEmbed` | two agents to run `HitlFlow` on |
| `SessionTurns`, `MCSession` | multi-turn conversations, and the agents to run them on |
| `SessionProofs`, `SessionTranscriptProofs` | invariance proofs about `SessionTurns`: bags and their flags, then the transcripts |
| `Recommendations`, `MCRecommendations` | recommendation store, experience index and backfill |
| `RecommendationsProofs` | proofs about `Recommendations`: what is stored and indexed, then what single calls promise |
| `StateStores` | agent rows and audit trail of the four back ends, as operators |
| `AgentCatalog`, `MCAgentCatalog` | registry, cache, compilation, content hub and catalog sync by several threads; EXTENDS `StateStores` |
| `AgentCatalogProofs` | invariance proofs of the cache, of the embeds, and for one writer of the texts and of the audit trail |
| `A2ATasks` | the task stores, with files that crashes leave half written |
| `A2ACalls`, `MCA2ACalls` | calls, directory, network and peer; EXTENDS `A2ATasks` |
| `A2AProofs` | invariance proofs about both |
| `SearchPipeline` | what each back end finds, filters, dedupe, boost and context, as operators |
| `Retrieval`, `MCRetrieval` | corpus registry, providers, documents and FAISS files; EXTENDS `SearchPipeline` |
| `RetrievalProofs` | invariance proofs of the provider cache and of the FAISS files, and what the search pipeline answers from any of them |

`HitlFlow` instantiates `HitlLifecycle` with a refinement mapping: a session's
phase, gate and decisions are computed from its record. Proof modules EXTEND the
module they are about, so that what is checked and what is proved is the same
text.

## From code to model

`PROJECT.json` maps every definition to the lines it stands for. In outline:

### HitlFlow

| state | in the code |
|---|---|
| `store[s]` | the session record of the StateStore; its `st` is `state_snapshot`; `done` is a ghost: the YAML nodes that ran before the snapshot |
| `issued` | ids that `str(uuid.uuid4())` has returned: a new one is never an old one |
| `audit` | audit events; a set, as nothing reads their order |
| `call[c]` | the stack of one call: where it is, the agent, the node, the state bag, what `close_hitl_session` has read |
| `persisted` | calls whose outcome the host wrote to the product history |

| action | code |
|---|---|
| `Invoke` | `MetadataAgent.invoke` on caller input |
| `Resume`, `ResumeRefused` | `resume_hitl_session` up to the audit row: read, checks, merge, patch; and its `HitlError`s |
| `AuditResume`, `CreateAgent` | the `hitl.resume` row, then `create_agent` of the record's agent |
| `SkipNode`, `WorkNode`, `ApplyNode` | a node behind `skip_until_resume`; a node that runs; `hitl.apply_outcome` |
| `GateBypass`, `GateResume`, `GatePause` | the three ways through `hitl.gate` |
| `AuditPause` | the `hitl.pause` row, then `HitlPaused` unwinds |
| `CloseRead`, `CloseWrite`, `CloseAudit` | `close_hitl_session`: get, upsert, append |
| `HostPersist`, `DeleteSession` | `persist_after_hitl_if_needed`; the host deletes a session |
| `Abort` | a node, the store or the process fails at any step |

Each store access is a step of its own, and a failure may come between any two.
Nodes of an embedded child are nodes of the parent's graph whose `Owner` is the
child, which is how `graph/subgraph.py` adds them. `Gated[n]` names the gates on
the way to `n`; `GatedAssumption` ties it to the edges, so it says what "behind a
gate" means and nothing else.

### SessionTurns

`ckpt[th]` is the latest checkpoint of a thread, `call[c]` the run of a turn with
its own copy of the bag, `pauses[t]` the snapshot of the session that turn `t`
paused in. `Begin` loads the checkpoint and merges the input over it, `Prepare`
is `session_prepare` with the branch behind it, `SkipNode`, `WorkNode`,
`GateResume` and `GatePause` are the nodes of the path, `RecordAssistantTurn` is
`_record_assistant_turn` including the silent failure of `update_state`, `Resume`
and `Close` the two ends of `resume_hitl_session`. `Resume` asks only that the pause still
waits, as the code does, so several resumes of one pause may run at once. It reads the
record and loads the thread in one step; a failure between the two leaves nothing behind
in a conversation. A text is represented by the
turn that sent it, so "the wrong text" is a difference the model can see. Every
step saves the whole bag, as the checkpointer does after a superstep.

### Recommendations

`rows` is the store's hash or table, `listed` redis's sorted set (the same as the
rows elsewhere: `TwoWrites`), `index` the provider's documents, `transforms` and
`provider` what bootstrap has registered so far, `call[c]` one save, status
update or backfill with the versions it holds. `Save`, `Put`, `AddToList` and
`Index` are `ExperienceIndexingStore.save` over the store's save;
`UpdateStatus` and `WithStatus` read and check, then share `Put`; `Backfill`,
`BackfillRow` and `BackfillDone` are `backfill_outcomes_from_store`. An index
write that raises may or may not have reached the provider (`OfferFails`).

Three ghosts say where agreement is *not* promised. `doubt` holds the rows whose
last index write failed, was skipped for want of a transform or provider, or
overlapped with another call; a write that went through alone takes a row out
again. A call's `shared` holds the rows another call worked on at the same time,
`alone` says that nothing else ran. They are in no guard of the code's actions.

### AgentDefinitions, GraphBuild and Rules

A YAML mapping is a function from the keys it holds; null is `Unset`, a value of a
wrong type `Bad`, a raised error `Refused` (which error comes first is left out).
`ParseDefinition` is `parse_agent_definition`, `ConditionalEdges` the routes
shorthand, `ParseBindings` and `ResolveBinding` the planes (which raise when a
reference of theirs is `Unresolved`), `Compiles` and
`NodeConfig` what `GraphBuilder` and `build_session_graph` make of the result,
with LangGraph's own refusals external: `ReservedIds` are the node ids it keeps for
itself, such as those with a `:` or a `|`. `FactoryAccepts` is what the factories of
`nodes/builtin.py` refuse as soon as they are called: a `top_k` that is given as null
(`int(None)`), `allowed_domains` or `from_fields` that are no list, a missing `field` or
`chain`. Factories a product registers are taken to accept, and definitions with
`invoke_agent` nodes, whose children compile inside them, are left to `AgentCatalog`
(`EmbedAssumption`). `Rules` picks a case in its initial
states, from sets that are constants, and evaluates it in one step, so the
properties compare output and input, stated in another way than the operators.
`LateFault`, for one, reads the YAML and the registries, and neither the definition that
was parsed nor a check of the builder. `MCRules` gives the sets for TLC. Python's `{**a, **b}` and `dict.update` are `Merged`.

### AgentCatalog

The versions of an agent's YAML are numbers, constants say what each contains.
`defs` and `cache` are the two maps of `registry/agents.py`, `lock` is
`_CACHE_LOCK`, `op[t]` the call a thread is in. `Register`, `PopCache` and
`LoadContent` are the three steps of `register_agent`; `Create`, `Descend`, `Cached`
and `CompileFails` one compilation, a definition looked up per step; `ClearCache` and
`ClearDefinitions`, `Sync...` and `DeleteRow` the rest. Content that raises while it is loaded is `Bad`: a directory that
is none, or a malformed entry, in front of which the texts of the block (`Prompts`) are in
the hub already, with the agent registered. A cached agent is the chain of
versions it was compiled from.

### A2ACalls and A2ATasks

`call[c]` is one `call_agent`, `wire` the requests and answers under way (any of them
late, lost or answered after its caller gave up), `ran[c]` the places the call was
executed at. `CallAgent` resolves and dials, `Retry` and `GiveUp` are `_post_json`'s
loop, `Execute`, `Accept` and `Stored` the peer, which answers with an envelope or a
bare state. `RunHere` is an agent of this process: `StatusHere` is the status `call_agent`
gives it before the envelope is built, where under `async_accept` a task_id the state
holds (`held`) means `running`. A peer may run an `async_accept` request at once. A
task_id that comes in an envelope's state only is not polled in the model.
`A2ATasks` writes a record as the code does: open the temporary file,
write it, rename it, under the lock of one store object; `CrashTasks` ends the
process between any two and forgets memory and locks, not files.

### Retrieval and SearchPipeline

A provider is a record of its kind and of where it looks; documents live at a
place. A FAISS place is named by what `_corpus_paths` makes of the corpus name
(`FileName`), so two names may share their files. `Resolve` is `provider_for_corpus` with its cache; `SearchCorpus` is a
pure function of the state, so that `AnswersUsable` asks it in every state for
every combination of options in the constant `Options`.

A result is a list of hits. Python's sorts are stable, so each of them is the one
arrangement by (key, index): `Arranged` is the list of a set of indices by an order,
`Kept` keeps those that pass a test in their order, `Ranked` sorts by score
(`Ranking`). Dedupe by id is then the best hit of each id (`BestById`), dedupe by
action the first of each action in the ranking (`FirstByAction`). No recursion is left
but the running length of a context (`Used`), and the pipeline can be reasoned about.

FAISS writes are `Begin`, then `Save` of the index
and of the rows, or `CutOff`, by a process or a Job; the ghost `broken` remembers
the places where a write was cut off until a rebuild.

## Runs

TLC finishes every run. State counts are distinct states.

| run | states | what it asks |
|---|---|---|
| `rules` | 184 k (every case) | Do HITL decisions and patches fail closed? Do routes mean what they say? Which accepted definitions do not compile? Are bindings closed, is web search bounded? |
| `hitl_review` | 435 k | Two gates, three calls at once, failures, crashes, deletions, an agent the resuming process may not know: is any gate passed undecided, any decision unaudited, any waiting record unanswerable, anything rejected persisted? |
| `hitl_serial` | 145 k | A parent with a native child that has a gate, one call per session: do resumes reach their gate and repeat nothing, does the store implement `HitlLifecycle`, does an accepted decision take effect? |
| `hitl_race` | violation | Is a pause answered once? |
| `session_serial` | 36 k | One run per thread: does the conversation stay one, and is every turn answered? |
| `session_gated` | 230 k | With gates in the paths and runs racing, what still holds? |
| `session_message` | violation | Is a turn's own text used? |
| `session_review` | violation | Does a gate in a conversation stop every turn? |
| `recommendations` | 603 k | Saves, updates and backfills overlapping, failures at every step: do index, list and rows agree? |
| `catalog` | 367 k | Registrations, compilations, clears and syncs interleaved: is the cache fresh, are embeds bounded, are prompts current, does the audit tell the catalog? |
| `a2a` | 4.3 M | Retries, heartbeats, lost answers, crashes of the peer's process: where and how often does a call run, is a pause reported, is an accepted task found? |
| `retrieval` | 41 k | Configs, providers and documents change, FAISS writes are cut off: what do searches answer, and from where? |

### Bounds, and why they are enough

Nothing is counted without end except by the number of calls: every module has a
fixed set of calls, each of which runs once.

* *HITL*. Three calls are one that pauses and two that answer it, or a pause, an
  answer that pauses at the second gate, and an answer to that, with a failure
  anywhere. Two gates are the least for "the earlier decision"; the agent of
  `MCHitlReview` also has a router in front of the first gate that a patch can
  turn, and a path around both. Two or three session ids are as many as three
  calls can open between them. One routed field with two values takes both
  branches of each router.
* *Sessions*. Two threads and four turns are an initialization, two follow-ups
  and a regeneration, or two threads side by side. The gated run has three runs,
  enough for a turn, its resume, and one more that races with either (a second resume of
  the same pause, for one), and for a
  conversation that a resume takes to another thread. That it can move again and again
  is covered by the proof.
* *Recommendations*. Two rows are one that is worked on and one that must not be
  touched; the limit of a list is two. Three calls are two that overlap and a
  third that reads what they left. Calls are interchangeable (nothing in the
  module tells two of them apart, and all of them may fail), so the run declares
  them a symmetry set; it checks no liveness.
* *Rules*. Every field has the values that the code tells apart: missing, null, of
  a wrong type, and two or three that are right; allowlists and patches range over
  all subsets of three keys, one of them the actor's; a whole definition has up to
  three nodes and two branches, and varies its bindings, its conversation, the config of each
  node type and a reserved node id one at a time.
  Each case takes one step. What does not depend on these sets is proved.
* *Catalog*. Two agents that may embed each other are the least cycle, two versions
  the least overwrite, two threads the least race. Five calls are enough for two
  registrations, a compilation, a clear or overwrite, and a sync; `AuditMax` of three
  makes redis trim. `OneWriter` allows one registration and one sync at a time: two at
  once write the hub and the trail in an order nobody promises.
* *A2A*. One call (calls share only the directory and the task store), under
  `async_accept` or not, ending in states with and without a task_id, two attempts,
  a heartbeat that moves the endpoint in between, two workers and two tasks, so
  that both attempts of a retried call can become tasks.
* *Retrieval*. One corpus, four rows (two of one id, two of one action), one
  writer, four steps: write, cut off, write again, and a change of config. In every
  state `MCOptions` asks for none (read as one) or two hits, with and without entity, dedupe,
  boost, a mode and an index of its own, among them one whose name is another but whose
  files are the corpus's.
  Overlapping writers of one FAISS corpus are left out (see the limits).

`CHECK_DEADLOCK FALSE` is set where the system really stops: a case of the rules is
evaluated once, and a store is quiet when its calls are over. The HITL and session
modules model "everything has returned" as a step (`AllReturned`), and are checked
for deadlock.

### Properties that need a quiet host

`SessionLifecycle`, `AnswersFollow`, `TranscriptGrows` and the two liveness
properties are checked with `OnePerSession` or `OnePerThread`: the host admits one
call per session or thread. So are `ResumeReachesGate` and `NoRework`, but their
proofs do without it. `ContentCurrent` and `AuditTellsCatalog` are for `OneWriter`,
one registration and one sync at a time, `VectorsMatchRows` is proved for
`NoOverlap`, one writer at a time in the files of a FAISS corpus; the registry is
written outside its lock and those files have none. The code enforces none of
these; the runs without them check what still holds then, and the violation runs
show some of what does not.

## Fairness

`WF_vars(Step(c))` for each call: a call that has started is a thread of the
process and takes its next step. No fairness on starting calls, on failures, on
deletions or on what a reviewer does: a session may wait for ever because nobody
answers it. The liveness properties speak of calls outside `Failing` only (a call
that dies promises nothing), while calls that may fail run beside them:

* `DecisionTakesEffect` (`hitl_serial`): an accepted decision leads to a session
  that is closed, or that waits at another gate.
* `TurnIsAnswered` (`session_serial`): a turn leads to its answer in the
  transcript of its thread. Without gates: a paused turn has no answer yet.

## Proofs

Proved with TLAPS for every graph, policy, set of rows, agents, corpora, networks and
number of calls. The assumptions are those the modules declare, and TLC evaluates them in each run:

* `GraphAssumption`, `RecommendationsAssumption`, `CatalogAssumption`: the constants
  have their types; edges stay inside one graph; a child is an agent.
* `GatedAssumption`: `Gated` claims no more than the edges show: the entry is behind
  no gate, and an edge puts at most its source in front of its target.
* `ResumeTargetAssumption`: the node a resume skips to has no gate in front of it
  that was not in front of the gate that paused. It holds when `gate_id` is left to
  its default and node ids are unique, and fails for some of the definitions the
  code accepts (see the limits).
* `PatchAssumption`: patches put values of the model into routed fields.
* `SessionAssumption`, `BagAssumption`, `RecordAssumption`, `UnsetAssumption`: paths, gates and outputs have
  their types, and None is no bag, record, task, worker or status.
* `AttemptsAssumption`, `AuditAssumption`: `EDIM_A2A_HTTP_RETRIES + 1` and the length
  at which redis trims the trail are at least one.
* `ContentAssumption`, `RetrievalAssumption`: None is no version; an error is no list
  of texts or rows; the name of a prompt is a pair.
* `SearchAssumption` of `Retrieval`: scores are numbers, words and `max_chars` are not
  negative, the options of a search have their types, and every ready service is one of
  the back ends of `retrieval/`.
* `ListAssumption`: a list in YAML is a sequence.
* `RequestAssumption`, `RouteAssumption`, `SearchAssumption` of `Rules`, `NoneAssumption`:
  reviewers may use the framework's words; routed fields are numbers or missing and
  what they are compared with is a number (Python may also compare strings, and
  refuses to order a string and a number); a provider answers with a number of
  hits or fails; None is no number, no name and no parsed block; a raised error is no value.

Two kinds of theorem have a condition besides: on the host (`OneWriter`, `NoOverlap`,
`OnePerSession`, `OnePerThread`), and on the agent (`Closed`, `Replays`, `Ordered`,
`RejectionEnds` of `HitlReplay`). TLC evaluates the latter for the agents of both
HITL runs, as `ReviewIsReplayed` and `EmbedIsReplayed`.

### HitlFlowProofs

1. `TypeCorrect`. `TypeOK` is not inductive: a call at `run` needs a node, one at
   `close_write` a record, one at `compile` a session. `TypeInv` adds this as `ShapeOK`.
2. `GuardedRunsCorrect`: nothing behind a gate runs undecided. `GuardedRuns` speaks of nodes that
   execute, but the bag passes through places where nothing does: a run that still
   skips, and a snapshot that waits. `GuardInv` therefore says of a skipping run
   that every gate in front of its *target* is cleared, and of a waiting
   record the same about the gate it waits at. Merging a decision keeps what was
   decided, `ResumeTargetAssumption` carries it from the gate that paused to the node
   that resumes, and a step along an edge adds only a gate just passed.
3. `AuditedDecisionsCorrect`: nothing runs on a decision the trail does not hold. `AuditInv` extends
   it to snapshots, whose decisions were audited under the same session, and to
   calls between merge and audit row, which hold exactly one decision more; the trail only grows.
4. `WaitingIsUndecidedCorrect`: a record that waits can be answered. It rests on the same
   invariant: only a gate that found no decision writes such a record.

5. `SessionLifecycleCorrect`: the store implements `HitlLifecycle` when the host admits one
   call per session and callers name no session of their own. `LifeInv` says why nobody
   comes between: two calls in flight are for different sessions (`Distinct`), so the record
   a call answers still waits at the gate it answers, and the call's bag holds the record's
   decisions and one more (`Owns`). A pause then maps to `Open` or `Continue`, the write of a
   close to `Close`, a deletion to `Delete`, every other step to a stutter.

The next three are about the agent as well: a resume walks the graph again on the
answered snapshot, and whether it comes back to its gate depends on the routers.
`HitlReplay` says what that takes. `Possible[n]` over-approximates what routers may
read, and which nodes have run, when a run comes to node `n` (`Closed`: it contains
the starts and is closed under the nodes' outcomes); `Way[p]` holds the places a
resume of gate `p` skips through, and every one of them leads on until the gate
itself (`Replays`). Agents with a patch of a routed field, an embedded gate or a
`gate_id` of its own can fail it, and then so does the property (see the limits).

6. `ResumeReachesGateCorrect`: a resume that reaches the end of its graph has passed
   the gate it answers, by way of an undisturbed skip. `ReplayInv`: a run that never
   paused, or is past its gate, is in a possible situation; one that skips is on the
   way of the gate it answers and has run nothing; a waiting record is in a possible
   situation of its gate. Other calls, failures and deletes change no call's
   situation, so one call per session is not needed.
7. `NoReworkCorrect`: no resumed run repeats a node of the run it continues. On top of
   `ReplayInv` it is inductive, if the agent has no cycle through work (`Ordered`).
8. `RejectedNotPersistedCorrect`: `RejectInv` follows a rejection from the gate to the
   apply node behind it, which ends the run with outcome `rejected` (`RejectionEnds`).

The step lemmas follow the actions, one lemma for all actions that only move the pc.

### RecommendationsProofs

The invariant is `Shape /\ Agreeing /\ DocumentsHaveRows`. `IndexAgrees` is about rows nobody works on,
so it needs to know what calls on their way will write. `Agreeing` has four parts:

* `Shared`: two calls that work on one row both know it;
* `SharedInDoubt`: a row worked on by two calls is open;
* `HandIsCurrent`: a call that works on a row alone holds, once it has written, the
  version the store holds;
* `Agreement`: a row that is not open and that nobody is writing agrees with its
  document.

The case that makes all four necessary is the call that finishes last on a shared
row. It may carry an old version; it must not take the row out of `doubt`, and
`Shared` is what tells it so.

`DocumentsHaveRowsCorrect` needs only that an offered version was stored: `rows` is written
before the index, and never deleted.

What single calls promise needs less of the others and more of themselves.

* `ListMatchesStoreCorrect`. `Unlisted` says which rows the sorted set may miss: those a
  call is about to add, and those whose call failed between `hset` and `zadd`.
* `StatusKeepsBodyCorrect`. `StatusHand`: the record an update holds differs from the
  stored one in its status at most, unless another call works on the row (`shared`).
* `BackfillReportIsTrueCorrect`. `Reporting` says of a backfill that is alone which rows
  of its list it has brought up to date; the limit enters only at its start.

### SessionProofs

`Shape` is `TypeOK` with what a run needs at its place: an idle run is blank, a
running one has a mode and is inside the path of that mode, a resume is of a turn that
began, and the checkpoint of a thread names that thread or none. Every step is one of a
few (`ChangeKeepsShape`): one run changes, its thread's checkpoint is what it holds, at
most one pause comes or goes. On it rest `TypeCorrect` and

* `HitlKeysOfResumesCorrect`: every HITL key in a checkpoint or a bag is of a resume on
  that thread. Bags are merged and copied between the two, so the invariant is about both.
* `InitializedByAnswerCorrect`: every bag whose flag is set is of a thread in `Origins`. A
  snapshot carries the flag as well, to whichever thread its resume continues on, which
  is why `Moved` is in the property.

### SessionTranscriptProofs

`ListsStep`: each list of messages of the next state, in a checkpoint, a run or a
pause, is one of this state, or one of them with a text or an answer of one run
appended. What holds of all lists and is kept by such an append then holds of every
transcript, however often runs overwrite each other's checkpoints:

* `AppearsPerRunCorrect`, for finitely many turns: no list has more texts (answers) of a
  turn than runs of it that have got past `session_prepare` (past recording), with any
  number of resumes of one pause among them. Runs and
  messages are counted as cardinalities, with the theorems on finite sets.
* `PausedTurnsAreSilentCorrect`: while a pause waits unresumed, the run that paused is over
  and no other works on the turn, so nobody can append its answer.
* `AnswersFollowCorrect`, if every turn is sent with a text (`"none" \notin Keys`): a run
  between prepare and record holds a list that ends with its own text. A turn without a
  text appends nothing in `session_prepare` and its answer then stands alone.
* `TranscriptGrowsCorrect`, where the host admits one run per thread (`OnePerThread`) and no
  path holds a gate (`Gates = {}`), the setting of `session_serial`. `AloneInv`: two runs under
  way are on two threads, and a run that still saves holds the transcript its thread
  has, so that what it saves extends it. Both conditions are needed: a second run saves
  what it loaded earlier, and a resume what the snapshot held.

### AgentCatalogProofs

`CacheFreshCorrect`. `CacheFresh` says nothing of a compilation under way, and the
dangerous one is that which read a definition before it was overwritten and caches
it after. `Fresh` therefore says of the first link of every compilation what
`CacheFresh` says of an entry: it is the registered version, nothing is registered,
or a pop of it is still to come. It is inductive with `LockHeld` (who compiles holds
the lock): the pop waits for the lock, so at the pop nobody compiles. Sync steps and
content never touch any of this (`Quiet`).

`EmbedsBoundedCorrect`. The chain a compilation is building contains no agent twice, is no
longer than the limit and has no agent with sessions behind its first link. Each of the
three is checked at the moment of the descent, against the definition read there; the
proof is that no later overwrite reaches a chain that was read.

`ContentCurrentCorrect`, for one writer. Registering an agent and loading its texts are
two steps with a wait for the lock between them. `TextInv`: the thread between the two
brings the version that is registered, or nothing is registered any more; every
agent that is registered and that no thread is bringing has the texts of its version in
the hub. What earlier versions left stays there, under other names.

`AuditTellsCatalogCorrect`, for one writer. `TrailInv`: one sync at a time means that
event ids grow and the id a sync holds is newer than all in the trail, so that
appending keeps, and redis drops, in order of age; the newest event of every agent
with a row names the version in the row, unless the event is being written, could not
be written or was dropped (`unaudited`). It holds for all four back ends, through what
`list_audit` makes of their trails.

### RetrievalProofs

`ProviderMatchesConfigCorrect`. The invariant is that a cached provider is what
`Create` makes of the config remembered with it; every registration that changes
the config leaves that pair alone, and only `Resolve` and `ClearProvider` write it.

`VectorsMatchRowsCorrect`, while no two writers are in the files of one place. `VecInv`
follows a write file operation by file operation: a job carries an index that was
made of its rows, unless it goes on from files that a write left half done
(`broken`), and from the third operation on the index file is the job's own. So what
the last operation completes is faithful, and a rebuild makes it so from anything.

`AnswersUsableCorrect`, in every state that can be reached, with any number of writers and
cut-off writes. It has two halves.

* *Lists*. `ArrangedIs` is the one fact all sorting rests on: for a finite set of indices
  and an order that tells any two apart, the arrangement holds each of them once,
  in order. It needs no induction: the number of members in front of one is its position,
  two members have two positions, and a finite set cannot be put one to one into as many
  places without filling them. `KeptIs`, `RankedIs` and `FirstIs` follow: filters, the sort by
  score and the cut to `k` keep hits that were there, each once, in the order the result
  claims. `Carried`: whatever dedupe, boost and cut do, a hit of the answer is one that was
  found, counts the found hits of its action, and shares its action with no other;
  `Complete`: before the cut no action that was found is missing.
* *Back ends*. The three differ in what they hand to that pipeline. `MemoryFinds` and
  `RemoteFinds`: all documents of the place that match, or the best `limit` of them.
  `FaissFinds` looks the vectors' positions up in the row file, and the two files may be of
  different writes, so a position may have no row. `RowsInv` says what all of them rely on:
  the rows of a place and of a row file hold each id once, unless they are unreadable,
  whatever writers overlap.

`FetchReaches` is where the two meet. Dedupe and filters come after the over-fetch, so an
answer has all it could have only if the over-fetch reached everything the place
holds. The property promises that (`whole`) for places of at most `k + 5` documents, a
`k` below one counting as one, and of at most 50.

### RulesProofs

`Cases` says that an output is what the operators make of an input, and takes one
lemma; the theorems are then about the operators, with no state in them.

* `DecisionsRestrictedCorrect`, `PatchFailsClosedCorrect`: what passes
  `prepare_resume_patch` is filtered by allowlist and metadata (`ResumeDoes`), and a merge
  (`MergedKeys`, `Applied`) changes nothing but its keys, under the target or flat.
* `DeadPoliciesCorrect`: in one direction a request is exhibited for each of the three
  ways to answer, in the other each of them follows from an accepted request.
* `RoutesMeanWhatTheySayCorrect`: `WhenLeads` by the four conditions, each through the
  config its router is given, and `SwitchLeads` by what `else` does to the cases.
* `WebSearchStaysBoundedCorrect`: `top_k` is clamped before the call and hits after it.
* `AcceptedDefinitionsBuildCorrect`, for definitions without `invoke_agent`: four lemmas, one for each conjunct of `Compiles`.
  `NodesFit`: what a factory asks of its node is none of the keys that bindings, gates and
  the agent's name add (`OwnConfig`, `FactoryFits`), and a plane is unresolved exactly when its YAML names an unset
  variable (`UnresolvedIs`). `BranchesFit`: a conditional edge is a route or an
  explicit one (`ConditionalsAre`), and the router a route becomes is refused for an
  unknown word of comparison only (`RouteFits`). `SessionFits`. `TargetsFit`: whatever an
  accepted graph leads to is a node or END, so of the edges LangGraph has nothing left
  to refuse.
* `BindingsFailClosedCorrect`: field by field from the YAML block through
  `ParseBindings` and `ResolveBinding` to the config the factory gets. That
  `Compiles` resolves the planes of every node is what makes an unset variable refuse.

### A2AProofs

First the task store (`TaskInv`): only the worker that holds the lock is between opening and
renaming, so what it renames is what it wrote (`FilesInv`), and all records of a task are of
one call (`OwnerInv`). Every step then keeps stored tasks, as long as the store is durable and
not cleared (`Kept`); `OwnerInv` is what a late `update_task`, which writes back a record it
has read long ago, needs in order to do no harm here.

* `AcceptedTaskIsFoundCorrect`, `PauseIsReportedCorrect`: `AnswerInv` says of an answer on the
  wire what the properties say of one that arrived: its task is stored, and its status tells
  of a pause. Of a run in this process `PauseIsReported` says the same but for one case, which
  it names: under `async_accept` a state with a task_id is reported `running`. An answer is sent only after the record is stored, and may then be late for as
  long as it likes.
* `CallOutcomeCorrect`: runs of a call and requests of it under way are together no more than the
  attempts dialed (`Fits`); an attempt adds a request, a run takes one, a loss only takes.
  All go to the place the binding of the first attempt names (`Aims`), whatever heartbeats say
  since. What is answered, recorded or done has been run (`RanInv`).

### Model-checked only

* Liveness: `DecisionTakesEffect` and `TurnIsAnswered`. Fairness and `ENABLED` are out of
  the prover's reach.
* Induction over data cannot be stated to the installed provers: the library's
  induction theorems take an operator. No property of the runs needs it any more.
  What is written with a recursive function (`Used`) is proved about as far as
  its defining equation goes: that no hit is in a context whose running length passes
  `max_chars` (`ContextFits`).

Every invariant and every action property that a passing run checks is proved, some under
the conditions on host and agent given above.

## Where code and text differ

Each is a run that TLC ends with a behaviour of the code.

| run | the text | the code |
|---|---|---|
| `hitl_race` | a session that was answered refuses a second resume (`tests/test_hitl.py:100`) | nothing marks the record until the resumed run closes or pauses (`hitl/sessions.py:238`): two resumes pass the check, both are audited and run |
| `session_message` | "Appends the current user message to messages" (`session/nodes.py:5`) | `user_message` of an earlier turn is still in the checkpoint and is preferred to `message` (`session/router.py:26`) |
| `session_review` | "If state.hitl_decisions[gate_id] already has a decision (resume), the gate ... continues" (`hitl/gate.py:59`) | the decision stays in the checkpoint, so the gate lets later turns of the thread through that nobody reviewed (`hitl/gate.py:93`) |

## Known limits of the code

Behaviours met while modelling that no run is spent on.

* A gate whose `gate_id` is not its node id: the resume target matches no node and
  the whole graph is skipped (`hitl/decorator.py:37`).
* Routers are not wrapped. Behind a skipped node they are evaluated on the
  snapshot, and a patch to a routed field can send a resume around its gate
  (`graph/builder.py:207`).
* The pause of an embedded child's gate is recorded under the child; its resume runs
  the child's graph alone and the parent's remaining nodes never run
  (`hitl/gate.py:117`).
* `graph/subgraph.py:272-275` says that shared-state embeds run again on a resume;
  they are skipped node by node (`graph/builder.py:149`).
* Outputs of an earlier turn are quoted as the answer of this one when they come
  first in the order of keys (`session/messages.py:77`).
* `session_prepare` is not wrapped by `skip_until_resume`: a resume appends the user's text again.
* A resume that dies leaves `hitl_resume_at` in the checkpoint of the thread.
* A resume whose thread id was only in the config runs on a new thread, and one
  whose conversation has gone on writes back the messages of its snapshot.
* `update_status` loses the body of a save that came between its read and its write.
* Of two overlapping saves the earlier version may reach the index last.
* The backfill's default statuses leave out rejected and superseded rows, so it
  never repairs a failed delete. Its `failed` count is always 0, as
  `maybe_index_experience` never raises (`experiences/backfill.py:108-133`).
* `should_persist_after_hitl` prefers `hitl_outcome` of an earlier gate to the
  decision of the last (`hitl/policy.py:193`), although rejected outcomes "should not
  create an official RecStore row" (`hitl/policy.py:189`). It shows only in an agent
  with a gate behind its apply node; `RejectedNotPersisted` is checked on one without.
* A persist adapter that fails after a resume is logged and dropped.
* A backfill indexes the rows it listed at its start, one that was rejected meanwhile too.
* A re-save without a card leaves the document of the previous version.

Of the rules, as `Rules` and `MCRules` state them:

* Definitions that are accepted and do not compile are exactly `LateFault`: node types
  and routers nobody registered, configs their factories refuse, a `compare` route with
  an unknown word, a null `top_k` (`nodes/builtin.py:295`, `390`), `allowed_domains` that
  cannot be iterated (`nodes/builtin.py:391`), node ids LangGraph reserves, two branches at one node, planes of a node that name an unset
  variable, entries of a session that name no node, a node called `session_prepare`, and
  a `session` block without `regenerate_phrases`, although `session/policy.py` has a
  default for it. All of them surface at the first `create_agent`.
* `else` of a switch covers a missing value only; another value without a case
  fails the run.
* A malformed `${ENV:...}` passes as a literal.
* `collect_cosmos_configure_kwargs` can put together one agent's endpoint and another's database.

Of the catalog and the stores:

* A cached parent keeps the children it was compiled with; `CacheFresh` is about its
  own definition.
* Texts of earlier registrations stay in the hub, and a directory an earlier version
  named hides newer inline texts.
* A malformed entry of a `prompts` or `skills` block raises when part of its texts are in
  the hub and the agent is registered; its directory is not set then
  (`content/inline.py:67`, `content/registry.py:145`).
* redis's `list_audit` may return fewer events than its limit, memory's returns all
  for a limit of 0.

Of A2A:

* An agent of this process that pauses under `async_accept` is reported `running`, not
  `input_needed`, when its state holds a task_id (`a2a/call.py:116`); the answer
  does not tell its caller that a person is awaited.
* `update_task` has neither lock nor rule about statuses: of two updates one is
  lost, and a finished task can be updated back. An accepted task whose process died
  stays `running`.
* Two processes that write one task share the name of its temporary file; `A2ATasks`
  has one process at a time.
* A bare state with a key of its own called `status` hides its pause.
* A runtime or listed binding replaces the whole entry; `healthy` is never read.
* A remote embedded `invoke_agent` node drops the peer's status.

Of retrieval:

* Registering a corpus again keeps the cached provider until
  `clear_retrieval_provider`.
* The environment's corpus map wins over `bindings.search.index`.
* Databricks hits carry no metadata, so any filter drops all of them.
* Over-fetch ends at `max(3k, k + 5)`, and at 50: filters and dedupe of a corpus that
  holds more may leave fewer hits than there are. A first hit longer than `max_chars`
  gives an empty context.
* Two corpora whose names differ in other characters than letters, digits, `-` and `_`
  only share their FAISS files, and find each other's rows (`retrieval/faiss_provider.py:40`).
* Adding to a FAISS corpus whose last write was cut off keeps vectors and rows out of
  step, so that positions without a row take the place of hits; a torn row file makes
  the corpus unreadable; two writers may mix files.

## What is not modelled

* Payloads: prompts, SQL, LLM answers, embeddings, scores. A node returns any value
  of its field or raises.
* Fan-out inside one graph. The graphs of `HitlFlow` and the paths of
  `SessionTurns` are sequential; two gates that pause in parallel branches are outside the model.
* Failures inside one access of a store: an access is atomic and durable. The
  exceptions are redis's two writes of a recommendation and the files of tasks and of FAISS.
* Listing and filters of sessions and of recommendations, outcome labels.
* Trimming of the prompt context (`session/messages.py`): it changes what an LLM is
  shown, not what the checkpoint holds.
* State mapping of mapped subgraphs, the turn list of a conversation, correlation
  headers, skills and templating of prompts, the numeric side of vector search.
* Embeds of more than one child per definition: the checks of a path do not depend on its siblings.
* Formatting, logging, tracing, argument parsing.

## Plan

Done: the core (HITL, sessions, recommendations), then A2A, the agent registry, the
rules, the back ends of the audit trail and retrieval, with every safety property proved.
Left, in this order:

1. **Composition**: a peer of `A2ACalls` that is an agent with gates, so that the
   status of an envelope comes from a paused run.
2. **Smaller components**: skills, mapped subgraphs, session filters, turns.

The order of what was modelled is that of the damage: what a reviewer decided and what
a customer was told first, what other agents were asked to do next, then what is
recomputed when it is wrong.

## Running it

```
tlc -workers 2 -config MCHitlReview.cfg MCHitlReview      # any run of PROJECT.json
tlapm HitlFlowProofs.tla
tlapm RecommendationsProofs.tla    # likewise any other module named ...Proofs
```

Operators named in a comment as `Mutant` are variants of the definition that
follows them, each the shape of a plausible mistake in that code; `PROJECT.json`
says which property notices it.
