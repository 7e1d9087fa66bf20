----------------------------- MODULE AgentCatalog -----------------------------
(***************************************************************************)
(* The agents of one process: the definitions that are registered, the       *)
(* compiled agents that are cached, the prompts the content hub holds for    *)
(* them and the rows that sync_registered_agents_to_store writes             *)
(* (registry/base.py, registry/agents.py, factories/agent.py,                *)
(* graph/subgraph.py, content/registry.py, store/registry.py), used by       *)
(* several threads.                                                         *)
(*                                                                         *)
(* The versions of an agent's YAML are numbered; the CONSTANTS say what each *)
(* contains.  A definition embeds at most one child.                        *)
(***************************************************************************)
EXTENDS StateStores, FiniteSetsExt

CONSTANTS
  Unset,           \* None
  Bad,             \* content that raises when it is loaded: a content_dir that is no
                   \* directory, or a prompts or skills block with a malformed entry
  Agents,          \* agent ids, numbers in their sorted order
  Versions,
  Threads,
  Child,           \* Child[a][v]: the agent an invoke_agent node embeds, or Unset
  MaxDepth,        \* MaxDepth[a][v]: max_depth of that node
  Sessioned,       \* Sessioned[a][v]: memory.strategy enables sessions
  Prompts,         \* Prompts[a][v]: the texts, <<chain, role>>, of its prompts block,
                   \* up to its first malformed entry
  ContentDir,      \* ContentDir[a][v]: the directory it names, Unset, or Bad if
                   \* its content raises before a directory is set
  Files,           \* Files[dir]: the texts found in a directory
  MaxCalls,        \* bound: calls begun
  OneWriter        \* one register and one sync at a time

ASSUME CatalogAssumption ==
  /\ Agents \subseteq Nat
  /\ Unset \notin Threads
  /\ \A a \in Agents, v \in Versions :
       /\ Child[a][v] \in Agents \cup {Unset}
       /\ MaxDepth[a][v] \in Nat \ {0}

\* The texts that chat messages are made of: inline ones are known by the version
\* that brought them, those of a directory by the directory.
Texts == Versions \cup {ContentDir[a][v] : a \in Agents, v \in Versions}

ASSUME ContentAssumption ==
  /\ Unset \notin Versions
  /\ Bad \notin Seq(Texts)
  /\ \A a \in Agents, v \in Versions : \A x \in Prompts[a][v] : x = <<x[1], x[2]>>

VARIABLES
  defs,            \* _REGISTRY: [Agents -> version or Unset]
  cache,           \* _CACHE: what each compiled agent is made of, or Unset
  lock,            \* holder of _CACHE_LOCK, or Unset
  inline,          \* InlineContentStore: [Agents -> [texts held -> version]]
  dirs,            \* ContentHub.directories
  store,           \* the StateStore
  op,              \* op[t]: the call a thread is in
  calls,           \* calls begun
  issued,          \* audit events created
  unaudited        \* history: agents with a row whose audit event was not written

vars == <<defs, cache, lock, inline, dirs, store, op, calls, issued, unaudited>>

Idle == [at |-> "idle"]
Busy(t) == op[t] # Idle
At(t, place) == op[t].at = place
Begin(t, call) ==
  /\ ~Busy(t)
  /\ calls < MaxCalls
  /\ calls' = calls + 1
  /\ op' = [op EXCEPT ![t] = call]
Go(t, call) == op' = [op EXCEPT ![t] = call] /\ UNCHANGED calls
Writing(place) == \E t \in Threads : op[t].at \in place

Init ==
  /\ defs = [a \in Agents |-> Unset]
  /\ cache = [a \in Agents |-> Unset]
  /\ lock = Unset
  /\ inline = [a \in Agents |-> <<>>]
  /\ dirs = [a \in Agents |-> Unset]
  /\ store \in {NewStore(b) : b \in StateBackends}
  /\ op = [t \in Threads |-> Idle]
  /\ calls = 0 /\ issued = 0 /\ unaudited = {}
-----------------------------------------------------------------------------
(* register_agent *)

Registering == {"pop", "content"}
Register(t, a, v, overwrite) ==
  /\ OneWriter => ~Writing(Registering)
  /\ defs[a] = Unset \/ overwrite
  /\ defs' = [defs EXCEPT ![a] = v]
  /\ Begin(t, [at |-> "pop", agent |-> a, version |-> v])
  /\ UNCHANGED <<cache, lock, inline, dirs, store, issued, unaudited>>

\* Mutant: the cache entry is popped without the lock.
PopCacheUnlocked(t) ==
  /\ At(t, "pop")
  /\ cache' = [cache EXCEPT ![op[t].agent] = Unset]
  /\ Go(t, [op[t] EXCEPT !.at = "content"])
  /\ UNCHANGED <<defs, lock, inline, dirs, store, issued, unaudited>>

PopCache(t) ==
  /\ At(t, "pop")
  /\ lock = Unset
  /\ cache' = [cache EXCEPT ![op[t].agent] = Unset]
  /\ Go(t, [op[t] EXCEPT !.at = "content"])
  /\ UNCHANGED <<defs, lock, inline, dirs, store, issued, unaudited>>

\* Mutant: a text that is already there is kept.
MergedKeeping(held, texts, v) ==
  [x \in DOMAIN held \cup texts |-> IF x \in DOMAIN held THEN held[x] ELSE v]

\* InlineContentStore.load_from_definition: texts are added or replaced, those of
\* an earlier version that are not named again stay.
Merged(held, texts, v) ==
  [x \in DOMAIN held \cup texts |-> IF x \in texts THEN v ELSE held[x]]

\* ContentHub.load_from_definition.  Bad content raises when some of the texts (all of
\* them, if it is the directory that is bad) are in and the agent is registered.
LoadContent(t) ==
  /\ At(t, "content")
  /\ LET a == op[t].agent
         v == op[t].version
     IN  /\ inline' = [inline EXCEPT ![a] = Merged(@, Prompts[a][v], v)]
         /\ dirs' = IF ContentDir[a][v] \in {Unset, Bad} THEN dirs
                    ELSE [dirs EXCEPT ![a] = ContentDir[a][v]]
  /\ Go(t, Idle)
  /\ UNCHANGED <<defs, cache, lock, store, issued, unaudited>>

\* ContentHub.get_prompt without overrides: the directory, then the inline text.
PromptText(a, text) ==
  IF dirs[a] # Unset /\ text \in Files[dirs[a]] THEN dirs[a]
  ELSE IF text \in DOMAIN inline[a] THEN inline[a][text] ELSE Unset

\* build_chat_messages needs a system text; a missing human one is skipped.
ChatMessages(a, chain) ==
  LET text(role) == PromptText(a, <<chain, role>>)
  IN  IF text("system") = Unset THEN Bad
      ELSE IF text("human") = Unset THEN <<text("system")>>
      ELSE <<text("system"), text("human")>>
-----------------------------------------------------------------------------
(* create_agent: the whole compilation happens under the lock. *)

Create(t, a) ==
  /\ lock = Unset
  /\ cache[a] = Unset
  /\ lock' = t
  /\ Begin(t, [at |-> "compile", agent |-> a, target |-> a, chain |-> <<>>])
  /\ UNCHANGED <<defs, cache, inline, dirs, store, issued, unaudited>>

AgentsOf(chain) == {chain[i].agent : i \in DOMAIN chain}

\* Mutant: only the agent that embeds it is compared with the child.
MayEmbedTwice(chain, a, v) ==
  /\ Child[a][v] # a
  /\ Len(chain) < MaxDepth[a][v]

\* The refusals of compile_child_subgraph before it looks the child up: chain is
\* the embed_stack, the agents above a.
MayEmbed(chain, a, v) ==
  /\ Child[a][v] # a
  /\ Child[a][v] \notin AgentsOf(chain)
  /\ Len(chain) < MaxDepth[a][v]

Compiling(t) == At(t, "compile")
TargetVersion(t) == defs[op[t].target]
Usable(t) == /\ TargetVersion(t) # Unset
             /\ op[t].chain # <<>> => ~Sessioned[op[t].target][TargetVersion(t)]
Compiled(t) == Append(op[t].chain, [agent |-> op[t].target, version |-> TargetVersion(t)])

\* One definition is looked up and its nodes are built, down to its child.
Descend(t) ==
  /\ Compiling(t) /\ Usable(t)
  /\ Child[op[t].target][TargetVersion(t)] # Unset
  /\ MayEmbed(op[t].chain, op[t].target, TargetVersion(t))
  /\ Go(t, [op[t] EXCEPT !.target = Child[op[t].target][TargetVersion(t)],
                         !.chain = Compiled(t)])
  /\ UNCHANGED <<defs, cache, lock, inline, dirs, store, issued, unaudited>>

Cached(t) ==
  /\ Compiling(t) /\ Usable(t)
  /\ Child[op[t].target][TargetVersion(t)] = Unset
  /\ cache' = [cache EXCEPT ![op[t].agent] = Compiled(t)]
  /\ lock' = Unset
  /\ Go(t, Idle)
  /\ UNCHANGED <<defs, inline, dirs, store, issued, unaudited>>

\* DefinitionError or AgentRegistryError: nothing is cached.
CompileFails(t) ==
  /\ Compiling(t)
  /\ Usable(t) => /\ Child[op[t].target][TargetVersion(t)] # Unset
                  /\ ~MayEmbed(op[t].chain, op[t].target, TargetVersion(t))
  /\ lock' = Unset
  /\ Go(t, Idle)
  /\ UNCHANGED <<defs, cache, inline, dirs, store, issued, unaudited>>
-----------------------------------------------------------------------------
(* clear_agent_cache, and clear_agent_registry, which goes on to the definitions. *)

ClearCache(t, registryToo) ==
  /\ lock = Unset
  /\ cache' = [a \in Agents |-> Unset]
  /\ Begin(t, IF registryToo THEN [at |-> "clear"] ELSE Idle)
  /\ UNCHANGED <<defs, lock, inline, dirs, store, issued, unaudited>>

ClearDefinitions(t) ==
  /\ At(t, "clear")
  /\ defs' = [a \in Agents |-> Unset]
  /\ Go(t, Idle)
  /\ UNCHANGED <<cache, lock, inline, dirs, store, issued, unaudited>>
-----------------------------------------------------------------------------
(* sync_registered_agents_to_store *)

Syncing == {"read", "upsert", "audit"}
Sync(t) ==
  /\ OneWriter => ~Writing(Syncing)
  /\ \E a \in Agents : defs[a] # Unset
  /\ Begin(t, [at |-> "read", todo |-> {a \in Agents : defs[a] # Unset}])
  /\ UNCHANGED <<defs, cache, lock, inline, dirs, store, issued, unaudited>>

\* The next id of list_agents; one that was cleared meanwhile raises.
SyncRead(t) ==
  /\ At(t, "read")
  /\ LET a == Min(op[t].todo)
     IN  Go(t, IF defs[a] = Unset THEN Idle
               ELSE [at |-> "upsert", todo |-> op[t].todo \ {a}, agent |-> a,
                     version |-> defs[a]])
  /\ UNCHANGED <<defs, cache, lock, inline, dirs, store, issued, unaudited>>

SyncUpsert(t) ==
  /\ At(t, "upsert")
  /\ store' = UpsertAgent(store, op[t].agent, op[t].version)
  /\ issued' = issued + 1
  /\ Go(t, [at |-> "audit", todo |-> op[t].todo, agent |-> op[t].agent,
            version |-> op[t].version, id |-> issued'])
  /\ UNCHANGED <<defs, cache, lock, inline, dirs, unaudited>>

SyncAudit(t) ==
  /\ At(t, "audit")
  /\ store' = AppendAudit(store, [id |-> op[t].id, agent |-> op[t].agent,
                                  version |-> op[t].version])
  /\ unaudited' = unaudited \ {op[t].agent}
  /\ Go(t, IF op[t].todo = {} THEN Idle ELSE [at |-> "read", todo |-> op[t].todo])
  /\ UNCHANGED <<defs, cache, lock, inline, dirs, issued>>

\* The store raises; a row whose event was not written stays.
SyncFails(t) ==
  /\ op[t].at \in {"upsert", "audit"}
  /\ unaudited' = IF At(t, "audit") THEN unaudited \cup {op[t].agent} ELSE unaudited
  /\ Go(t, Idle)
  /\ UNCHANGED <<defs, cache, lock, inline, dirs, store, issued>>

\* delete_agent, by whoever administers the catalog.
DeleteRow(a) ==
  /\ a \in DOMAIN store.rows
  /\ calls < MaxCalls
  /\ calls' = calls + 1
  /\ store' = DeleteAgent(store, a)
  /\ UNCHANGED <<defs, cache, lock, inline, dirs, op, issued, unaudited>>
-----------------------------------------------------------------------------
RegisterStep(t) ==
  \/ \E a \in Agents, v \in Versions, overwrite \in BOOLEAN : Register(t, a, v, overwrite)
  \/ PopCache(t) \/ LoadContent(t)
CreateStep(t) ==
  (\E a \in Agents : Create(t, a)) \/ Descend(t) \/ Cached(t) \/ CompileFails(t)
ClearStep(t) == (\E all \in BOOLEAN : ClearCache(t, all)) \/ ClearDefinitions(t)
SyncStep(t) == Sync(t) \/ SyncRead(t) \/ SyncUpsert(t) \/ SyncAudit(t) \/ SyncFails(t)

Next ==
  \/ \E t \in Threads : RegisterStep(t) \/ CreateStep(t) \/ ClearStep(t) \/ SyncStep(t)
  \/ \E a \in Agents : DeleteRow(a)

Spec == Init /\ [][Next]_vars
-----------------------------------------------------------------------------
(* Properties *)

\* create_agent never goes on handing out an agent after a newer YAML of it was
\* registered: the registry is written before the cache entry is popped, and a
\* compilation that read the older one holds the lock until its result can be
\* popped (register_agent, create_agent).  Only the own definition counts: the
\* embedded children are as old as the compilation.
CacheFresh ==
  \A a \in Agents :
    cache[a] # Unset =>
      \/ cache[a][1].version = defs[a]
      \/ defs[a] = Unset
      \/ \E t \in Threads : At(t, "pop") /\ op[t].agent = a

\* A compiled agent contains no agent twice, nests no deeper than the innermost
\* node allows and embeds no agent with sessions, also when definitions change
\* while it is compiled (compile_child_subgraph).
EmbedsBounded ==
  \A a \in Agents :
    LET chain == cache[a]
    IN  chain # Unset =>
          /\ Cardinality(AgentsOf(chain)) = Len(chain)
          /\ \A i \in 2..Len(chain) :
               /\ ~Sessioned[chain[i].agent][chain[i].version]
               /\ i - 2 < MaxDepth[chain[i - 1].agent][chain[i - 1].version]

\* An agent that is registered, with no registration under way, runs its chains on
\* its own newest texts (those in front of a malformed entry), whatever earlier versions left in the hub, unless a
\* directory an earlier version named hides them (ContentHub.get_prompt).
ContentCurrent ==
  \A a \in Agents :
    LET v == defs[a]
    IN  (v # Unset /\ ~\E t \in Threads : op[t].at \in Registering /\ op[t].agent = a) =>
          \A x \in Prompts[a][v] :
            /\ PromptText(a, x) = v \/ (dirs[a] # Unset /\ x \in Files[dirs[a]])
            /\ x[2] = "system" => ChatMessages(a, x[1]) # Bad

\* Whatever the back end, the newest event it lists of an agent names the version
\* its catalog row holds, unless writing that event failed; redis may have dropped
\* it, and then lists none (sync_registered_agents_to_store).
AuditTellsCatalog ==
  \A a \in DOMAIN store.rows \ unaudited :
    (~\E t \in Threads : At(t, "audit") /\ op[t].agent = a) =>
      LET listed == ListAudit(store, a, 1)
      IN  \/ Len(listed) = 1 /\ listed[1].version = store.rows[a]
          \/ listed = <<>> /\ store.backend = "redis"
=============================================================================
