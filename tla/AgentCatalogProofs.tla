-------------------------- MODULE AgentCatalogProofs --------------------------
(***************************************************************************)
(* Proofs of the invariants of AgentCatalog for any agents, versions, back    *)
(* ends and threads: CacheFresh and EmbedsBounded however the calls are       *)
(* interleaved, ContentCurrent and AuditTellsCatalog for one writer.          *)
(*                                                                         *)
(* CacheFresh alone says nothing of a compilation that is under way.  Fresh   *)
(* adds it: what a thread has read of the agent it compiles is the version    *)
(* that is registered, or nothing is registered, or the entry will still be  *)
(* popped.  It is kept because a pop needs the lock the compiling thread      *)
(* holds (LockHeld), so no pop is done between the read and the caching.     *)
(***************************************************************************)
EXTENDS AgentCatalog, FiniteSetTheorems, SequenceTheorems, WellFoundedInduction, TLAPS

Link == [agent : Agents, version : Versions \cup {Unset}]
Compilation == [at : {"compile"}, agent : Agents, target : Agents, chain : Seq(Link)]

Shape ==
  /\ defs \in [Agents -> Versions \cup {Unset}]
  /\ DOMAIN cache = Agents /\ DOMAIN op = Threads
  /\ \A t \in Threads :
       /\ "at" \in DOMAIN op[t]
       /\ Compiling(t) => op[t] \in Compilation
       /\ Compiling(t) /\ op[t].chain = <<>> => op[t].target = op[t].agent

LockHeld == \A t \in Threads : Compiling(t) => lock = t

Pending(a) == \E t \in Threads : At(t, "pop") /\ op[t].agent = a
Current(a, v) == v = defs[a] \/ defs[a] = Unset \/ Pending(a)

Fresh ==
  /\ \A a \in Agents : cache[a] # Unset => Current(a, cache[a][1].version)
  /\ \A t \in Threads : Compiling(t) /\ op[t].chain # <<>> =>
       Current(op[t].agent, op[t].chain[1].version)

Inv == Shape /\ LockHeld /\ Fresh
-----------------------------------------------------------------------------
\* What one more link makes of the chain of a compilation begins as it should.
LEMMA CompiledFirst ==
  ASSUME Inv, NEW t \in Threads, Compiling(t)
  PROVE  /\ Compiled(t) \in Seq(Link)
         /\ Current(op[t].agent, Compiled(t)[1].version)
<1>1. op[t] \in Compilation /\ TargetVersion(t) \in Versions \cup {Unset}
  BY DEF Inv, Shape, TargetVersion, Compilation
<1>2. PICK link \in Link : /\ link = [agent |-> op[t].target, version |-> TargetVersion(t)]
                           /\ Compiled(t) = Append(op[t].chain, link)
  BY <1>1 DEF Compiled, Link, Compilation
<1>3. op[t].chain \in Seq(Link) /\ link.version = TargetVersion(t)
  BY <1>1, <1>2 DEF Compilation
<1>4. CASE op[t].chain = <<>>
  <2>1. Compiled(t)[1] = link
    BY <1>2, <1>3, <1>4
  <2>2. op[t].target = op[t].agent
    BY <1>4 DEF Inv, Shape
  <2>3. Current(op[t].agent, link.version)
    BY <1>3, <2>2 DEF Current, TargetVersion
  <2> QED BY <1>2, <1>3, <2>1, <2>3
<1>5. CASE op[t].chain # <<>>
  <2>1. Compiled(t)[1] = op[t].chain[1]
    BY <1>2, <1>3, <1>5
  <2>2. Current(op[t].agent, op[t].chain[1].version)
    BY <1>5 DEF Inv, Fresh
  <2> QED BY <1>2, <1>3, <2>1, <2>2
<1> QED BY <1>4, <1>5

\* A step of a thread that has nothing to pop and does not compile afterwards, and
\* that leaves the definitions and the cache alone.
LEMMA Quiet ==
  ASSUME Inv, NEW t \in Threads, NEW call, "at" \in DOMAIN call,
         op' = [op EXCEPT ![t] = call], call.at \notin {"compile", "pop"},
         ~At(t, "pop"), UNCHANGED <<defs, cache>>,
         lock' = lock \/ Compiling(t)
  PROVE  Inv'
<1>1. DOMAIN op' = Threads /\ op'[t] = call /\ \A u \in Threads : u # t => op'[u] = op[u]
  BY DEF Inv, Shape
<1>2. \A u \in Threads : Compiling(u)' => u # t /\ Compiling(u)
  BY <1>1 DEF Compiling, At
<1>3. Shape'
  BY <1>1, <1>2 DEF Inv, Shape, Compilation
<1>4. LockHeld'
  BY <1>2 DEF Inv, LockHeld
<1>5. \A a : Pending(a) => Pending(a)'
  BY <1>1 DEF Pending, At
<1>6. \A a, v : Current(a, v) => Current(a, v)'
  BY <1>5 DEF Current
<1>7. Fresh'
  BY <1>1, <1>2, <1>6 DEF Inv, Fresh
<1> QED BY <1>3, <1>4, <1>7 DEF Inv

LEMMA RegisterInv ==
  ASSUME Inv, NEW t \in Threads, NEW a \in Agents, NEW v \in Versions,
         NEW overwrite \in BOOLEAN, Register(t, a, v, overwrite)
  PROVE  Inv'
<1>1. /\ op[t] = Idle
      /\ op' = [op EXCEPT ![t] = [at |-> "pop", agent |-> a, version |-> v]]
      /\ defs' = [defs EXCEPT ![a] = v]
      /\ UNCHANGED <<cache, lock>>
  BY DEF Register, Begin, Busy
<1>2. /\ DOMAIN op' = Threads /\ \A u \in Threads : u # t => op'[u] = op[u]
      /\ op'[t] = [at |-> "pop", agent |-> a, version |-> v]
  BY <1>1 DEF Inv, Shape
<1>3. \A u \in Threads : Compiling(u)' => u # t /\ Compiling(u)
  BY <1>2 DEF Compiling, At
<1>4. Shape'
  BY <1>1, <1>2, <1>3 DEF Inv, Shape, Compilation
<1>5. LockHeld'
  BY <1>1, <1>3 DEF Inv, LockHeld
<1>6. Pending(a)' /\ \A b : Pending(b) => Pending(b)'
  BY <1>1, <1>2 DEF Pending, At, Idle
<1>7. \A b \in Agents : \A w : Current(b, w) => Current(b, w)'
  BY <1>1, <1>6 DEF Current, Inv, Shape
<1>8. Fresh'
  BY <1>1, <1>2, <1>3, <1>7 DEF Inv, Shape, Fresh, Compilation
<1> QED BY <1>4, <1>5, <1>8 DEF Inv

\* Nobody compiles while the entry is popped, for the lock is free.
LEMMA PopInv ==
  ASSUME Inv, NEW t \in Threads, PopCache(t)
  PROVE  Inv'
<1>1. /\ At(t, "pop") /\ lock = Unset
      /\ cache' = [cache EXCEPT ![op[t].agent] = Unset]
      /\ op' = [op EXCEPT ![t] = [op[t] EXCEPT !.at = "content"]]
      /\ UNCHANGED <<defs, lock>>
  BY DEF PopCache, Go
<1>2. /\ DOMAIN op' = Threads /\ \A u \in Threads : u # t => op'[u] = op[u]
      /\ "at" \in DOMAIN op'[t] /\ op'[t].at = "content"
  BY <1>1 DEF Inv, Shape
<1>3. \A u \in Threads : ~Compiling(u)'
  <2>1. \A u \in Threads : ~Compiling(u)
    BY <1>1, CatalogAssumption DEF Inv, LockHeld
  <2> QED BY <1>2, <2>1 DEF Compiling, At
<1>4. Shape' /\ LockHeld'
  BY <1>1, <1>2, <1>3 DEF Inv, Shape, LockHeld
<1>5. \A b : b # op[t].agent /\ Pending(b) => Pending(b)'
  BY <1>2 DEF Pending, At
<1>6. \A b \in Agents : cache'[b] # Unset => b # op[t].agent /\ cache'[b] = cache[b]
  BY <1>1 DEF Inv, Shape
<1>7. \A b \in Agents : \A v : b # op[t].agent /\ Current(b, v) => Current(b, v)'
  BY <1>1, <1>5 DEF Current
<1>8. Fresh'
  BY <1>3, <1>6, <1>7 DEF Inv, Fresh
<1> QED BY <1>4, <1>8 DEF Inv

LEMMA CreateInv ==
  ASSUME Inv, NEW t \in Threads, NEW a \in Agents, Create(t, a)
  PROVE  Inv'
<1> DEFINE call == [at |-> "compile", agent |-> a, target |-> a, chain |-> <<>>]
<1>1. /\ op[t] = Idle /\ lock = Unset /\ lock' = t
      /\ op' = [op EXCEPT ![t] = call] /\ UNCHANGED <<defs, cache>>
  BY DEF Create, Begin, Busy
<1>2. DOMAIN op' = Threads /\ op'[t] = call /\ \A u \in Threads : u # t => op'[u] = op[u]
  BY <1>1 DEF Inv, Shape
<1>3. \A u \in Threads : u # t => ~Compiling(u)'
  BY <1>1, <1>2, CatalogAssumption DEF Inv, LockHeld, Compiling, At
<1>4. call \in Compilation /\ call.chain = <<>> /\ call.target = call.agent
  BY DEF Compilation
<1>5. Shape' /\ LockHeld'
  BY <1>1, <1>2, <1>3, <1>4 DEF Inv, Shape, LockHeld
<1>6. \A b : Pending(b) => Pending(b)'
  BY <1>1, <1>2 DEF Pending, At, Idle
<1>7. Fresh'
  BY <1>1, <1>2, <1>3, <1>4, <1>6 DEF Inv, Fresh, Current
<1> QED BY <1>5, <1>7 DEF Inv

LEMMA DescendInv ==
  ASSUME Inv, NEW t \in Threads, Descend(t)
  PROVE  Inv'
<1> DEFINE child == Child[op[t].target][TargetVersion(t)]
           call == [op[t] EXCEPT !.target = child, !.chain = Compiled(t)]
<1>1. /\ Compiling(t) /\ TargetVersion(t) # Unset /\ child # Unset
      /\ op' = [op EXCEPT ![t] = call] /\ UNCHANGED <<defs, cache, lock>>
  BY DEF Descend, Go, Usable
<1>2. op[t] \in Compilation /\ child \in Agents
  BY <1>1, CatalogAssumption DEF Inv, Shape, Compilation, TargetVersion
<1>3. /\ Compiled(t) \in Seq(Link) /\ Compiled(t) # <<>>
      /\ Current(op[t].agent, Compiled(t)[1].version)
  <2>1. op[t].chain \in Seq(Link)
    BY <1>2 DEF Compilation
  <2>2. Compiled(t) # <<>>
    BY <2>1 DEF Compiled
  <2> QED BY <1>1, <2>2, CompiledFirst
<1>4. call \in Compilation /\ call.agent = op[t].agent /\ call.chain = Compiled(t)
  BY <1>2, <1>3 DEF Compilation
<1> HIDE DEF call
<1>5. DOMAIN op' = Threads /\ op'[t] = call /\ \A u \in Threads : u # t => op'[u] = op[u]
  BY <1>1 DEF Inv, Shape
<1>6. call.at = "compile" /\ "at" \in DOMAIN call
  BY <1>4 DEF Compilation
<1>7. \A u \in Threads : Compiling(u)' => Compiling(u)
  BY <1>1, <1>5 DEF Compiling, At
<1>8. Shape' /\ LockHeld'
  BY <1>1, <1>3, <1>4, <1>5, <1>6, <1>7 DEF Inv, Shape, LockHeld
<1>9. \A b : Pending(b) => Pending(b)'
  BY <1>1, <1>5 DEF Pending, At, Compiling
<1>10. \A b, v : Current(b, v) => Current(b, v)'
  BY <1>1, <1>9 DEF Current
<1>11. Fresh'
  BY <1>1, <1>3, <1>4, <1>5, <1>7, <1>10 DEF Inv, Fresh
<1> QED BY <1>8, <1>11 DEF Inv

LEMMA CachedInv ==
  ASSUME Inv, NEW t \in Threads, Cached(t)
  PROVE  Inv'
<1>1. /\ Compiling(t) /\ lock' = Unset
      /\ cache' = [cache EXCEPT ![op[t].agent] = Compiled(t)]
      /\ op' = [op EXCEPT ![t] = Idle] /\ UNCHANGED defs
  BY DEF Cached, Go
<1>2. DOMAIN op' = Threads /\ op'[t] = Idle /\ \A u \in Threads : u # t => op'[u] = op[u]
  BY <1>1 DEF Inv, Shape
<1>3. \A u \in Threads : ~Compiling(u)'
  BY <1>1, <1>2 DEF Inv, LockHeld, Compiling, At, Idle
<1>4. Shape' /\ LockHeld'
  BY <1>1, <1>2, <1>3 DEF Inv, Shape, LockHeld, Idle
<1>5. \A b : Pending(b) => Pending(b)'
  BY <1>1, <1>2 DEF Pending, At, Compiling
<1>6. \A b, v : Current(b, v) => Current(b, v)'
  BY <1>1, <1>5 DEF Current
<1>7. Current(op[t].agent, Compiled(t)[1].version)
  BY <1>1, CompiledFirst
<1>8. \A b \in Agents : cache'[b] = IF b = op[t].agent THEN Compiled(t) ELSE cache[b]
  BY <1>1 DEF Inv, Shape
<1>9. ASSUME NEW b \in Agents, cache'[b] # Unset
      PROVE  Current(b, cache[b][1].version)'
  <2>1. CASE b = op[t].agent
    BY <1>6, <1>7, <1>8, <2>1
  <2>2. CASE b # op[t].agent
    BY <1>6, <1>8, <1>9, <2>2 DEF Inv, Fresh
  <2> QED BY <2>1, <2>2
<1>10. Fresh'
  BY <1>3, <1>9 DEF Fresh
<1> QED BY <1>4, <1>10 DEF Inv

LEMMA ClearInv ==
  ASSUME Inv, NEW t \in Threads, ClearStep(t)
  PROVE  Inv'
<1>1. PICK call : /\ "at" \in DOMAIN call /\ call.at \in {"idle", "clear"}
                  /\ op' = [op EXCEPT ![t] = call] /\ UNCHANGED lock
                  /\ op[t] = Idle \/ At(t, "clear")
                  /\ \/ cache' = [a \in Agents |-> Unset] /\ UNCHANGED defs
                     \/ defs' = [a \in Agents |-> Unset] /\ UNCHANGED cache
  BY DEF ClearStep, ClearCache, ClearDefinitions, Begin, Busy, Go, Idle
<1>2. DOMAIN op' = Threads /\ op'[t] = call /\ \A u \in Threads : u # t => op'[u] = op[u]
  BY <1>1 DEF Inv, Shape
<1>3. \A u \in Threads : Compiling(u)' => u # t /\ Compiling(u)
  BY <1>1, <1>2 DEF Compiling, At
<1>4. Shape' /\ LockHeld'
  BY <1>1, <1>2, <1>3 DEF Inv, Shape, LockHeld, Compilation
<1>5. \A b : Pending(b) => Pending(b)'
  BY <1>1, <1>2 DEF Pending, At, Idle
<1>6. \A b \in Agents : \A v : Current(b, v) => Current(b, v)'
  BY <1>1, <1>5 DEF Current
<1>7. \A b \in Agents : cache'[b] # Unset => cache'[b] = cache[b]
  BY <1>1
<1>8. Fresh'
  BY <1>2, <1>3, <1>6, <1>7 DEF Inv, Shape, Fresh, Compilation
<1> QED BY <1>4, <1>8 DEF Inv

\* The other steps of a thread neither pop nor compile.
LEMMA OtherInv ==
  ASSUME Inv, NEW t \in Threads, LoadContent(t) \/ CompileFails(t) \/ SyncStep(t)
  PROVE  Inv'
<1>1. CASE LoadContent(t)
  <2>1. At(t, "content") /\ op' = [op EXCEPT ![t] = Idle] /\ UNCHANGED <<defs, cache>>
    BY <1>1 DEF LoadContent, Go
  <2>2. lock' = lock \/ Compiling(t)
    BY <1>1 DEF LoadContent
  <2>3. "at" \in DOMAIN Idle /\ Idle.at = "idle"
    BY DEF Idle
  <2>4. ~At(t, "pop")
    BY <2>1 DEF At, Compiling
  <2> QED BY <2>1, <2>2, <2>3, <2>4, Quiet
<1>2. CASE CompileFails(t)
  <2>1. Compiling(t) /\ op' = [op EXCEPT ![t] = Idle] /\ UNCHANGED <<defs, cache>>
    BY <1>2 DEF CompileFails, Go
  <2>2. lock' = lock \/ Compiling(t)
    BY <1>2 DEF CompileFails
  <2>3. "at" \in DOMAIN Idle /\ Idle.at = "idle"
    BY DEF Idle
  <2>4. ~At(t, "pop")
    BY <2>1 DEF At, Compiling
  <2> QED BY <2>1, <2>2, <2>3, <2>4, Quiet
<1>3. CASE Sync(t)
  <2>1. op' = [op EXCEPT ![t] = [at |-> "read", todo |-> {a \in Agents : defs[a] # Unset}]]
    BY <1>3 DEF Sync, Begin
  <2>2. op[t] = Idle /\ UNCHANGED <<defs, cache, lock>>
    BY <1>3 DEF Sync, Begin, Busy
  <2> QED BY <2>1, <2>2, Quiet DEF At, Idle
<1>4. CASE SyncRead(t)
  <2> DEFINE a == Min(op[t].todo)
             call == IF defs[a] = Unset THEN Idle
                     ELSE [at |-> "upsert", todo |-> op[t].todo \ {a}, agent |-> a,
                           version |-> defs[a]]
  <2>1. At(t, "read") /\ op' = [op EXCEPT ![t] = call] /\ UNCHANGED <<defs, cache, lock>>
    BY <1>4 DEF SyncRead, Go
  <2>2. "at" \in DOMAIN call /\ call.at \in {"idle", "upsert"}
    BY DEF Idle
  <2> HIDE DEF call
  <2> QED BY <2>1, <2>2, Quiet DEF At
<1>5. CASE SyncUpsert(t)
  <2> DEFINE call == [at |-> "audit", todo |-> op[t].todo, agent |-> op[t].agent,
                    version |-> op[t].version, id |-> issued']
  <2>1. At(t, "upsert") /\ op' = [op EXCEPT ![t] = call] /\ UNCHANGED <<defs, cache, lock>>
    BY <1>5 DEF SyncUpsert, Go
  <2>2. "at" \in DOMAIN call /\ call.at = "audit"
    OBVIOUS
  <2> HIDE DEF call
  <2> QED BY <2>1, <2>2, Quiet DEF At
<1>6. CASE SyncAudit(t)
  <2> DEFINE call == IF op[t].todo = {} THEN Idle ELSE [at |-> "read", todo |-> op[t].todo]
  <2>1. At(t, "audit") /\ op' = [op EXCEPT ![t] = call] /\ UNCHANGED <<defs, cache, lock>>
    BY <1>6 DEF SyncAudit, Go
  <2>2. "at" \in DOMAIN call /\ call.at \in {"idle", "read"}
    BY DEF Idle
  <2> HIDE DEF call
  <2> QED BY <2>1, <2>2, Quiet DEF At
<1>7. CASE SyncFails(t)
  <2>1. op[t].at \in {"upsert", "audit"} /\ op' = [op EXCEPT ![t] = Idle] /\ UNCHANGED <<defs, cache>>
    BY <1>7 DEF SyncFails, Go
  <2>2. lock' = lock \/ Compiling(t)
    BY <1>7 DEF SyncFails
  <2>3. "at" \in DOMAIN Idle /\ Idle.at = "idle"
    BY DEF Idle
  <2>4. ~At(t, "pop")
    BY <2>1 DEF At, Compiling
  <2> QED BY <2>1, <2>2, <2>3, <2>4, Quiet
<1> QED BY <1>1, <1>2, <1>3, <1>4, <1>5, <1>6, <1>7 DEF SyncStep
-----------------------------------------------------------------------------
LEMMA InitInv == Init => Inv
  BY DEF Init, Inv, Shape, LockHeld, Fresh, Compiling, At, Idle

LEMMA InvStep == Inv /\ [Next]_vars => Inv'
<1> SUFFICES ASSUME Inv, [Next]_vars PROVE Inv'
  OBVIOUS
<1>1. CASE UNCHANGED <<defs, cache, lock, op>>
  <2>1. \A t : Compiling(t)' <=> Compiling(t)
    BY <1>1 DEF Compiling, At
  <2>2. \A a, v : Current(a, v) => Current(a, v)'
    BY <1>1 DEF Current, Pending, At
  <2>3. Shape' /\ LockHeld'
    BY <1>1, <2>1 DEF Inv, Shape, LockHeld
  <2>4. Fresh'
    BY <1>1, <2>1, <2>2 DEF Inv, Fresh
  <2> QED BY <2>3, <2>4 DEF Inv
<1>2. ASSUME NEW t \in Threads, RegisterStep(t)
      PROVE  Inv'
  BY <1>2, RegisterInv, PopInv, OtherInv DEF RegisterStep
<1>3. ASSUME NEW t \in Threads, CreateStep(t)
      PROVE  Inv'
  BY <1>3, CreateInv, DescendInv, CachedInv, OtherInv DEF CreateStep
<1>4. ASSUME NEW t \in Threads, ClearStep(t) \/ SyncStep(t)
      PROVE  Inv'
  BY <1>4, ClearInv, OtherInv
<1>5. ASSUME NEW a \in Agents, DeleteRow(a)
      PROVE  Inv'
  BY <1>1, <1>5 DEF DeleteRow
<1>6. CASE UNCHANGED vars
  BY <1>1, <1>6 DEF vars
<1> QED BY <1>2, <1>3, <1>4, <1>5, <1>6 DEF Next

\* create_agent never goes on handing out an agent after a newer YAML of it was
\* registered, however registrations, compilations and clears are interleaved.  Code:
\* register_agent writes the registry before it takes the lock to pop the entry.
THEOREM CacheFreshCorrect == Spec => []CacheFresh
<1>1. Inv => CacheFresh
  BY DEF Inv, Fresh, Current, Pending, CacheFresh
<1> QED BY <1>1, InitInv, InvStep, PTL DEF Spec
-----------------------------------------------------------------------------
(* EmbedsBounded: the chain of every compilation is nested as it should, and   *)
(* what it descends to next has passed the refusals of MayEmbed against the    *)
(* chain as it was, whatever has become of the definitions since.             *)

WellNested(chain) ==
  /\ IsFiniteSet(AgentsOf(chain))
  /\ Cardinality(AgentsOf(chain)) = Len(chain)
  /\ \A i \in 2..Len(chain) :
       /\ ~Sessioned[chain[i].agent][chain[i].version]
       /\ i - 2 < MaxDepth[chain[i - 1].agent][chain[i - 1].version]

Innermost(chain) == chain[Len(chain)]

\* A compilation that goes on below chain, with this target.
Embeddable(chain, target) ==
  /\ WellNested(chain)
  /\ target \notin AgentsOf(chain)
  /\ chain # <<>> =>
       Len(chain) - 1 < MaxDepth[Innermost(chain).agent][Innermost(chain).version]

Nesting ==
  /\ \A a \in Agents : cache[a] # Unset => WellNested(cache[a])
  /\ \A t \in Threads : Compiling(t) => Embeddable(op[t].chain, op[t].target)

\* One more link keeps a chain well nested.
LEMMA AppendNests ==
  ASSUME NEW chain \in Seq(Link), NEW link \in Link, Embeddable(chain, link.agent),
         chain # <<>> => ~Sessioned[link.agent][link.version]
  PROVE  /\ WellNested(Append(chain, link))
         /\ AgentsOf(Append(chain, link)) = AgentsOf(chain) \cup {link.agent}
<1> DEFINE longer == Append(chain, link)
<1>1. /\ longer \in Seq(Link) /\ Len(longer) = Len(chain) + 1 /\ Len(chain) \in Nat
      /\ \A i \in 1..Len(chain) : longer[i] = chain[i]
      /\ longer[Len(chain) + 1] = link
      /\ DOMAIN chain = 1..Len(chain) /\ DOMAIN longer = 1..(Len(chain) + 1)
  OBVIOUS
<1> HIDE DEF longer
<1>2. AgentsOf(longer) = AgentsOf(chain) \cup {link.agent}
  <2>1. ASSUME NEW x \in AgentsOf(longer) PROVE x \in AgentsOf(chain) \cup {link.agent}
    <3>1. PICK i \in 1..(Len(chain) + 1) : x = longer[i].agent
      BY <1>1, <2>1 DEF AgentsOf
    <3>2. i \in 1..Len(chain) \/ i = Len(chain) + 1
      BY <1>1, <3>1
    <3> QED BY <1>1, <3>1, <3>2 DEF AgentsOf
  <2>2. ASSUME NEW x \in AgentsOf(chain) PROVE x \in AgentsOf(longer)
    <3>1. PICK i \in 1..Len(chain) : x = chain[i].agent
      BY <1>1, <2>2 DEF AgentsOf
    <3>2. i \in DOMAIN longer /\ longer[i] = chain[i]
      BY <1>1, <3>1
    <3> QED BY <3>1, <3>2 DEF AgentsOf
  <2>3. link.agent \in AgentsOf(longer)
    <3>1. Len(chain) + 1 \in DOMAIN longer
      BY <1>1
    <3> QED BY <1>1, <3>1 DEF AgentsOf
  <2> QED BY <2>1, <2>2, <2>3
<1>3. IsFiniteSet(AgentsOf(longer)) /\ Cardinality(AgentsOf(longer)) = Len(longer)
  <2>1. /\ IsFiniteSet(AgentsOf(chain)) /\ link.agent \notin AgentsOf(chain)
        /\ Cardinality(AgentsOf(chain)) = Len(chain)
    BY DEF Embeddable, WellNested
  <2>2. /\ IsFiniteSet(AgentsOf(chain) \cup {link.agent})
        /\ Cardinality(AgentsOf(chain) \cup {link.agent}) = Cardinality(AgentsOf(chain)) + 1
    BY <2>1, FS_AddElement
  <2> QED BY <1>1, <1>2, <2>1, <2>2
<1>4. ASSUME NEW i \in 2..Len(longer)
      PROVE  /\ ~Sessioned[longer[i].agent][longer[i].version]
             /\ i - 2 < MaxDepth[longer[i - 1].agent][longer[i - 1].version]
  <2>1. CASE i \in 2..Len(chain)
    <3>1. i \in 1..Len(chain) /\ i - 1 \in 1..Len(chain)
      BY <1>1, <2>1
    <3> QED BY <1>1, <2>1, <3>1 DEF Embeddable, WellNested
  <2>2. CASE i = Len(chain) + 1
    <3>1. /\ i - 1 = Len(chain) /\ i - 2 = Len(chain) - 1
          /\ Len(chain) \in 1..Len(chain) /\ chain # <<>>
      BY <1>1, <1>4, <2>2
    <3> QED BY <1>1, <2>2, <3>1 DEF Embeddable, Innermost
  <2>3. i \in 2..Len(chain) \/ i = Len(chain) + 1
    BY <1>1, <1>4
  <2> QED BY <2>1, <2>2, <2>3
<1>5. WellNested(longer)
  BY <1>3, <1>4 DEF WellNested
<1> QED BY <1>2, <1>5 DEF longer

\* What a compilation has compiled, when it caches it or goes on below it.
LEMMA CompiledNests ==
  ASSUME Inv, Nesting, NEW t \in Threads, Compiling(t), Usable(t)
  PROVE  /\ WellNested(Compiled(t)) /\ Compiled(t) # <<>>
         /\ AgentsOf(Compiled(t)) = AgentsOf(op[t].chain) \cup {op[t].target}
         /\ Len(Compiled(t)) = Len(op[t].chain) + 1 /\ Len(op[t].chain) \in Nat
         /\ Innermost(Compiled(t)).agent = op[t].target
         /\ Innermost(Compiled(t)).version = TargetVersion(t)
<1>1. op[t] \in Compilation /\ TargetVersion(t) \in Versions \cup {Unset}
  BY DEF Inv, Shape, TargetVersion, Compilation
<1>2. PICK link \in Link : /\ link = [agent |-> op[t].target, version |-> TargetVersion(t)]
                           /\ Compiled(t) = Append(op[t].chain, link)
  BY <1>1 DEF Compiled, Link, Compilation
<1>3. /\ op[t].chain \in Seq(Link)
      /\ link.agent = op[t].target /\ link.version = TargetVersion(t)
  BY <1>1, <1>2 DEF Compilation
<1>4. Embeddable(op[t].chain, link.agent)
  BY <1>3 DEF Nesting
<1>5. op[t].chain # <<>> => ~Sessioned[link.agent][link.version]
  BY <1>3 DEF Usable
<1>6. /\ WellNested(Compiled(t))
      /\ AgentsOf(Compiled(t)) = AgentsOf(op[t].chain) \cup {op[t].target}
  BY <1>2, <1>3, <1>4, <1>5, AppendNests
<1>7. /\ Len(Compiled(t)) = Len(op[t].chain) + 1 /\ Len(op[t].chain) \in Nat
      /\ Compiled(t) # <<>> /\ Compiled(t)[Len(op[t].chain) + 1] = link
  BY <1>2, <1>3
<1> QED BY <1>3, <1>6, <1>7 DEF Innermost

LEMMA EmptyNests ==
  \A target : Embeddable(<<>>, target)
<1>1. AgentsOf(<<>>) = {}
  BY DEF AgentsOf
<1>2. Len(<<>>) = 0 /\ 2..0 = {}
  OBVIOUS
<1> QED BY <1>1, <1>2, FS_EmptySet DEF Embeddable, WellNested

LEMMA NestingStep == Inv /\ Nesting /\ [Next]_vars => Nesting'
<1> SUFFICES ASSUME Inv, Nesting, [Next]_vars PROVE Nesting'
  OBVIOUS
<1>1. ASSUME NEW t \in Threads, NEW a \in Agents, Create(t, a)
      PROVE  Nesting'
  <2>1. op' = [op EXCEPT ![t] =
                   [at |-> "compile", agent |-> a, target |-> a, chain |-> <<>>]]
    BY <1>1 DEF Create, Begin
  <2>2. cache' = cache
    BY <1>1 DEF Create
  <2>3. op'[t].chain = <<>> /\ \A u \in Threads : u # t => op'[u] = op[u]
    BY <2>1 DEF Inv, Shape
  <2> QED BY <2>2, <2>3, EmptyNests DEF Nesting, Compiling, At
<1>2. ASSUME NEW t \in Threads, Descend(t)
      PROVE  Nesting'
  <2> DEFINE child == Child[op[t].target][TargetVersion(t)]
             call == [op[t] EXCEPT !.target = child, !.chain = Compiled(t)]
  <2>1. /\ Compiling(t) /\ Usable(t) /\ MayEmbed(op[t].chain, op[t].target, TargetVersion(t))
        /\ op' = [op EXCEPT ![t] = call] /\ cache' = cache
    BY <1>2 DEF Descend, Go
  <2>2. op[t] \in Compilation
    BY <2>1 DEF Inv, Shape
  <2>3. call.target = child /\ call.chain = Compiled(t)
    BY <2>2 DEF Compilation
  <2>4. Embeddable(Compiled(t), child)
    <3>1. child \notin AgentsOf(Compiled(t))
      BY <2>1, CompiledNests DEF MayEmbed
    <3>2. Len(Compiled(t)) - 1 = Len(op[t].chain)
      BY <2>1, CompiledNests
    <3> QED BY <2>1, <3>1, <3>2, CompiledNests DEF Embeddable, MayEmbed
  <2> HIDE DEF call, child
  <2>5. op'[t] = call /\ \A u \in Threads : u # t => op'[u] = op[u]
    BY <2>1 DEF Inv, Shape
  <2> QED BY <2>1, <2>3, <2>4, <2>5 DEF Nesting, Compiling, At
<1>3. ASSUME NEW t \in Threads, Cached(t)
      PROVE  Nesting'
  <2>1. /\ Compiling(t) /\ Usable(t) /\ op' = [op EXCEPT ![t] = Idle]
        /\ cache' = [cache EXCEPT ![op[t].agent] = Compiled(t)]
    BY <1>3 DEF Cached, Go
  <2>2. /\ \A u \in Threads : Compiling(u)' => op'[u] = op[u]
        /\ \A b \in Agents : cache'[b] = cache[b] \/ cache'[b] = Compiled(t)
    BY <2>1 DEF Inv, Shape, Compiling, At, Idle
  <2> QED BY <2>1, <2>2, CompiledNests DEF Nesting, Compiling, At
<1>4. ASSUME \A u \in Threads : Compiling(u)' => op'[u] = op[u],
             \A b \in Agents : cache'[b] = cache[b] \/ cache'[b] = Unset
      PROVE  Nesting'
  BY <1>4 DEF Nesting, Compiling, At
<1>5. ASSUME NEW t \in Threads, NEW call, "at" \in DOMAIN call, call.at # "compile",
             op' = [op EXCEPT ![t] = call],
             \A b \in Agents : cache'[b] = cache[b] \/ cache'[b] = Unset
      PROVE  Nesting'
  <2>1. \A u \in Threads : Compiling(u)' => op'[u] = op[u]
    BY <1>5 DEF Inv, Shape, Compiling, At
  <2> QED BY <1>4, <1>5, <2>1
<1>6. ASSUME NEW t \in Threads, NEW a \in Agents, NEW v \in Versions,
             NEW overwrite \in BOOLEAN, Register(t, a, v, overwrite)
      PROVE  Nesting'
  <2> DEFINE call == [at |-> "pop", agent |-> a, version |-> v]
  <2>1. op' = [op EXCEPT ![t] = call] /\ cache' = cache
    BY <1>6 DEF Register, Begin
  <2>2. "at" \in DOMAIN call /\ call.at # "compile"
    OBVIOUS
  <2> HIDE DEF call
  <2> QED BY <1>5, <2>1, <2>2
<1>7. ASSUME NEW t \in Threads, PopCache(t) PROVE Nesting'
  <2>1. /\ At(t, "pop") /\ cache' = [cache EXCEPT ![op[t].agent] = Unset]
        /\ op' = [op EXCEPT ![t] = [op[t] EXCEPT !.at = "content"]]
    BY <1>7 DEF PopCache, Go
  <2>2. \A b \in Agents : cache'[b] = cache[b] \/ cache'[b] = Unset
    BY <2>1 DEF Inv, Shape
  <2>3. \A u \in Threads : Compiling(u)' => op'[u] = op[u]
    BY <2>1 DEF Inv, Shape, Compiling, At
  <2> QED BY <1>4, <2>2, <2>3
<1>8. ASSUME NEW t \in Threads, LoadContent(t) \/ CompileFails(t) \/ SyncFails(t)
      PROVE  Nesting'
  <2>1. op' = [op EXCEPT ![t] = Idle] /\ cache' = cache
    BY <1>8 DEF LoadContent, CompileFails, SyncFails, Go
  <2>2. "at" \in DOMAIN Idle /\ Idle.at # "compile"
    BY DEF Idle
  <2> QED BY <1>5, <2>1, <2>2
<1>9. ASSUME NEW t \in Threads, ClearStep(t) PROVE Nesting'
  <2>1. /\ \E call \in {Idle, [at |-> "clear"]} : op' = [op EXCEPT ![t] = call]
        /\ cache' = [a \in Agents |-> Unset] \/ UNCHANGED cache
    BY <1>9 DEF ClearStep, ClearCache, ClearDefinitions, Begin, Go
  <2>2. \A b \in Agents : cache'[b] = cache[b] \/ cache'[b] = Unset
    BY <2>1
  <2>3. \A call \in {Idle, [at |-> "clear"]} : "at" \in DOMAIN call /\ call.at # "compile"
    BY DEF Idle
  <2> QED BY <1>5, <2>1, <2>2, <2>3
<1>10. ASSUME NEW t \in Threads, Sync(t) \/ SyncRead(t) \/ SyncUpsert(t) \/ SyncAudit(t)
      PROVE  Nesting'
  <2> DEFINE a == Min(op[t].todo)
             reads == [at |-> "read", todo |-> {b \in Agents : defs[b] # Unset}]
             next == IF defs[a] = Unset THEN Idle
                     ELSE [at |-> "upsert", todo |-> op[t].todo \ {a}, agent |-> a,
                           version |-> defs[a]]
             audit == [at |-> "audit", todo |-> op[t].todo, agent |-> op[t].agent,
                       version |-> op[t].version, id |-> issued']
             rest == IF op[t].todo = {} THEN Idle ELSE [at |-> "read", todo |-> op[t].todo]
  <2>1. \E call \in {reads, next, audit, rest} : op' = [op EXCEPT ![t] = call]
    BY <1>10 DEF Sync, SyncRead, SyncUpsert, SyncAudit, Begin, Go
  <2>2. cache' = cache
    BY <1>10 DEF Sync, SyncRead, SyncUpsert, SyncAudit
  <2>3. \A call \in {reads, next, audit, rest} : "at" \in DOMAIN call /\ call.at # "compile"
    BY DEF Idle
  <2> QED BY <1>5, <2>1, <2>2, <2>3
<1>11. CASE UNCHANGED <<op, cache>>
  BY <1>4, <1>11
<1>12. ASSUME NEW a \in Agents, DeleteRow(a) PROVE UNCHANGED <<op, cache>>
  BY <1>12 DEF DeleteRow
<1>13. UNCHANGED vars => UNCHANGED <<op, cache>>
  BY DEF vars
<1> QED
  BY <1>1, <1>2, <1>3, <1>6, <1>7, <1>8, <1>9, <1>10, <1>11, <1>12, <1>13
  DEF Next, RegisterStep, CreateStep, SyncStep

\* No agent that create_agent hands out contains an agent twice, nests deeper than the
\* innermost node allows or embeds an agent with sessions, for any definitions and
\* however they change while it is compiled (compile_child_subgraph).
THEOREM EmbedsBoundedCorrect == Spec => []EmbedsBounded
<1>1. Init => Nesting
  BY DEF Init, Nesting, Compiling, At, Idle
<1>2. Nesting => EmbedsBounded
  BY DEF Nesting, WellNested, EmbedsBounded
<1> QED BY <1>1, <1>2, InitInv, InvStep, NestingStep, PTL DEF Spec
-----------------------------------------------------------------------------
(* ContentCurrent: between its registration and the loading of its texts an agent is  *)
(* registered without them, so the invariant says of the thread in between that the   *)
(* version it brings is still the one registered, or none is.  A second registration  *)
(* in between would break this, which is why the theorem is about one writer.         *)

Brings(t) == op[t].at \in Registering
Loaded(a) == \A x \in Prompts[a][defs[a]] : x \in DOMAIN inline[a] /\ inline[a][x] = defs[a]

TextTypes ==
  /\ DOMAIN inline = Agents /\ DOMAIN dirs = Agents
  /\ \A a \in Agents : /\ \A x \in DOMAIN inline[a] : inline[a][x] \in Versions
                       /\ dirs[a] \in Texts \cup {Unset}
TextInv ==
  /\ TextTypes
  /\ \A t, u \in Threads : Brings(t) /\ Brings(u) => t = u
  /\ \A t \in Threads : Brings(t) =>
       /\ op[t].agent \in Agents /\ op[t].version \in Versions
       /\ defs[op[t].agent] \in {Unset, op[t].version}
       /\ {"at", "agent", "version"} \subseteq DOMAIN op[t]
  /\ \A a \in Agents : defs[a] # Unset /\ (~\E t \in Threads : Brings(t) /\ op[t].agent = a)
       => Loaded(a)

\* The texts of an agent that is loaded make chat messages.
LEMMA LoadedSpeaks ==
  ASSUME TextTypes, NEW a \in Agents, defs[a] \in Versions, Loaded(a),
         NEW x \in Prompts[a][defs[a]]
  PROVE  /\ \/ PromptText(a, x) = defs[a]
            \/ dirs[a] # Unset /\ x \in Files[dirs[a]]
         /\ x[2] = "system" => ChatMessages(a, x[1]) # Bad
<1> DEFINE text(role) == PromptText(a, <<x[1], role>>)
<1>1. \A y : PromptText(a, y) \in Texts \cup {Unset}
  BY DEF PromptText, TextTypes, Texts
<1>2. /\ \/ PromptText(a, x) = defs[a]
         \/ dirs[a] # Unset /\ x \in Files[dirs[a]]
      /\ PromptText(a, x) # Unset
  BY ContentAssumption DEF PromptText, Loaded
<1>3. ASSUME x[2] = "system" PROVE ChatMessages(a, x[1]) # Bad
  <2>1. x = <<x[1], "system">>
    BY <1>3, ContentAssumption
  <2>2. text("system") # Unset
    BY <1>2, <2>1
  <2>3. text("system") \in Texts /\ text("human") \in Texts \cup {Unset}
    BY <1>1, <2>2
  <2>4. ChatMessages(a, x[1]) = IF text("human") = Unset THEN <<text("system")>>
                                ELSE <<text("system"), text("human")>>
    BY <2>2 DEF ChatMessages
  <2> HIDE DEF text
  <2>5. ChatMessages(a, x[1]) \in Seq(Texts)
    BY <2>3, <2>4
  <2> QED BY <2>5, ContentAssumption
<1> QED BY <1>2, <1>3

\* A step of a thread that brings no texts, before or after.
LEMMA TextQuiet ==
  ASSUME Inv, TextInv, NEW t \in Threads, \A u \in Threads : u # t => op'[u] = op[u],
         op'[t].at \notin Registering, ~Brings(t),
         \A a \in Agents : defs'[a] \in {defs[a], Unset}, UNCHANGED <<inline, dirs>>
  PROVE  TextInv'
<1>1. \A u \in Threads : (Brings(u)' <=> Brings(u)) /\ (Brings(u) => op'[u] = op[u])
  BY DEF Brings
<1>2. TextTypes'
  BY DEF TextInv, TextTypes
<1>3. \A u, w \in Threads : Brings(u)' /\ Brings(w)' => u = w
  BY <1>1 DEF TextInv
<1>4. \A u \in Threads : Brings(u)' =>
        /\ op'[u].agent \in Agents /\ op'[u].version \in Versions
        /\ defs'[op'[u].agent] \in {Unset, op'[u].version}
        /\ {"at", "agent", "version"} \subseteq DOMAIN op'[u]
  BY <1>1 DEF TextInv
<1>5. ASSUME NEW a \in Agents, defs'[a] # Unset,
             ~\E u \in Threads : Brings(u)' /\ op'[u].agent = a
      PROVE  Loaded(a)'
  <2>1. defs'[a] = defs[a] /\ ~\E u \in Threads : Brings(u) /\ op[u].agent = a
    BY <1>1, <1>5
  <2>2. Loaded(a)
    BY <1>5, <2>1 DEF TextInv
  <2> QED BY <2>1, <2>2 DEF Loaded
<1> QED BY <1>2, <1>3, <1>4, <1>5 DEF TextInv

LEMMA RegisterTexts ==
  ASSUME OneWriter, Inv, TextInv, NEW t \in Threads, NEW a \in Agents, NEW v \in Versions,
         NEW overwrite \in BOOLEAN, Register(t, a, v, overwrite)
  PROVE  TextInv'
<1>1. /\ \A u \in Threads : ~Brings(u)
      /\ op' = [op EXCEPT ![t] = [at |-> "pop", agent |-> a, version |-> v]]
      /\ defs' = [defs EXCEPT ![a] = v]
      /\ UNCHANGED <<inline, dirs>>
  BY DEF Register, Begin, Writing, Brings
<1>2. /\ \A u \in Threads : u # t => op'[u] = op[u]
      /\ op'[t] = [at |-> "pop", agent |-> a, version |-> v]
      /\ \A b \in Agents : defs'[b] = IF b = a THEN v ELSE defs[b]
  BY <1>1 DEF Inv, Shape
<1>3. Brings(t)' /\ \A u \in Threads : Brings(u)' => u = t
  BY <1>1, <1>2 DEF Brings, Registering
<1>4. TextTypes'
  BY <1>1 DEF TextInv, TextTypes
<1>5. \A u \in Threads : Brings(u)' =>
        /\ op'[u].agent \in Agents /\ op'[u].version \in Versions
        /\ defs'[op'[u].agent] \in {Unset, op'[u].version}
        /\ {"at", "agent", "version"} \subseteq DOMAIN op'[u]
  BY <1>2, <1>3
<1>6. ASSUME NEW b \in Agents, defs'[b] # Unset,
             ~\E u \in Threads : Brings(u)' /\ op'[u].agent = b
      PROVE  Loaded(b)'
  <2>1. b # a
    BY <1>2, <1>3, <1>6
  <2>2. defs'[b] = defs[b] /\ Loaded(b)
    BY <1>1, <1>2, <1>6, <2>1 DEF TextInv
  <2> QED BY <1>1, <2>2 DEF Loaded
<1> QED BY <1>3, <1>4, <1>5, <1>6 DEF TextInv

LEMMA PopTexts ==
  ASSUME Inv, TextInv, NEW t \in Threads, PopCache(t)
  PROVE  TextInv'
<1>1. /\ At(t, "pop") /\ op' = [op EXCEPT ![t] = [op[t] EXCEPT !.at = "content"]]
      /\ UNCHANGED <<defs, inline, dirs>>
  BY DEF PopCache, Go
<1>2. Brings(t)
  BY <1>1 DEF At, Brings, Registering
<1>3. /\ \A u \in Threads : u # t => op'[u] = op[u]
      /\ op'[t].at = "content" /\ op'[t].agent = op[t].agent /\ op'[t].version = op[t].version
      /\ DOMAIN op'[t] = DOMAIN op[t]
  BY <1>1, <1>2 DEF Inv, Shape, TextInv
<1>4. \A u \in Threads : (Brings(u)' <=> Brings(u)) /\ op'[u].agent = op[u].agent
                         /\ op'[u].version = op[u].version /\ DOMAIN op'[u] = DOMAIN op[u]
  BY <1>2, <1>3 DEF Brings, Registering
<1>5. TextTypes'
  BY <1>1 DEF TextInv, TextTypes
<1>6. \A a \in Agents : Loaded(a) => Loaded(a)'
  BY <1>1 DEF Loaded
<1> QED BY <1>1, <1>4, <1>5, <1>6 DEF TextInv

LEMMA LoadTexts ==
  ASSUME Inv, TextInv, NEW t \in Threads, LoadContent(t)
  PROVE  TextInv'
<1> DEFINE a == op[t].agent
           v == op[t].version
           merged == Merged(inline[a], Prompts[a][v], v)
<1>1. /\ At(t, "content") /\ op' = [op EXCEPT ![t] = Idle] /\ UNCHANGED defs
      /\ inline' = [inline EXCEPT ![a] = merged]
      /\ dirs' = IF ContentDir[a][v] \in {Unset, Bad} THEN dirs
                 ELSE [dirs EXCEPT ![a] = ContentDir[a][v]]
  BY DEF LoadContent, Go
<1>2. /\ Brings(t) /\ a \in Agents /\ v \in Versions /\ defs[a] \in {Unset, v}
      /\ \A u \in Threads : Brings(u) => u = t
  <2>1. Brings(t)
    BY <1>1 DEF At, Brings, Registering
  <2> QED BY <2>1 DEF TextInv
<1>3. /\ DOMAIN merged = DOMAIN inline[a] \cup Prompts[a][v]
      /\ \A x \in DOMAIN merged : merged[x] = IF x \in Prompts[a][v] THEN v ELSE inline[a][x]
  BY DEF Merged
<1> HIDE DEF merged
<1>4. /\ DOMAIN inline' = Agents /\ DOMAIN dirs' = Agents
      /\ \A b \in Agents : inline'[b] = IF b = a THEN merged ELSE inline[b]
      /\ \A b \in Agents : dirs'[b] = dirs[b] \/ (b = a /\ dirs'[b] = ContentDir[a][v])
  BY <1>1, <1>2 DEF TextInv, TextTypes
<1>5. TextTypes'
  <2>1. ContentDir[a][v] \in Texts
    BY <1>2 DEF Texts
  <2>2. \A x \in DOMAIN merged : merged[x] \in Versions
    BY <1>2, <1>3 DEF TextInv, TextTypes
  <2> QED BY <1>4, <2>1, <2>2 DEF TextInv, TextTypes
<1>6. \A u \in Threads : ~Brings(u)'
  <2>1. op'[t] = Idle /\ \A u \in Threads : u # t => op'[u] = op[u]
    BY <1>1 DEF Inv, Shape
  <2>2. ~Brings(t)'
    BY <2>1 DEF Brings, Registering, Idle
  <2>3. \A u \in Threads : u # t => ~Brings(u)'
    BY <1>2, <2>1 DEF Brings
  <2> QED BY <2>2, <2>3
<1>7. ASSUME NEW b \in Agents, defs'[b] # Unset
      PROVE  Loaded(b)'
  <2>1. CASE b = a
    <3>1. defs'[a] = v
      BY <1>1, <1>2, <1>7, <2>1
    <3> QED BY <1>3, <1>4, <2>1, <3>1 DEF Loaded
  <2>2. CASE b # a
    <3>1. ~\E u \in Threads : Brings(u) /\ op[u].agent = b
      BY <1>2, <2>2
    <3>2. Loaded(b)
      BY <1>1, <1>7, <3>1 DEF TextInv
    <3> QED BY <1>1, <1>4, <2>2, <3>2 DEF Loaded
  <2> QED BY <2>1, <2>2
<1> QED BY <1>5, <1>6, <1>7 DEF TextInv

\* Where the steps of each kind of call take their thread.
LEMMA PlainMoves ==
  ASSUME Inv, NEW t \in Threads, CreateStep(t) \/ ClearStep(t)
  PROVE  /\ \A u \in Threads : u # t => op'[u] = op[u]
         /\ {op[t].at, op'[t].at} \subseteq {"idle", "compile", "clear"}
<1>1. CASE CreateStep(t)
  <2>1. CASE \E a \in Agents : Create(t, a)
    <3>1. PICK a \in Agents : Create(t, a)
      BY <2>1
    <3>2. op[t] = Idle
          /\ op' = [op EXCEPT ![t] = [at |-> "compile", agent |-> a, target |-> a, chain |-> <<>>]]
      BY <3>1 DEF Create, Begin, Busy
    <3> QED BY <3>2 DEF Inv, Shape, Compiling, At, Idle
  <2>2. CASE Descend(t)
    <3>1. op[t] \in Compilation /\ Compiling(t)
      BY <2>2 DEF Descend, Inv, Shape
    <3> DEFINE call == [op[t] EXCEPT !.target = Child[op[t].target][TargetVersion(t)],
                                     !.chain = Compiled(t)]
    <3>2. call.at = "compile"
      BY <3>1 DEF Compilation
    <3>3. op' = [op EXCEPT ![t] = call]
      BY <2>2 DEF Descend, Go
    <3> HIDE DEF call
    <3> QED BY <3>1, <3>2, <3>3 DEF Inv, Shape, Compiling, At, Idle
  <2>3. CASE Cached(t) \/ CompileFails(t)
    <3>1. Compiling(t) /\ op' = [op EXCEPT ![t] = Idle]
      BY <2>3 DEF Cached, CompileFails, Go
    <3> QED BY <3>1 DEF Inv, Shape, Idle, Compiling, At
  <2> QED BY <1>1, <2>1, <2>2, <2>3 DEF CreateStep
<1>2. CASE ClearStep(t)
  <2>1. PICK call : /\ call.at \in {"idle", "clear"} /\ op' = [op EXCEPT ![t] = call]
                    /\ op[t] = Idle \/ At(t, "clear")
    BY <1>2 DEF ClearStep, ClearCache, ClearDefinitions, Begin, Busy, Go, Idle
  <2> QED BY <2>1 DEF Inv, Shape, Compiling, At, Idle
<1> QED BY <1>1, <1>2

LEMMA RegisterMoves ==
  ASSUME Inv, NEW t \in Threads, RegisterStep(t)
  PROVE  /\ \A u \in Threads : u # t => op'[u] = op[u]
         /\ {op[t].at, op'[t].at} \subseteq {"idle", "pop", "content"}
<1>1. CASE \E a \in Agents, v \in Versions, overwrite \in BOOLEAN : Register(t, a, v, overwrite)
  <2>1. PICK a \in Agents, v \in Versions, overwrite \in BOOLEAN : Register(t, a, v, overwrite)
    BY <1>1
  <2>2. op[t] = Idle /\ op' = [op EXCEPT ![t] = [at |-> "pop", agent |-> a, version |-> v]]
    BY <2>1 DEF Register, Begin, Busy
  <2> QED BY <2>2 DEF Inv, Shape, Idle
<1>2. CASE PopCache(t)
  BY <1>2 DEF PopCache, Go, At, Inv, Shape
<1>3. CASE LoadContent(t)
  BY <1>3 DEF LoadContent, Go, At, Inv, Shape, Idle
<1> QED BY <1>1, <1>2, <1>3 DEF RegisterStep

LEMMA SyncMoves ==
  ASSUME Inv, NEW t \in Threads, SyncStep(t)
  PROVE  /\ \A u \in Threads : u # t => op'[u] = op[u]
         /\ {op[t].at, op'[t].at} \subseteq {"idle"} \cup Syncing
<1>1. CASE Sync(t)
  <2>1. op[t] = Idle
        /\ op' = [op EXCEPT ![t] = [at |-> "read", todo |-> {a \in Agents : defs[a] # Unset}]]
    BY <1>1 DEF Sync, Begin, Busy
  <2> QED BY <2>1 DEF Inv, Shape, Syncing, Idle
<1>2. CASE SyncRead(t)
  <2> DEFINE a == Min(op[t].todo)
             call == IF defs[a] = Unset THEN Idle
                     ELSE [at |-> "upsert", todo |-> op[t].todo \ {a}, agent |-> a,
                           version |-> defs[a]]
  <2>1. At(t, "read") /\ op' = [op EXCEPT ![t] = call]
    BY <1>2 DEF SyncRead, Go
  <2>2. call.at \in {"idle", "upsert"}
    BY DEF Idle
  <2> HIDE DEF call
  <2> QED BY <2>1, <2>2 DEF Inv, Shape, At, Syncing
<1>3. CASE SyncUpsert(t)
  <2> DEFINE call == [at |-> "audit", todo |-> op[t].todo, agent |-> op[t].agent,
                      version |-> op[t].version, id |-> issued']
  <2>1. At(t, "upsert") /\ op' = [op EXCEPT ![t] = call] /\ call.at = "audit"
    BY <1>3 DEF SyncUpsert, Go
  <2> HIDE DEF call
  <2> QED BY <2>1 DEF Inv, Shape, At, Syncing
<1>4. CASE SyncAudit(t)
  <2> DEFINE call == IF op[t].todo = {} THEN Idle ELSE [at |-> "read", todo |-> op[t].todo]
  <2>1. At(t, "audit") /\ op' = [op EXCEPT ![t] = call]
    BY <1>4 DEF SyncAudit, Go
  <2>2. call.at \in {"idle", "read"}
    BY DEF Idle
  <2> HIDE DEF call
  <2> QED BY <2>1, <2>2 DEF Inv, Shape, At, Syncing
<1>5. CASE SyncFails(t)
  <2>1. op[t].at \in {"upsert", "audit"} /\ op' = [op EXCEPT ![t] = Idle]
    BY <1>5 DEF SyncFails, Go
  <2> QED BY <2>1 DEF Inv, Shape, Syncing, Idle
<1> QED BY <1>1, <1>2, <1>3, <1>4, <1>5 DEF SyncStep

LEMMA OtherTexts ==
  ASSUME Inv, TextInv, NEW t \in Threads, CreateStep(t) \/ ClearStep(t) \/ SyncStep(t)
  PROVE  TextInv'
<1>1. ~Brings(t) /\ op'[t].at \notin Registering /\ \A u \in Threads : u # t => op'[u] = op[u]
  BY PlainMoves, SyncMoves DEF Brings, Registering, Syncing
<1>2. UNCHANGED <<inline, dirs>> /\ \A a \in Agents : defs'[a] \in {defs[a], Unset}
  <2>1. CASE CreateStep(t)
    BY <2>1 DEF CreateStep, Create, Descend, Cached, CompileFails
  <2>2. CASE ClearStep(t)
    BY <2>2 DEF ClearStep, ClearCache, ClearDefinitions
  <2>3. CASE SyncStep(t)
    BY <2>3 DEF SyncStep, Sync, SyncRead, SyncUpsert, SyncAudit, SyncFails
  <2> QED BY <2>1, <2>2, <2>3
<1> QED BY <1>1, <1>2, TextQuiet

LEMMA TextStep ==
  ASSUME OneWriter
  PROVE  Inv /\ TextInv /\ [Next]_vars => TextInv'
<1> SUFFICES ASSUME Inv, TextInv, [Next]_vars PROVE TextInv'
  OBVIOUS
<1>1. CASE UNCHANGED <<defs, inline, dirs, op>>
  BY <1>1 DEF TextInv, TextTypes, Brings, Loaded
<1>2. ASSUME NEW t \in Threads, RegisterStep(t)
      PROVE  TextInv'
  BY <1>2, RegisterTexts, PopTexts, LoadTexts DEF RegisterStep
<1>3. ASSUME NEW t \in Threads, CreateStep(t) \/ ClearStep(t) \/ SyncStep(t)
      PROVE  TextInv'
  BY <1>3, OtherTexts
<1>4. ASSUME NEW a \in Agents, DeleteRow(a)
      PROVE  TextInv'
  BY <1>1, <1>4 DEF DeleteRow
<1>5. CASE UNCHANGED vars
  BY <1>1, <1>5 DEF vars
<1> QED BY <1>2, <1>3, <1>4, <1>5 DEF Next

\* An agent that is registered runs on its own newest texts, whatever earlier versions
\* left in the hub, when registrations do not overlap.  Code: register_agent,
\* ContentHub.load_from_definition, InlineContentStore and get_prompt.
THEOREM ContentCurrentCorrect ==
  ASSUME OneWriter
  PROVE  Spec => []ContentCurrent
<1>1. Inv /\ TextInv => ContentCurrent
  <2> SUFFICES ASSUME Inv, TextInv, NEW a \in Agents, defs[a] # Unset,
                      ~\E t \in Threads : op[t].at \in Registering /\ op[t].agent = a,
                      NEW x \in Prompts[a][defs[a]]
               PROVE  /\ \/ PromptText(a, x) = defs[a]
                         \/ dirs[a] # Unset /\ x \in Files[dirs[a]]
                      /\ x[2] = "system" => ChatMessages(a, x[1]) # Bad
    BY DEF ContentCurrent
  <2>1. Loaded(a) /\ TextTypes
    BY DEF TextInv, Brings
  <2>2. defs[a] \in Versions
    BY DEF Inv, Shape
  <2> QED BY <2>1, <2>2, LoadedSpeaks
<1>2. Init => TextInv
  BY DEF Init, TextInv, TextTypes, Brings, Registering, Idle
<1>3. Inv /\ TextInv /\ [Next]_vars => TextInv'
  BY TextStep
<1> QED BY <1>1, <1>2, <1>3, InitInv, InvStep, PTL DEF Spec
-----------------------------------------------------------------------------
(* AuditTellsCatalog: with one sync at a time the events arrive in the order of their *)
(* ids, whatever the back end, so the last event in the trail is the newest by        *)
(* either order; redis drops the oldest ones only.                                    *)

Event == [id : Nat, agent : Agents, version : Versions]
Catalogs == UNION {[A -> Versions] : A \in SUBSET Agents}
Stores == [backend : StateBackends, rows : Catalogs, audit : Seq(Event)]

InOrder(events) ==
  \A i, j \in DOMAIN events : i < j => events[i].id < events[j].id

\* The newest event of a, and the last that arrived.
LEMMA NewestOne ==
  ASSUME NEW events, NEW when, IsFiniteSet(DOMAIN when), NEW i \in DOMAIN when,
         \A j \in DOMAIN when : when[j] \in Int /\ (j # i => when[j] < when[i])
  PROVE  Newest(events, when, 1) = <<events[i]>>
<1> DEFINE newer(k) == {j \in DOMAIN when : when[j] > when[k]}
           place(k) == CHOOSE j \in DOMAIN when : Cardinality(newer(j)) = k - 1
           all == Cardinality(DOMAIN when)
<1>1. Newest(events, when, 1) = [k \in 1..(IF 1 < all THEN 1 ELSE all) |-> events[place(k)]]
  BY DEF Newest
<1>2. all \in Nat /\ all # 0
  BY FS_CardinalityType, FS_EmptySet
<1>3. Cardinality(newer(i)) = 0
  <2>1. newer(i) = {}
    OBVIOUS
  <2> QED BY <2>1, FS_EmptySet
<1>4. ASSUME NEW j \in DOMAIN when, j # i PROVE Cardinality(newer(j)) # 0
  <2>1. IsFiniteSet(newer(j)) /\ i \in newer(j)
    BY <1>4, FS_Subset
  <2> QED BY <2>1, FS_EmptySet
<1>5. place(1) = i
  BY <1>3, <1>4
<1> HIDE DEF place, all
<1>6. Newest(events, when, 1) = [k \in 1..1 |-> events[place(k)]]
  BY <1>1, <1>2
<1> QED BY <1>5, <1>6

LEMMA NewestNone ==
  ASSUME NEW events, NEW when, DOMAIN when = {}
  PROVE  Newest(events, when, 1) = <<>>
<1> DEFINE newer(k) == {j \in DOMAIN when : when[j] > when[k]}
           place(k) == CHOOSE j \in DOMAIN when : Cardinality(newer(j)) = k - 1
           all == Cardinality(DOMAIN when)
<1>1. Newest(events, when, 1) = [k \in 1..(IF 1 < all THEN 1 ELSE all) |-> events[place(k)]]
  BY DEF Newest
<1>2. all = 0
  BY FS_EmptySet
<1> HIDE DEF place, all
<1> QED BY <1>1, <1>2

\* What each back end lists of an agent whose last event is the one at place i.
LEMMA ListsLast ==
  ASSUME NEW s \in Stores, InOrder(s.audit), NEW a, NEW i \in Of(s.audit, a),
         \A j \in Of(s.audit, a) : j <= i
  PROVE  \/ ListAudit(s, a, 1) = <<s.audit[i]>>
         \/ ListAudit(s, a, 1) = <<>> /\ s.backend = "redis"
<1> DEFINE own == Of(s.audit, a)
           place == [k \in own |-> k]
           time == [k \in own |-> s.audit[k].id]
           read == own \cap RedisRead(s.audit, 1)
           placeRead == [k \in read |-> k]
<1>1. own \subseteq 1..Len(s.audit) /\ own \subseteq Nat
  BY DEF Of, Stores
<1>2. IsFiniteSet(own) /\ IsFiniteSet(read)
  <2>1. Len(s.audit) \in Nat
    BY DEF Stores
  <2>2. IsFiniteSet(1..Len(s.audit))
    BY <2>1, FS_Interval
  <2> QED BY <1>1, <2>2, FS_Subset
<1>3. Newest(s.audit, place, 1) = <<s.audit[i]>>
  <2>1. DOMAIN place = own /\ \A j \in own : place[j] \in Int /\ (j # i => place[j] < place[i])
    BY <1>1
  <2> HIDE DEF place, own
  <2> QED BY <1>2, <2>1, NewestOne DEF own
<1>4. Newest(s.audit, time, 1) = <<s.audit[i]>>
  <2>1. s.audit \in Seq(Event) /\ \A j \in own : j \in DOMAIN s.audit /\ (j # i => j < i)
    BY <1>1 DEF Stores, Of
  <2>2. \A j \in own : s.audit[j] \in Event
    BY <2>1
  <2>3. \A e \in Event : e.id \in Nat
    BY DEF Event
  <2>4. \A j \in own : s.audit[j].id \in Nat /\ (j # i => s.audit[j].id < s.audit[i].id)
    BY <2>1, <2>2, <2>3 DEF InOrder
  <2>5. DOMAIN time = own /\ \A j \in own : time[j] \in Int /\ (j # i => time[j] < time[i])
    BY <2>4
  <2> HIDE DEF time, own
  <2> QED BY <1>2, <2>5, NewestOne DEF own
<1>5. Newest(s.audit, placeRead, 1) \in {<<s.audit[i]>>, <<>>}
  <2>1. CASE i \in read
    <3>1. DOMAIN placeRead = read
          /\ \A j \in read : placeRead[j] \in Int /\ (j # i => placeRead[j] < placeRead[i])
      BY <1>1, <2>1
    <3> HIDE DEF placeRead, read
    <3> QED BY <1>2, <2>1, <3>1, NewestOne
  <2>2. CASE i \notin read
    <3>1. read = {}
      BY <1>1, <2>2 DEF RedisRead, Stores, Of
    <3>2. DOMAIN placeRead = {}
      BY <3>1
    <3> HIDE DEF placeRead
    <3> QED BY <3>2, NewestNone
  <2> QED BY <2>1, <2>2
<1>6. s.backend \in StateBackends
  BY DEF Stores
<1> QED
  <2>1. CASE s.backend = "memory"
    <3>1. MemoryList(s.audit, a, 1) = <<s.audit[i]>>
      BY <1>3 DEF MemoryList
    <3> QED BY <2>1, <3>1, Zenon DEF ListAudit
  <2>2. CASE s.backend = "redis"
    BY <1>5, <2>2 DEF ListAudit, RedisList
  <2>3. CASE s.backend = "postgres"
    BY <1>3, <2>3, Zenon DEF ListAudit, PostgresList
  <2>4. CASE s.backend = "cosmos"
    BY <1>4, <2>4, Zenon DEF ListAudit, CosmosList
  <2> QED BY <1>6, <2>1, <2>2, <2>3, <2>4 DEF StateBackends

LEMMA ListsNone ==
  ASSUME NEW s, s.backend = "redis", NEW a, Of(s.audit, a) = {}
  PROVE  ListAudit(s, a, 1) = <<>>
<1> DEFINE when == [k \in Of(s.audit, a) \cap RedisRead(s.audit, 1) |-> k]
<1>1. DOMAIN when = {}
  OBVIOUS
<1>2. ListAudit(s, a, 1) = Newest(s.audit, when, 1)
  BY DEF ListAudit, RedisList
<1> HIDE DEF when
<1> QED BY <1>1, <1>2, NewestNone
\* The fields of the events in a trail.
LEMMA EventFields ==
  ASSUME NEW events \in Seq(Event), NEW i \in DOMAIN events
  PROVE  events[i].id \in Nat /\ events[i].agent \in Agents /\ events[i].version \in Versions
<1>1. events[i] \in Event
  OBVIOUS
<1>2. \A e \in Event : e.id \in Nat /\ e.agent \in Agents /\ e.version \in Versions
  BY DEF Event
<1> QED BY <1>1, <1>2

\* The trail after an event: at most redis has dropped some of the oldest.
LEMMA AppendDrops ==
  ASSUME NEW s \in Stores, NEW e \in Event, ~Known(s.audit, e.id)
  PROVE  \E d \in 0..Len(s.audit), trail \in Seq(Event) :
           /\ AppendAudit(s, e) = [s EXCEPT !.audit = trail]
           /\ Len(trail) = Len(s.audit) + 1 - d
           /\ \A k \in 1..Len(trail) : trail[k] = IF k = Len(trail) THEN e ELSE s.audit[k + d]
           /\ s.backend # "redis" => d = 0
<1> DEFINE all == Append(s.audit, e)
           n == Len(s.audit)
           first == IF Len(all) > AuditMax THEN Len(all) - AuditMax + 1 ELSE 1
<1>1. /\ s.audit \in Seq(Event) /\ n \in Nat /\ s.backend \in StateBackends
      /\ s = [backend |-> s.backend, rows |-> s.rows, audit |-> s.audit]
  BY DEF Stores
<1>2. all \in Seq(Event) /\ Len(all) = n + 1
      /\ \A k \in 1..(n + 1) : all[k] = IF k = n + 1 THEN e ELSE s.audit[k]
  BY <1>1
<1>3. CASE s.backend # "redis"
  <2>1. AppendAudit(s, e) = [s EXCEPT !.audit = all]
    <3>1. CASE s.backend = "memory"
      BY <3>1, Zenon DEF AppendAudit, MemoryAppend
    <3>2. CASE s.backend = "postgres"
      <4>1. PostgresAppend(s.audit, e) = all
        BY DEF PostgresAppend
      <4> QED BY <3>2, <4>1, Zenon DEF AppendAudit
    <3>3. CASE s.backend = "cosmos"
      <4>1. CosmosAppend(s.audit, e) = all
        BY DEF CosmosAppend
      <4> QED BY <3>3, <4>1, Zenon DEF AppendAudit
    <3> QED BY <1>1, <1>3, <3>1, <3>2, <3>3 DEF StateBackends
  <2> HIDE DEF all
  <2>2. /\ Len(all) = n + 1 - 0
        /\ \A k \in 1..Len(all) : all[k] = IF k = Len(all) THEN e ELSE s.audit[k + 0]
    BY <1>1, <1>2
  <2>3. 0 \in 0..n
    BY <1>1
  <2> QED BY <1>2, <1>3, <2>1, <2>2, <2>3, Zenon
<1>4. CASE s.backend = "redis"
  <2> DEFINE trail == SubSeq(all, first, Len(all))
             d == first - 1
  <2>1. AppendAudit(s, e) = [s EXCEPT !.audit = trail]
    <3>1. RedisAppend(s.audit, e) = trail
      BY Zenon DEF RedisAppend
    <3> QED BY <1>4, <3>1, Zenon DEF AppendAudit
  <2> HIDE DEF all, n
  <2>2. d \in 0..n /\ first \in 1..(n + 1) /\ first = d + 1
    BY <1>1, <1>2, AuditAssumption
  <2> HIDE DEF first, d
  <2>3. /\ trail \in Seq(Event) /\ Len(trail) = n + 1 - d
        /\ \A k \in 1..Len(trail) : trail[k] = all[k + d]
    <3>1. \A k \in first..Len(all) : all[k] \in Event
      BY <1>1, <1>2, <2>2
    <3>2. /\ trail \in Seq(Event)
          /\ Len(trail) = IF first <= Len(all) THEN Len(all) - first + 1 ELSE 0
          /\ \A k \in 1..(Len(all) - first + 1) : trail[k] = all[first + k - 1]
      BY <1>1, <1>2, <2>2, <3>1, SubSeqProperties
    <3> HIDE DEF trail
    <3>3. Len(all) - first + 1 = n + 1 - d /\ first <= Len(all)
      BY <1>1, <1>2, <2>2
    <3>4. Len(trail) = n + 1 - d
      BY <3>2, <3>3
    <3>5. \A k \in 1..Len(trail) : first + k - 1 = k + d
      BY <1>1, <2>2, <3>4
    <3> QED BY <3>2, <3>3, <3>4, <3>5
  <2> HIDE DEF trail
  <2>4. ASSUME NEW k \in 1..Len(trail)
        PROVE  trail[k] = IF k = Len(trail) THEN e ELSE s.audit[k + d]
    <3>1. k + d \in 1..(n + 1) /\ (k = Len(trail) <=> k + d = n + 1)
      BY <1>1, <2>2, <2>3
    <3> QED BY <1>2, <2>3, <3>1
  <2>5. /\ Len(trail) = Len(s.audit) + 1 - d /\ d \in 0..Len(s.audit)
        /\ trail \in Seq(Event)
    BY <2>2, <2>3 DEF n
  <2> QED BY <1>4, <2>1, <2>4, <2>5
<1> QED BY <1>3, <1>4

Syncs(t) == op[t].at \in Syncing
Auditing(a) == \E t \in Threads : At(t, "audit") /\ op[t].agent = a
Told(a) ==
  \/ \E i \in Of(store.audit, a) :
       (\A j \in Of(store.audit, a) : j <= i) /\ store.audit[i].version = store.rows[a]
  \/ store.backend = "redis" /\ Of(store.audit, a) = {}

TrailTypes ==
  /\ store \in Stores /\ issued \in Nat /\ InOrder(store.audit)
  /\ \A i \in DOMAIN store.audit : store.audit[i].id <= issued

\* What a sync holds in each of its places.
CallSynced(t) ==
  /\ At(t, "read") => op[t] \in [at : {"read"}, todo : (SUBSET Agents) \ {{}}]
  /\ At(t, "upsert") =>
       op[t] \in [at : {"upsert"}, todo : SUBSET Agents, agent : Agents, version : Versions]
  /\ At(t, "audit") =>
       /\ op[t] \in [at : {"audit"}, todo : SUBSET Agents, agent : Agents, version : Versions,
                     id : {issued}]
       /\ \A i \in DOMAIN store.audit : store.audit[i].id < issued
       /\ op[t].agent \in DOMAIN store.rows => store.rows[op[t].agent] = op[t].version

TrailInv ==
  /\ TrailTypes
  /\ \A t, u \in Threads : Syncs(t) /\ Syncs(u) => t = u
  /\ \A t \in Threads : CallSynced(t)
  /\ \A a \in DOMAIN store.rows \ unaudited : Auditing(a) \/ Told(a)

\* Only thread t syncs after the step.
LEMMA OneSyncs ==
  ASSUME NEW t \in Threads, \A u \in Threads : u # t => ~Syncs(u)', TrailTypes', CallSynced(t)',
         \A a \in DOMAIN store'.rows \ unaudited' : Auditing(a)' \/ Told(a)'
  PROVE  TrailInv'
<1>1. \A u \in Threads : u # t => CallSynced(u)'
  BY DEF Syncs, Syncing, CallSynced, At
<1> QED BY <1>1 DEF TrailInv

\* The steps that are no syncs, and the beginning of one.
LEMMA CallsTrail ==
  ASSUME Inv, TrailInv, NEW t \in Threads, RegisterStep(t) \/ CreateStep(t) \/ ClearStep(t)
  PROVE  TrailInv'
<1>1. UNCHANGED <<store, issued, unaudited>>
  <2>1. CASE RegisterStep(t)
    BY <2>1 DEF RegisterStep, Register, PopCache, LoadContent
  <2>2. CASE CreateStep(t)
    BY <2>2 DEF CreateStep, Create, Descend, Cached, CompileFails
  <2>3. CASE ClearStep(t)
    BY <2>3 DEF ClearStep, ClearCache, ClearDefinitions
  <2> QED BY <2>1, <2>2, <2>3
<1>2. ~Syncs(t) /\ ~Syncs(t)' /\ \A u \in Threads : u # t => op'[u] = op[u]
  BY RegisterMoves, PlainMoves DEF Syncs, Syncing
<1>3. \A u \in Threads : (Syncs(u)' <=> Syncs(u)) /\ (Syncs(u) => op'[u] = op[u])
  BY <1>2 DEF Syncs
<1>4. \A u \in Threads : CallSynced(u)'
  <2> TAKE u \in Threads
  <2>1. CASE Syncs(u)
    BY <1>1, <1>3, <2>1 DEF TrailInv, CallSynced, At
  <2>2. CASE ~Syncs(u)
    BY <1>3, <2>2 DEF CallSynced, Syncs, Syncing, At
  <2> QED BY <2>1, <2>2
<1>5. \A a : Auditing(a) => Auditing(a)'
  BY <1>3 DEF Auditing, At, Syncs, Syncing
<1>6. \A a : Told(a) => Told(a)'
  BY <1>1 DEF Told
<1>7. TrailTypes'
  BY <1>1 DEF TrailInv, TrailTypes
<1> QED BY <1>1, <1>3, <1>4, <1>5, <1>6, <1>7 DEF TrailInv

LEMMA SyncTrail ==
  ASSUME OneWriter, Inv, TrailInv, NEW t \in Threads, Sync(t)
  PROVE  TrailInv'
<1> DEFINE call == [at |-> "read", todo |-> {a \in Agents : defs[a] # Unset}]
<1>1. /\ op' = [op EXCEPT ![t] = call] /\ \A u \in Threads : ~Syncs(u)
      /\ \E a \in Agents : defs[a] # Unset
      /\ UNCHANGED <<store, issued, unaudited>>
  BY DEF Sync, Begin, Writing, Syncs
<1>2. call \in [at : {"read"}, todo : (SUBSET Agents) \ {{}}] /\ call.at = "read"
  BY <1>1
<1> HIDE DEF call
<1>3. op'[t] = call /\ \A u \in Threads : u # t => op'[u] = op[u]
  BY <1>1 DEF Inv, Shape
<1>4. \A u \in Threads : u # t => ~Syncs(u)'
  BY <1>1, <1>3 DEF Syncs
<1>5. TrailTypes' /\ CallSynced(t)'
  BY <1>1, <1>2, <1>3 DEF TrailInv, TrailTypes, CallSynced, At
<1>6. \A a : Told(a) => Told(a)'
  BY <1>1 DEF Told
<1>7. \A a : ~Auditing(a)
  BY <1>1 DEF Auditing, Syncs, Syncing, At
<1> QED BY <1>1, <1>4, <1>5, <1>6, <1>7, OneSyncs DEF TrailInv

\* Some element of a set of agents is its least.
LEMMA MinOf ==
  ASSUME NEW S \in SUBSET Agents, S # {}
  PROVE  Min(S) \in S
<1>1. PICK x \in S : \A y \in S : ~(<<y, x>> \in OpToRel(<, Nat))
  BY CatalogAssumption, NatLessThanWellFounded, WFMin
<1>2. \A y \in S : x <= y
  <2> TAKE y \in S
  <2>1. x \in Nat /\ y \in Nat
    BY CatalogAssumption
  <2>2. ~(y < x)
    BY <1>1, <2>1 DEF OpToRel
  <2> QED BY <2>1, <2>2
<1> QED BY <1>2 DEF Min

LEMMA ReadTrail ==
  ASSUME Inv, TrailInv, NEW t \in Threads, SyncRead(t)
  PROVE  TrailInv'
<1> DEFINE a == Min(op[t].todo)
           call == IF defs[a] = Unset THEN Idle
                   ELSE [at |-> "upsert", todo |-> op[t].todo \ {a}, agent |-> a,
                         version |-> defs[a]]
<1>1. At(t, "read") /\ op' = [op EXCEPT ![t] = call] /\ UNCHANGED <<store, issued, unaudited>>
  BY DEF SyncRead, Go
<1>2. op[t].todo \in SUBSET Agents /\ op[t].todo # {}
  BY <1>1 DEF TrailInv, CallSynced
<1>3. a \in Agents
  BY <1>2, MinOf
<1>4. \/ call.at = "idle"
      \/ /\ call.at = "upsert"
         /\ call \in [at : {"upsert"}, todo : SUBSET Agents, agent : Agents, version : Versions]
  BY <1>2, <1>3 DEF Idle, Inv, Shape
<1> HIDE DEF call
<1>5. op'[t] = call /\ \A u \in Threads : u # t => op'[u] = op[u]
  BY <1>1 DEF Inv, Shape
<1>6. \A u \in Threads : u # t => ~Syncs(u) /\ ~Syncs(u)'
  BY <1>1, <1>5 DEF TrailInv, Syncs, Syncing, At
<1>7. TrailTypes' /\ CallSynced(t)'
  BY <1>1, <1>4, <1>5 DEF TrailInv, TrailTypes, CallSynced, At
<1>8. \A b : Told(b) => Told(b)'
  BY <1>1 DEF Told
<1>9. \A b : ~Auditing(b)
  BY <1>1, <1>6 DEF Auditing, Syncs, Syncing, At
<1> QED BY <1>1, <1>6, <1>7, <1>8, <1>9, OneSyncs DEF TrailInv

LEMMA UpsertTrail ==
  ASSUME Inv, TrailInv, NEW t \in Threads, SyncUpsert(t)
  PROVE  TrailInv'
<1>1. PICK a : a = op[t].agent
  OBVIOUS
<1> DEFINE rows == [b \in DOMAIN store.rows \cup {a} |->
                      IF b = a THEN op[t].version ELSE store.rows[b]]
           call == [at |-> "audit", todo |-> op[t].todo, agent |-> a,
                    version |-> op[t].version, id |-> issued']
<1>2. /\ At(t, "upsert") /\ op' = [op EXCEPT ![t] = call]
      /\ store' = [store EXCEPT !.rows = rows] /\ issued' = issued + 1 /\ UNCHANGED unaudited
  BY <1>1 DEF SyncUpsert, Go, UpsertAgent
<1>3. op[t].todo \in SUBSET Agents /\ a \in Agents /\ op[t].version \in Versions
  BY <1>1, <1>2 DEF TrailInv, CallSynced
<1>4. rows \in Catalogs /\ rows[a] = op[t].version /\ \A b \in DOMAIN rows \ {a} :
        b \in DOMAIN store.rows /\ rows[b] = store.rows[b]
  <2>1. PICK A \in SUBSET Agents : store.rows \in [A -> Versions]
    BY DEF TrailInv, TrailTypes, Stores, Catalogs
  <2>2. rows \in [A \cup {a} -> Versions] /\ A \cup {a} \in SUBSET Agents
    BY <1>3, <2>1
  <2> QED BY <2>2 DEF Catalogs
<1> HIDE DEF rows
<1>5. store' \in Stores /\ store'.audit = store.audit /\ store'.rows = rows
      /\ store'.backend = store.backend
  BY <1>2, <1>4 DEF TrailInv, TrailTypes, Stores
<1>6. op'[t] = call /\ \A u \in Threads : u # t => op'[u] = op[u]
  BY <1>2 DEF Inv, Shape
<1>7. \A u \in Threads : u # t => ~Syncs(u) /\ ~Syncs(u)'
  BY <1>2, <1>6 DEF TrailInv, Syncs, Syncing, At
<1>8. /\ issued \in Nat
      /\ \A i \in DOMAIN store.audit : store.audit[i].id <= issued /\ store.audit[i].id \in Nat
  <2>1. store.audit \in Seq(Event)
    BY DEF TrailInv, TrailTypes, Stores
  <2>2. \A i \in DOMAIN store.audit : store.audit[i].id \in Nat
    <3>1. PICK events \in Seq(Event) : events = store.audit
      BY <2>1
    <3> QED BY <3>1, EventFields
  <2> QED BY <2>2 DEF TrailInv, TrailTypes
<1>9. \A i \in DOMAIN store'.audit : store'.audit[i].id <= issued' /\ store'.audit[i].id < issued'
  BY <1>2, <1>5, <1>8
<1>10. TrailTypes'
  BY <1>2, <1>5, <1>8, <1>9 DEF TrailInv, TrailTypes, InOrder
<1>11. CallSynced(t)'
  BY <1>3, <1>4, <1>5, <1>6, <1>9 DEF CallSynced, At
<1>12. Auditing(a)'
  BY <1>6 DEF Auditing, At
<1>13. \A b : ~Auditing(b)
  BY <1>2, <1>7 DEF Auditing, Syncs, Syncing, At
<1>14. ASSUME NEW b \in DOMAIN store'.rows \ unaudited', b # a PROVE Told(b)'
  <2>1. b \in DOMAIN store.rows \ unaudited /\ store'.rows[b] = store.rows[b]
    BY <1>2, <1>4, <1>5, <1>14
  <2>2. Told(b)
    BY <1>13, <2>1 DEF TrailInv
  <2>3. CASE store.backend = "redis" /\ Of(store.audit, b) = {}
    BY <1>5, <2>3 DEF Told
  <2>4. ASSUME NEW i \in Of(store.audit, b), \A j \in Of(store.audit, b) : j <= i,
               store.audit[i].version = store.rows[b]
        PROVE  Told(b)'
    BY <1>5, <2>1, <2>4 DEF Told
  <2> QED BY <2>2, <2>3, <2>4 DEF Told
<1>15. \A b \in DOMAIN store'.rows \ unaudited' : Auditing(b)' \/ Told(b)'
  BY <1>12, <1>14
<1>16. \A u \in Threads : u # t => ~Syncs(u)'
  BY <1>7
<1> QED BY <1>10, <1>11, <1>15, <1>16, OneSyncs

LEMMA AuditTrail ==
  ASSUME Inv, TrailInv, NEW t \in Threads, SyncAudit(t)
  PROVE  TrailInv'
<1> DEFINE event == [id |-> op[t].id, agent |-> op[t].agent, version |-> op[t].version]
           call == IF op[t].todo = {} THEN Idle ELSE [at |-> "read", todo |-> op[t].todo]
<1>1. /\ At(t, "audit") /\ op' = [op EXCEPT ![t] = call] /\ store' = AppendAudit(store, event)
      /\ UNCHANGED issued /\ unaudited' = unaudited \ {op[t].agent}
  BY DEF SyncAudit, Go
<1>2. /\ op[t].todo \in SUBSET Agents /\ op[t].agent \in Agents /\ op[t].version \in Versions
      /\ op[t].id = issued /\ issued \in Nat
      /\ \A i \in DOMAIN store.audit : store.audit[i].id < issued
      /\ op[t].agent \in DOMAIN store.rows => store.rows[op[t].agent] = op[t].version
  BY <1>1 DEF TrailInv, TrailTypes, CallSynced
<1>3. PICK e \in Event : /\ e = event /\ e.id = issued
                         /\ e.agent = op[t].agent /\ e.version = op[t].version
  <2>1. event \in Event /\ event.id = issued
        /\ event.agent = op[t].agent /\ event.version = op[t].version
    BY <1>2 DEF Event
  <2> HIDE DEF event
  <2> QED BY <2>1
<1>4. \/ call.at = "idle"
      \/ call.at = "read" /\ call \in [at : {"read"}, todo : (SUBSET Agents) \ {{}}]
  BY <1>2 DEF Idle
<1> HIDE DEF event, call
<1>5. store \in Stores /\ store.audit \in Seq(Event) /\ ~Known(store.audit, e.id)
  BY <1>2, <1>3 DEF TrailInv, TrailTypes, Stores, Known, Event
<1>6. PICK d \in 0..Len(store.audit), trail \in Seq(Event) :
        /\ store' = [store EXCEPT !.audit = trail]
        /\ Len(trail) = Len(store.audit) + 1 - d
        /\ \A k \in 1..Len(trail) :
             trail[k] = IF k = Len(trail) THEN e ELSE store.audit[k + d]
        /\ store.backend # "redis" => d = 0
  BY <1>1, <1>3, <1>5, AppendDrops
<1>7. /\ store' \in Stores /\ store'.audit = trail /\ store'.rows = store.rows
      /\ store'.backend = store.backend
  BY <1>5, <1>6 DEF Stores
<1>8. op'[t] = call /\ \A u \in Threads : u # t => op'[u] = op[u]
  BY <1>1 DEF Inv, Shape
<1>9. \A u \in Threads : u # t => ~Syncs(u) /\ ~Syncs(u)'
  BY <1>1, <1>8 DEF TrailInv, Syncs, Syncing, At
<1> DEFINE n == Len(trail)
<1>10. /\ n \in Nat /\ DOMAIN trail = 1..n /\ n >= 1
       /\ \A k \in 1..n : k # n => k + d \in DOMAIN store.audit /\ trail[k] = store.audit[k + d]
       /\ trail[n] = e
  BY <1>5, <1>6
<1>11. \A k \in DOMAIN store.audit : store.audit[k].id \in Nat
  <2>1. PICK events \in Seq(Event) : events = store.audit
    BY <1>5
  <2> QED BY <2>1, EventFields
<1> HIDE DEF n
<1>12. \A k \in 1..n : trail[k].id <= issued
  BY <1>2, <1>3, <1>10, <1>11
<1>13. InOrder(trail)
  <2> SUFFICES ASSUME NEW i \in 1..n, NEW j \in 1..n, i < j PROVE trail[i].id < trail[j].id
    BY <1>10 DEF InOrder
  <2>1. trail[i] = store.audit[i + d] /\ i + d \in DOMAIN store.audit
    <3>1. i # n
      BY <1>10
    <3> QED BY <1>10, <3>1
  <2>2. CASE j = n
    BY <1>2, <1>3, <1>10, <2>1, <2>2
  <2>3. CASE j # n
    <3>1. trail[j] = store.audit[j + d] /\ j + d \in DOMAIN store.audit /\ i + d < j + d
      BY <1>10, <2>3
    <3> QED BY <2>1, <3>1 DEF TrailInv, TrailTypes, InOrder
  <2> QED BY <2>2, <2>3
<1>14. TrailTypes'
  BY <1>1, <1>2, <1>7, <1>10, <1>12, <1>13 DEF TrailTypes
<1>15. CallSynced(t)'
  BY <1>4, <1>8 DEF CallSynced, At
<1>16. \A b : Auditing(b) => b = op[t].agent
  BY <1>1, <1>9 DEF Auditing, Syncs, Syncing, At
<1>17. ASSUME NEW b \in DOMAIN store'.rows \ unaudited' PROVE Told(b)'
  <2>1. CASE b = op[t].agent
    <3>1. n \in Of(trail, b) /\ \A j \in Of(trail, b) : j <= n
      BY <1>3, <1>10, <2>1 DEF Of
    <3>2. trail[n].version = store'.rows[b]
      BY <1>2, <1>3, <1>7, <1>10, <1>17, <2>1
    <3> QED BY <1>7, <3>1, <3>2 DEF Told
  <2>2. CASE b # op[t].agent
    <3>1. Told(b)
      BY <1>1, <1>7, <1>16, <1>17, <2>2 DEF TrailInv
    <3>2. Of(trail, b) = {k \in 1..n : k + d \in Of(store.audit, b)}
      <4>1. ASSUME NEW k \in 1..n PROVE trail[k].agent = b <=> k + d \in Of(store.audit, b)
        <5>1. CASE k = n
          BY <1>3, <1>5, <1>6, <1>10, <2>2, <5>1 DEF Of, n
        <5>2. CASE k # n
          BY <1>10, <5>2 DEF Of
        <5> QED BY <5>1, <5>2
      <4> QED BY <1>10, <4>1 DEF Of
    <3>3. CASE store.backend = "redis" /\ Of(trail, b) = {}
      BY <1>7, <3>3 DEF Told
    <3>4. ASSUME NEW i \in Of(store.audit, b), \A j \in Of(store.audit, b) : j <= i,
                 store.audit[i].version = store.rows[b],
                 ~(store.backend = "redis" /\ Of(trail, b) = {})
          PROVE  Told(b)'
      <4>1. i \in 1..Len(store.audit) /\ Of(store.audit, b) \subseteq Nat
        BY <1>5 DEF Of
      <4>2. d < i
        <5>1. CASE d = 0
          BY <4>1, <5>1
        <5>2. CASE d # 0
          <6>1. PICK k \in 1..n : k + d \in Of(store.audit, b)
            BY <1>6, <3>2, <3>4, <5>2
          <6> QED BY <3>4, <4>1, <6>1
        <5> QED BY <5>1, <5>2
      <4>3. PICK k \in 1..n : k = i - d /\ k # n
        BY <1>5, <1>6, <4>1, <4>2 DEF n
      <4>4. k \in Of(trail, b) /\ trail[k] = store.audit[i]
        BY <1>10, <3>2, <4>1, <4>3
      <4>5. \A j \in Of(trail, b) : j <= k
        BY <3>2, <3>4, <4>1, <4>3
      <4> QED BY <1>7, <3>4, <4>4, <4>5 DEF Told
    <3>5. CASE store.backend = "redis" /\ Of(store.audit, b) = {}
      BY <3>2, <3>3, <3>5
    <3> QED BY <3>1, <3>3, <3>4, <3>5 DEF Told
  <2> QED BY <2>1, <2>2
<1> QED BY <1>9, <1>14, <1>15, <1>17, OneSyncs

LEMMA FailsTrail ==
  ASSUME Inv, TrailInv, NEW t \in Threads, SyncFails(t)
  PROVE  TrailInv'
<1>1. /\ op[t].at \in {"upsert", "audit"} /\ op' = [op EXCEPT ![t] = Idle]
      /\ unaudited' = (IF At(t, "audit") THEN unaudited \cup {op[t].agent} ELSE unaudited)
      /\ UNCHANGED <<store, issued>>
  BY DEF SyncFails, Go
<1>2. op'[t] = Idle /\ \A u \in Threads : u # t => op'[u] = op[u]
  BY <1>1 DEF Inv, Shape
<1>3. \A u \in Threads : u # t => ~Syncs(u) /\ ~Syncs(u)'
  BY <1>1, <1>2 DEF TrailInv, Syncs, Syncing
<1>4. TrailTypes' /\ CallSynced(t)'
  BY <1>1, <1>2 DEF TrailInv, TrailTypes, CallSynced, At, Idle
<1>5. \A b : Auditing(b) => b \in unaudited'
  BY <1>1, <1>3 DEF Auditing, Syncs, Syncing, At
<1>6. ASSUME NEW b \in DOMAIN store'.rows \ unaudited' PROVE Told(b)'
  <2>1. b \in DOMAIN store.rows \ unaudited /\ ~Auditing(b)
    BY <1>1, <1>5, <1>6
  <2>2. Told(b)
    BY <2>1 DEF TrailInv
  <2> QED BY <1>1, <2>2 DEF Told
<1> QED BY <1>3, <1>4, <1>6, OneSyncs

LEMMA DeleteTrail ==
  ASSUME TrailInv, NEW a \in Agents, DeleteRow(a)
  PROVE  TrailInv'
<1> DEFINE rows == [b \in DOMAIN store.rows \ {a} |-> store.rows[b]]
<1>1. store' = [store EXCEPT !.rows = rows] /\ UNCHANGED <<op, issued, unaudited>>
  BY DEF DeleteRow, DeleteAgent
<1>2. rows \in Catalogs /\ DOMAIN rows = DOMAIN store.rows \ {a}
      /\ \A b \in DOMAIN rows : rows[b] = store.rows[b]
  <2>1. PICK A \in SUBSET Agents : store.rows \in [A -> Versions]
    BY DEF TrailInv, TrailTypes, Stores, Catalogs
  <2>2. rows \in [A \ {a} -> Versions] /\ A \ {a} \in SUBSET Agents
    BY <2>1
  <2> QED BY <2>2 DEF Catalogs
<1> HIDE DEF rows
<1>3. store' \in Stores /\ store'.audit = store.audit /\ store'.rows = rows
      /\ store'.backend = store.backend
  BY <1>1, <1>2 DEF TrailInv, TrailTypes, Stores
<1>4. TrailTypes'
  BY <1>1, <1>3 DEF TrailInv, TrailTypes
<1>5. \A u \in Threads : CallSynced(u)'
  BY <1>1, <1>2, <1>3 DEF TrailInv, CallSynced, At
<1>6. \A b \in DOMAIN store'.rows : Told(b) => Told(b)'
  BY <1>2, <1>3 DEF Told
<1>7. \A b : Auditing(b) => Auditing(b)'
  BY <1>1 DEF Auditing, At
<1>8. \A u : Syncs(u)' <=> Syncs(u)
  BY <1>1 DEF Syncs
<1> QED BY <1>1, <1>2, <1>3, <1>4, <1>5, <1>6, <1>7, <1>8 DEF TrailInv

LEMMA TrailStep ==
  ASSUME OneWriter
  PROVE  Inv /\ TrailInv /\ [Next]_vars => TrailInv'
<1> SUFFICES ASSUME Inv, TrailInv, [Next]_vars PROVE TrailInv'
  OBVIOUS
<1>1. ASSUME NEW t \in Threads, RegisterStep(t) \/ CreateStep(t) \/ ClearStep(t)
      PROVE  TrailInv'
  BY <1>1, CallsTrail
<1>2. ASSUME NEW t \in Threads, SyncStep(t)
      PROVE  TrailInv'
  BY <1>2, SyncTrail, ReadTrail, UpsertTrail, AuditTrail, FailsTrail DEF SyncStep
<1>3. ASSUME NEW a \in Agents, DeleteRow(a)
      PROVE  TrailInv'
  BY <1>3, DeleteTrail
<1>4. CASE UNCHANGED vars
  BY <1>4 DEF vars, TrailInv, TrailTypes, CallSynced, Told, Auditing, Syncs, At
<1> QED BY <1>1, <1>2, <1>3, <1>4 DEF Next

\* Whatever the back end, the newest event it lists of an agent names the version its
\* catalog row holds, unless writing the event failed or redis dropped it, when syncs do
\* not overlap.  Code: sync_registered_agents_to_store, append_audit and list_audit of
\* the four stores.
THEOREM AuditTellsCatalogCorrect ==
  ASSUME OneWriter
  PROVE  Spec => []AuditTellsCatalog
<1>1. TrailInv => AuditTellsCatalog
  <2> SUFFICES ASSUME TrailInv, NEW a \in DOMAIN store.rows \ unaudited, ~Auditing(a)
               PROVE  LET listed == ListAudit(store, a, 1)
                      IN  \/ Len(listed) = 1 /\ listed[1].version = store.rows[a]
                          \/ listed = <<>> /\ store.backend = "redis"
    BY Zenon DEF AuditTellsCatalog, Auditing
  <2> DEFINE listed == ListAudit(store, a, 1)
  <2>1. Told(a) /\ store \in Stores /\ InOrder(store.audit)
    BY DEF TrailInv, TrailTypes
  <2>2. CASE store.backend = "redis" /\ Of(store.audit, a) = {}
    BY <2>2, ListsNone
  <2>3. ASSUME NEW i \in Of(store.audit, a), \A j \in Of(store.audit, a) : j <= i,
               store.audit[i].version = store.rows[a]
        PROVE  \/ Len(listed) = 1 /\ listed[1].version = store.rows[a]
               \/ listed = <<>> /\ store.backend = "redis"
    <3>1. PICK s : s = store
      OBVIOUS
    <3>2. \/ listed = <<store.audit[i]>>
          \/ listed = <<>> /\ store.backend = "redis"
      BY <2>1, <2>3, <3>1, ListsLast
    <3> HIDE DEF listed
    <3> QED BY <2>3, <3>2
  <2> QED BY <2>1, <2>2, <2>3 DEF Told
<1>2. Init => TrailInv
  <2> SUFFICES ASSUME Init PROVE TrailInv
    OBVIOUS
  <2>1. PICK b \in StateBackends : store = [backend |-> b, rows |-> <<>>, audit |-> <<>>]
    BY DEF Init, NewStore
  <2>2. <<>> \in Catalogs /\ DOMAIN <<>> = {} /\ <<>> \in Seq(Event)
    <3>1. <<>> \in [{} -> Versions]
      OBVIOUS
    <3> QED BY <3>1 DEF Catalogs
  <2>3. store \in Stores /\ store.rows = <<>> /\ store.audit = <<>>
    BY <2>1, <2>2 DEF Stores
  <2>4. issued = 0 /\ \A t \in Threads : op[t] = Idle
    BY DEF Init
  <2> QED BY <2>2, <2>3, <2>4 DEF TrailInv, TrailTypes, CallSynced, Syncs, Syncing, At, Idle,
                                  InOrder
<1>3. Inv /\ TrailInv /\ [Next]_vars => TrailInv'
  BY TrailStep
<1> QED BY <1>1, <1>2, <1>3, InitInv, InvStep, PTL DEF Spec
=============================================================================
