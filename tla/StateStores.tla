----------------------------- MODULE StateStores -----------------------------
(***************************************************************************)
(* The four back ends of the StateStore protocol (store/memory.py,           *)
(* redis_store.py, postgres.py and cosmos.py): the agent catalog and the     *)
(* audit trail they keep.  Pure operators over a store                       *)
(*     [backend, rows, audit],                                              *)
(* rows a function from the agent ids it holds, audit the events in the order *)
(* in which they arrived.  The session documents are those of HitlFlow.      *)
(*                                                                         *)
(* An event is [id, agent, version]; ids are numbered in the order in which   *)
(* events are created, which stands for created_at too.                      *)
(***************************************************************************)
EXTENDS Integers, Sequences, FiniteSets

CONSTANTS AuditMax           \* EDIM_REDIS_AUDIT_MAX; less than 1 keeps 1 event too

ASSUME AuditAssumption == AuditMax \in Nat \ {0}

StateBackends == {"memory", "redis", "postgres", "cosmos"}
NewStore(backend) == [backend |-> backend, rows |-> <<>>, audit |-> <<>>]
-----------------------------------------------------------------------------
(* The catalog: one document, hash field or table row per agent id. *)

UpsertAgent(store, a, version) ==
  [store EXCEPT !.rows = [b \in DOMAIN @ \cup {a} |-> IF b = a THEN version ELSE @[b]]]

DeleteAgent(store, a) ==
  [store EXCEPT !.rows = [b \in DOMAIN @ \ {a} |-> @[b]]]
-----------------------------------------------------------------------------
(* The audit trail. *)

Of(events, a) == {i \in DOMAIN events : events[i].agent = a}
Known(events, id) == \E i \in DOMAIN events : events[i].id = id

\* The n newest of the events at the places in DOMAIN when, which says when each of
\* them was written.
Newest(events, when, n) ==
  LET newer(i) == {j \in DOMAIN when : when[j] > when[i]}
      place(k) == CHOOSE i \in DOMAIN when : Cardinality(newer(i)) = k - 1
      all == Cardinality(DOMAIN when)
  IN  [k \in 1..(IF n < all THEN n ELSE all) |-> events[place(k)]]

\* A list of the process, never trimmed; a repeated event is kept twice.
MemoryAppend(events, e) == Append(events, e)
MemoryList(events, a, limit) ==
  Newest(events, [i \in Of(events, a) |-> i], IF limit = 0 THEN Len(events) ELSE limit)

\* LPUSH and LTRIM: the newest AuditMax entries stay.  A filtered list reads five
\* times the limit before it filters.
RedisAppend(events, e) ==
  LET all == Append(events, e)
  IN  SubSeq(all, IF Len(all) > AuditMax THEN Len(all) - AuditMax + 1 ELSE 1, Len(all))
RedisRead(events, limit) ==
  {i \in DOMAIN events : i > Len(events) - (IF limit = 0 THEN 1 ELSE 5 * limit)}
RedisList(events, a, limit) ==
  Newest(events, [i \in Of(events, a) \cap RedisRead(events, limit) |-> i], limit)

\* ON CONFLICT (event_id) DO NOTHING; the order is that of arrival.
PostgresAppend(events, e) == IF Known(events, e.id) THEN events ELSE Append(events, e)
PostgresList(events, a, limit) == Newest(events, [i \in Of(events, a) |-> i], limit)

\* upsert_item; the order is that of the events' own created_at.
CosmosAppend(events, e) ==
  IF Known(events, e.id)
  THEN [i \in DOMAIN events |-> IF events[i].id = e.id THEN e ELSE events[i]]
  ELSE Append(events, e)
CosmosList(events, a, limit) == Newest(events, [i \in Of(events, a) |-> events[i].id], limit)

AppendAudit(store, e) ==
  [store EXCEPT !.audit = CASE store.backend = "memory" -> MemoryAppend(@, e)
                            [] store.backend = "redis" -> RedisAppend(@, e)
                            [] store.backend = "postgres" -> PostgresAppend(@, e)
                            [] store.backend = "cosmos" -> CosmosAppend(@, e)]

\* Mutant: the rows are not reversed.
ListAuditOldest(store, a, limit) ==
  Newest(store.audit, [i \in Of(store.audit, a) |-> -i], limit)

\* list_audit(agent_id=a, limit=limit), newest first.
ListAudit(store, a, limit) ==
  CASE store.backend = "memory" -> MemoryList(store.audit, a, limit)
    [] store.backend = "redis" -> RedisList(store.audit, a, limit)
    [] store.backend = "postgres" -> PostgresList(store.audit, a, limit)
    [] store.backend = "cosmos" -> CosmosList(store.audit, a, limit)
=============================================================================
