--------------------------- MODULE Recommendations ---------------------------
(***************************************************************************)
(* The recommendation store behind ExperienceIndexingStore, the experience  *)
(* index it feeds, and the backfill job that replays rows into the index.    *)
(*                                                                         *)
(* A save stores the record and then offers the version it has stored to     *)
(* maybe_index_experience; a status update reads the row, stores the changed *)
(* copy the same way and offers that; a backfill lists rows once and offers  *)
(* each of them.  No step of one call excludes those of another, and an      *)
(* index write that fails is logged and forgotten.                          *)
(*                                                                         *)
(* A card stands for the body of a record, Unset for a body the transform    *)
(* makes no document of.  A document is the version of the row it was made   *)
(* from.  Transform, retrieval provider and corpus are one to one, so index  *)
(* has one document per row.  The statuses are the words of the code.        *)
(***************************************************************************)
EXTENDS Naturals, FiniteSets

CONSTANTS
  Unset,
  Ids,           \* recommendation ids
  Calls,         \* invocations of save, update_status and backfill
  Agents,
  Owner,         \* id -> agent_id of its records
  Cards,
  SaveStatuses,  \* statuses hosts save records with; save does not check them
  Words,         \* statuses hosts ask update_status for
  Age,           \* id -> rank of its created_at, the newest lowest
  Limit,         \* rows a backfill lists
  TwoWrites,     \* TRUE for redis: hset of the document, then zadd to the index
  Failing        \* calls whose store, provider or process may fail

RecommendationStatuses ==
  {"proposed", "accepted", "rejected", "applied", "superseded"}
IndexStatuses  == {"proposed", "accepted", "applied"}
RemoveStatuses == {"rejected", "superseded"}

Row == [agent : Agents, status : SaveStatuses \cup RecommendationStatuses,
        card : Cards \cup {Unset}]

ASSUME RecommendationsAssumption ==
  /\ Unset \notin Ids \cup Cards \cup Agents \cup Row
  /\ Owner \in [Ids -> Agents]
  /\ Age \in [Ids -> Nat] /\ \A i, j \in Ids : Age[i] = Age[j] => i = j
  /\ Limit \in Nat \ {0}
  /\ TwoWrites \in BOOLEAN
  /\ Failing \subseteq Calls

VARIABLES
  rows,        \* id -> stored row, or Unset
  listed,      \* ids an unfiltered list finds
  index,       \* id -> the row version its document was made from, or Unset
  transforms,  \* agents with a registered ExperienceTransform
  provider,    \* TRUE once a retrieval provider other than `none' is installed
  call,        \* call -> its progress
  doubt        \* ghost: ids whose index entry a failure, a skipped write or an
               \* overlap of two calls leaves open

vars == <<rows, listed, index, transforms, provider, call, doubt>>
-----------------------------------------------------------------------------
NoRows == [i \in Ids |-> Unset]

\* todo: the ids the call may still read or write; ver: the row versions it holds of them.
Idle == [op |-> "idle", id |-> Unset, word |-> Unset, agent |-> Unset,
         todo |-> {}, ver |-> NoRows, skipped |-> 0, shared |-> {}, alone |-> TRUE,
         pc |-> "idle"]

Init ==
  /\ rows = NoRows /\ listed = {} /\ index = NoRows
  /\ transforms = {} /\ provider = FALSE
  /\ call = [c \in Calls |-> Idle]
  /\ doubt = {}

InFlight(d) == d.pc \notin {"idle", "done", "failed", "cut"}

\* A call d starts.  Ghosts: whoever has one of its ids in hand now shares it, and
\* nobody in flight is alone.
Started(c, d) ==
  LET others == {e \in Calls \ {c} : InFlight(call[e])}
      theirs == UNION {call[e].todo : e \in others}
  IN
  /\ call' = [e \in Calls |->
       IF e = c THEN [d EXCEPT !.shared = d.todo \cap theirs, !.alone = (others = {})]
       ELSE IF e \in others
            THEN [call[e] EXCEPT !.shared = @ \cup (call[e].todo \cap d.todo),
                                 !.alone = FALSE]
       ELSE call[e]]
  /\ doubt' = doubt \cup (d.todo \cap theirs)

\* A call ends; of what it carried only the id is still asked about.
Ended(c, how) == [call EXCEPT ![c] = [Idle EXCEPT !.id = call[c].id, !.pc = how]]

Ready(row) == row.agent \in transforms /\ provider

\* maybe_index_experience has something to do for this row ...
Attempted(row) ==
  Ready(row) /\ \/ row.status \in RemoveStatuses
                \/ row.status \in IndexStatuses /\ row.card # Unset

\* Mutant: removal that upserts like any other status.
IndexedAlways(row) == row

\* ... and leaves this in the index.
Indexed(row) == IF row.status \in RemoveStatuses THEN Unset ELSE row
-----------------------------------------------------------------------------
(* The calls. *)

\* Mutant: save that writes the document before the row.
SaveIndexFirst(c, i, s, k) ==
  LET r == [agent |-> Owner[i], status |-> s, card |-> k] IN
  /\ call[c].pc = "idle"
  /\ Started(c, [Idle EXCEPT !.op = "save", !.id = i, !.todo = {i}, !.ver[i] = r,
                             !.pc = "put"])
  /\ index' = IF Attempted(r) THEN [index EXCEPT ![i] = Indexed(r)] ELSE index
  /\ UNCHANGED <<rows, listed, transforms, provider>>

\* A host saves a record: a new one, or a changed copy of a stored one.
Save(c, i, s, k) ==
  /\ call[c].pc = "idle"
  /\ Started(c, [Idle EXCEPT !.op = "save", !.id = i, !.todo = {i}, !.pc = "put",
                   !.ver[i] = [agent |-> Owner[i], status |-> s, card |-> k]])
  /\ UNCHANGED <<rows, listed, index, transforms, provider>>

\* update_status reads the row; a missing one ends the call with None.
UpdateStatus(c, i, w) ==
  /\ call[c].pc = "idle"
  /\ IF rows[i] = Unset
     THEN /\ call' = Ended(c, "done")
          /\ doubt' = doubt
     ELSE Started(c, [Idle EXCEPT !.op = "status", !.id = i, !.word = w, !.todo = {i},
                                  !.ver[i] = rows[i], !.pc = "check"])
  /\ UNCHANGED <<rows, listed, index, transforms, provider>>

\* Mutant: with_status without its check.
WithStatusUnchecked(c) ==
  /\ call[c].pc = "check"
  /\ call' = [call EXCEPT ![c].ver[call[c].id].status = call[c].word,
                          ![c].pc = "put"]
  /\ UNCHANGED <<rows, listed, index, transforms, provider, doubt>>

\* Mutant: with_status building a fresh record instead of a copy.
WithStatusBlank(c) ==
  /\ call[c].pc = "check" /\ call[c].word \in RecommendationStatuses
  /\ call' = [call EXCEPT ![c].ver[call[c].id].status = call[c].word,
                          ![c].ver[call[c].id].card = Unset, ![c].pc = "put"]
  /\ UNCHANGED <<rows, listed, index, transforms, provider, doubt>>

\* with_status: a word it does not know raises, any known one may follow any other.
WithStatus(c) ==
  LET d == call[c] IN
  /\ d.pc = "check"
  /\ call' = IF d.word \in RecommendationStatuses
             THEN [call EXCEPT ![c].ver[d.id].status = d.word, ![c].pc = "put"]
             ELSE Ended(c, "failed")
  /\ UNCHANGED <<rows, listed, index, transforms, provider, doubt>>

\* Mutant: hset without the zadd.
PutUnlisted(c) ==
  /\ call[c].pc = "put"
  /\ rows' = [rows EXCEPT ![call[c].id] = call[c].ver[call[c].id]]
  /\ call' = [call EXCEPT ![c].pc = "index"]
  /\ UNCHANGED <<listed, index, transforms, provider, doubt>>

\* The store's save.  Redis adds the id to its sorted set in a second write.
Put(c) ==
  LET d == call[c] IN
  /\ d.pc = "put"
  /\ rows' = [rows EXCEPT ![d.id] = d.ver[d.id]]
  /\ listed' = IF TwoWrites THEN listed ELSE listed \cup {d.id}
  /\ call' = [call EXCEPT ![c].pc = IF TwoWrites THEN "zadd" ELSE "index"]
  /\ UNCHANGED <<index, transforms, provider, doubt>>

AddToList(c) ==
  LET d == call[c] IN
  /\ d.pc = "zadd"
  /\ listed' = listed \cup {d.id}
  /\ call' = [call EXCEPT ![c].pc = "index"]
  /\ UNCHANGED <<rows, index, transforms, provider, doubt>>

\* An index write of row version r for id i that succeeds or had nothing to do.
Offer(c, i, r) ==
  /\ index' = IF Attempted(r) THEN [index EXCEPT ![i] = Indexed(r)] ELSE index
  /\ doubt' = IF ~Ready(r) THEN doubt \cup {i}
              ELSE IF Attempted(r) /\ i \notin call[c].shared THEN doubt \ {i}
              ELSE doubt

\* One that raises: logged and swallowed; it may have reached the provider or not.
OfferFails(c, i, r) ==
  /\ c \in Failing /\ Attempted(r)
  /\ index' \in {index, [index EXCEPT ![i] = Indexed(r)]}
  /\ doubt' = doubt \cup {i}

\* ExperienceIndexingStore._index: the call returns the record either way.
Index(c) ==
  LET d == call[c] IN
  /\ d.pc = "index"
  /\ Offer(c, d.id, d.ver[d.id]) \/ OfferFails(c, d.id, d.ver[d.id])
  /\ call' = Ended(c, "done")
  /\ UNCHANGED <<rows, listed, transforms, provider>>

\* The ids store.list(limit, agent_id) answers with: redis takes the unfiltered call from
\* the sorted set and the filtered one from the hash.
List(agent) ==
  LET Found == {i \in Ids : IF agent = Unset THEN i \in listed
                            ELSE rows[i] # Unset /\ rows[i].agent = agent}
  IN {i \in Found : Cardinality({j \in Found : Age[j] < Age[i]}) < Limit}

\* backfill_outcomes_from_store with the default statuses.
Backfill(c, agent) ==
  /\ call[c].pc = "idle"
  /\ Started(c, [Idle EXCEPT !.op = "backfill", !.agent = agent, !.pc = "rows",
                   !.todo = List(agent),
                   !.ver = [i \in Ids |-> IF i \in List(agent) THEN rows[i] ELSE Unset]])
  /\ UNCHANGED <<rows, listed, index, transforms, provider>>

\* The next id of a backfill: rows come newest first.
Newest(i, todo) == i \in todo /\ \A j \in todo : Age[i] <= Age[j]

\* Mutant: a backfill that counts what it tried, not what worked.
BackfillRowCountingAll(c, i) ==
  LET r == call[c].ver[i] IN
  /\ call[c].pc = "rows" /\ Newest(i, call[c].todo)
  /\ r.status \in IndexStatuses
  /\ Offer(c, i, r) \/ OfferFails(c, i, r)
  /\ call' = [call EXCEPT ![c].todo = @ \ {i}]
  /\ UNCHANGED <<rows, listed, transforms, provider>>

\* One row of the listed snapshot; maybe_index_experience tells an attempt that
\* succeeded from everything else, which is skipped.
BackfillRow(c, i) ==
  LET r == call[c].ver[i]
      Rest(n) == [call EXCEPT ![c].todo = @ \ {i}, ![c].skipped = @ + n]
  IN
  /\ call[c].pc = "rows" /\ Newest(i, call[c].todo)
  /\ \/ /\ r.status \notin IndexStatuses
        /\ call' = Rest(1)
        /\ UNCHANGED <<index, doubt>>
     \/ /\ r.status \in IndexStatuses
        /\ Offer(c, i, r)
        /\ call' = Rest(IF Attempted(r) THEN 0 ELSE 1)
     \/ /\ r.status \in IndexStatuses
        /\ OfferFails(c, i, r)
        /\ call' = Rest(1)
  /\ UNCHANGED <<rows, listed, transforms, provider>>

BackfillDone(c) ==
  /\ call[c].pc = "rows" /\ call[c].todo = {}
  /\ call' = Ended(c, "done")
  /\ UNCHANGED <<rows, listed, index, transforms, provider, doubt>>

\* The store raises (before or after its write took effect), or the process dies.
Fail(c) ==
  /\ c \in Failing /\ call[c].todo # {}
  /\ call' = Ended(c, IF call[c].pc = "zadd" THEN "cut" ELSE "failed")
  /\ doubt' = IF call[c].pc \in {"zadd", "index"} THEN doubt \cup {call[c].id} ELSE doubt
  /\ UNCHANGED <<rows, listed, index, transforms, provider>>

\* Bootstrap, in any order with the calls above.
RegisterTransform(a) ==
  /\ a \notin transforms
  /\ transforms' = transforms \cup {a}
  /\ UNCHANGED <<rows, listed, index, provider, call, doubt>>

\* set_retrieval_provider: a provider, the first or another, that holds no documents yet.
SetRetrievalProvider ==
  /\ provider' = TRUE
  /\ index' = NoRows
  /\ call' = [c \in Calls |-> IF InFlight(call[c])
                              THEN [call[c] EXCEPT !.shared = Ids, !.alone = FALSE]
                              ELSE call[c]]
  /\ doubt' = Ids
  /\ UNCHANGED <<rows, listed, transforms>>

Step(c) ==
  \/ \E i \in Ids, s \in SaveStatuses, k \in Cards \cup {Unset} : Save(c, i, s, k)
  \/ \E i \in Ids, w \in Words : UpdateStatus(c, i, w)
  \/ \E a \in Agents \cup {Unset} : Backfill(c, a)
  \/ WithStatus(c) \/ Put(c) \/ AddToList(c) \/ Index(c)
  \/ (\E i \in Ids : BackfillRow(c, i)) \/ BackfillDone(c) \/ Fail(c)

Next ==
  \/ \E c \in Calls : Step(c)
  \/ \E a \in Agents : RegisterTransform(a)
  \/ SetRetrievalProvider

Spec == Init /\ [][Next]_vars
-----------------------------------------------------------------------------
(* Properties. *)

\* Rows, documents and the progress of calls keep their types.  Code: RecommendationRecord
\* as save and with_status produce it.
TypeOK ==
  /\ rows \in [Ids -> Row \cup {Unset}]
  /\ listed \subseteq Ids
  /\ index \in [Ids -> Row \cup {Unset}]
  /\ transforms \subseteq Agents /\ provider \in BOOLEAN
  /\ doubt \subseteq Ids
  /\ \A c \in Calls :
       /\ call[c].pc \in {"idle", "check", "put", "zadd", "index", "rows", "done", "failed", "cut"}
       /\ call[c].pc \in {"check", "put", "zadd", "index"} =>
            call[c].todo = {call[c].id}
       /\ call[c].todo \subseteq Ids
       /\ \A i \in call[c].todo : call[c].ver[i] \in Row

\* While nobody works on a row whose last index write went through and was not
\* interleaved with another call, the index holds the current version of the row: a
\* rejected or superseded one has no document, an indexable one its own.  Code:
\* ExperienceIndexingStore.save and update_status, maybe_index_experience, backfill.
IndexAgrees ==
  \A i \in Ids :
    /\ rows[i] # Unset /\ i \notin doubt
    /\ \A c \in Calls : i \notin call[c].todo
    => /\ rows[i].status \in RemoveStatuses => index[i] = Unset
       /\ rows[i].status \in IndexStatuses /\ rows[i].card # Unset => index[i] = rows[i]

\* The index never holds a document of a record that was not stored: the row is written
\* first, and a save the store refuses leaves no document.  Code: save, lines 117-118.
DocumentsHaveRows ==
  \A i \in Ids : index[i] # Unset => rows[i] # Unset /\ index[i].status \notin RemoveStatuses

\* The list and the store agree on what exists: an unfiltered list finds stored rows
\* only, and a stored row that it misses is one whose save was cut short.  Code: the two
\* writes of RedisRecommendationStore.save.
ListMatchesStore ==
  /\ \A i \in listed : rows[i] # Unset
  /\ \A i \in Ids : rows[i] # Unset /\ i \notin listed =>
       \E c \in Calls : call[c].id = i /\ call[c].pc \in {"zadd", "cut"}

\* A status update that shares its row with no other call changes the status and keeps
\* the body, although it writes back a whole record it has read earlier.  Code:
\* RecommendationStatusMixin.update_status.
StatusKeepsBody ==
  [][\A c \in Calls :
       call[c].op = "status" /\ call[c].pc = "put" /\ call'[c].pc \in {"zadd", "index"}
         /\ call[c].id \notin call[c].shared =>
       /\ rows[call[c].id] # Unset
       /\ rows'[call[c].id] = [rows[call[c].id] EXCEPT !.status = call[c].word]]_vars

\* A backfill of all agents during which nothing else ran, and which reports no row as
\* skipped, has brought the index up to date with every row its limit covers.
\* Code: backfill_outcomes_from_store and the bool of maybe_index_experience.
BackfillReportIsTrue ==
  [][\A c \in Calls :
       /\ call[c].pc = "rows" /\ call'[c].pc = "done"
       /\ call[c].alone /\ call[c].agent = Unset /\ call[c].skipped = 0
       => \A i \in List(Unset) : index[i] = rows[i]]_vars
=============================================================================
