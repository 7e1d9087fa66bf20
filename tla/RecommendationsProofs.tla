------------------------ MODULE RecommendationsProofs ------------------------
(***************************************************************************)
(* Proofs about Recommendations for any numbers of rows, calls and agents.   *)
(*                                                                         *)
(* Shape holds what the step of a call needs to know of what the call has in *)
(* hand.  Sharing relates the calls to one another: two calls that hold one   *)
(* id both know it (Shared), a shared id is in doubt (SharedInDoubt), and    *)
(* what a call holds of an id it does not share is the stored row            *)
(* (HandIsCurrent).  With these, an id that is not in doubt agrees with the  *)
(* index except between the store's write and the index write of the one     *)
(* call that holds it (Agreement), and IndexAgrees is the case of no call.   *)
(* What single calls promise follows: Unlisted, StatusHand and Reporting.    *)
(***************************************************************************)
EXTENDS Recommendations, TLAPS

Ops == {"idle", "save", "status", "backfill"}
Steps == {"idle", "check", "put", "zadd", "index", "rows", "done", "failed", "cut"}

CallRecord ==
  [op : Ops, id : Ids \cup {Unset}, word : Words \cup {Unset}, agent : Agents \cup {Unset},
   todo : SUBSET Ids, ver : [Ids -> Row \cup {Unset}], skipped : Nat,
   shared : SUBSET Ids, alone : BOOLEAN, pc : Steps]

\* What call d has in hand: nothing unless it is in flight, one id unless it is a
\* backfill, and rows that exist once it has read or written them.
Held(d) ==
  /\ ~InFlight(d) => d.todo = {}
  /\ d.pc \in {"check", "put", "zadd", "index"} => d.id \in Ids /\ d.todo = {d.id}
  /\ \A i \in d.todo : d.ver[i] \in Row
  /\ d.pc \in {"check", "zadd", "index", "rows"} => \A i \in d.todo : rows[i] # Unset

Types ==
  /\ rows \in [Ids -> Row \cup {Unset}]
  /\ listed \subseteq Ids
  /\ index \in [Ids -> Row \cup {Unset}]
  /\ transforms \subseteq Agents /\ provider \in BOOLEAN
  /\ call \in [Calls -> CallRecord]
  /\ doubt \subseteq Ids

Shape ==
  /\ Types
  /\ \A i \in listed : rows[i] # Unset
  /\ \A c \in Calls : Held(call[c])

Shared ==
  \A c, d \in Calls : c # d =>
    \A i \in call[c].todo \cap call[d].todo : i \in call[c].shared

SharedInDoubt == \A c \in Calls : call[c].todo \cap call[c].shared \subseteq doubt

HandIsCurrent ==
  \A c \in Calls : call[c].pc \in {"zadd", "index", "rows"} =>
    \A i \in call[c].todo \ call[c].shared : rows[i] = call[c].ver[i]

Agrees(i) ==
  /\ rows[i].status \in RemoveStatuses => index[i] = Unset
  /\ rows[i].status \in IndexStatuses /\ rows[i].card # Unset => index[i] = rows[i]

Agreement ==
  \A i \in Ids \ doubt : rows[i] # Unset =>
    \/ \E c \in Calls : i \in call[c].todo /\ call[c].pc \in {"zadd", "index"}
    \/ Agrees(i)

Agreeing == Shared /\ SharedInDoubt /\ HandIsCurrent /\ Agreement
-----------------------------------------------------------------------------
(* Shape: starting a call. *)

Others(c) == {e \in Calls \ {c} : InFlight(call[e])}
Theirs(c) == UNION {call[e].todo : e \in Others(c)}

\* What Started does to the calls, field by field.
LEMMA StartedCalls ==
  ASSUME Types, NEW c \in Calls, NEW d \in CallRecord, Started(c, d)
  PROVE  /\ call' \in [Calls -> CallRecord]
         /\ call'[c].shared = d.todo \cap Theirs(c)
         /\ \A e \in Calls : LET r == IF e = c THEN d ELSE call[e] IN
              /\ call'[e].pc = r.pc /\ call'[e].id = r.id
              /\ call'[e].todo = r.todo /\ call'[e].ver = r.ver
         /\ \A e \in Others(c) :
              call'[e].shared = call[e].shared \cup (call[e].todo \cap d.todo)
         /\ \A e \in Calls \ ({c} \cup Others(c)) : call'[e] = call[e]
         /\ doubt' = doubt \cup (d.todo \cap Theirs(c)) /\ Theirs(c) \subseteq Ids
<1>1. Theirs(c) \subseteq Ids
  BY DEF Types, CallRecord, Theirs, Others
<1>2. /\ doubt' = doubt \cup (d.todo \cap Theirs(c))
      /\ call' = [e \in Calls |->
           IF e = c THEN [d EXCEPT !.shared = d.todo \cap Theirs(c),
                                   !.alone = (Others(c) = {})]
           ELSE IF e \in Others(c)
                THEN [call[e] EXCEPT !.shared = call[e].shared \cup (call[e].todo \cap d.todo),
                                     !.alone = FALSE]
           ELSE call[e]]
  BY DEF Started, Others, Theirs
<1>3. /\ call'[c] \in CallRecord
      /\ call'[c].pc = d.pc /\ call'[c].id = d.id
      /\ call'[c].todo = d.todo /\ call'[c].ver = d.ver
      /\ call'[c].shared = d.todo \cap Theirs(c)
  <2>1. call'[c] = [d EXCEPT !.shared = d.todo \cap Theirs(c), !.alone = (Others(c) = {})]
    BY <1>2
  <2>2. d.todo \cap Theirs(c) \in SUBSET Ids /\ (Others(c) = {}) \in BOOLEAN
    BY <1>1
  <2>3. ASSUME NEW s \in SUBSET Ids, NEW b \in BOOLEAN
        PROVE  LET q == [d EXCEPT !.shared = s, !.alone = b] IN
               /\ q \in CallRecord /\ q.shared = s
               /\ q.pc = d.pc /\ q.id = d.id /\ q.todo = d.todo /\ q.ver = d.ver
    BY <2>3 DEF CallRecord
  <2> QED
    BY ZenonT(40), <2>1, <2>2, <2>3
<1>4. ASSUME NEW e \in Others(c)
      PROVE  /\ call'[e] \in CallRecord
             /\ call'[e].pc = call[e].pc /\ call'[e].id = call[e].id
             /\ call'[e].todo = call[e].todo /\ call'[e].ver = call[e].ver
             /\ call'[e].shared = call[e].shared \cup (call[e].todo \cap d.todo)
  <2>1. e \in Calls /\ e # c
    BY DEF Others
  <2>2. call'[e] = [call[e] EXCEPT !.shared = call[e].shared \cup (call[e].todo \cap d.todo),
                                  !.alone = FALSE]
    BY <1>2, <2>1
  <2>3. call[e] \in CallRecord
    BY <2>1 DEF Types
  <2>4. call[e].shared \cup (call[e].todo \cap d.todo) \in SUBSET Ids
    BY <2>3 DEF CallRecord
  <2>5. ASSUME NEW s \in SUBSET Ids
        PROVE  LET q == [call[e] EXCEPT !.shared = s, !.alone = FALSE] IN
               /\ q \in CallRecord /\ q.shared = s
               /\ q.pc = call[e].pc /\ q.id = call[e].id
               /\ q.todo = call[e].todo /\ q.ver = call[e].ver
    BY <2>3, <2>5 DEF CallRecord
  <2> QED
    BY <2>2, <2>4, <2>5
<1>5. \A e \in Calls \ ({c} \cup Others(c)) : call'[e] = call[e] /\ call'[e] \in CallRecord
  BY <1>2 DEF Types
<1>6. call' \in [Calls -> CallRecord]
  <2>1. \A e \in Calls : call'[e] \in CallRecord
    BY <1>3, <1>4, <1>5
  <2>2. call' = [e \in Calls |-> call'[e]]
    BY <1>2
  <2> QED
    BY <2>1, <2>2
<1> QED
  BY ZenonT(40), <1>1, <1>2, <1>3, <1>4, <1>5, <1>6

\* A call that starts well formed keeps Shape.
LEMMA StartedKeepsShape ==
  ASSUME Shape, NEW c \in Calls, NEW d \in CallRecord, Started(c, d), Held(d),
         UNCHANGED <<rows, listed, index, transforms, provider>>
  PROVE  Shape'
<1>1. Types
  BY DEF Shape
<1>2. doubt' \subseteq Ids
  BY <1>1, StartedCalls DEF Types
<1>3. \A e \in Calls : Held(call[e])'
  <2>1. \A e \in Calls : LET r == IF e = c THEN d ELSE call[e] IN
          /\ call'[e].pc = r.pc /\ call'[e].id = r.id
          /\ call'[e].todo = r.todo /\ call'[e].ver = r.ver
    BY <1>1, StartedCalls
  <2> QED
    BY <2>1 DEF Shape, Held, InFlight
<1> QED
  BY <1>1, <1>2, <1>3, StartedCalls DEF Shape, Types

LEMMA IdleRecord == Idle \in CallRecord /\ NoRows \in [Ids -> Row \cup {Unset}]
<1>1. NoRows \in [Ids -> Row \cup {Unset}]
  BY DEF NoRows
<1>2. /\ "idle" \in Ops /\ "idle" \in Steps /\ 0 \in Nat
      /\ TRUE \in BOOLEAN /\ {} \in SUBSET Ids
  BY DEF Ops, Steps
<1> QED
  BY <1>1, <1>2, Zenon DEF Idle, CallRecord

LEMMA SaveKeepsShape ==
  ASSUME Shape, NEW c \in Calls, NEW i \in Ids, NEW s \in SaveStatuses,
         NEW k \in Cards \cup {Unset}, Save(c, i, s, k)
  PROVE  Shape'
<1> DEFINE r == [agent |-> Owner[i], status |-> s, card |-> k]
           v == [NoRows EXCEPT ![i] = r]
           d == [Idle EXCEPT !.op = "save", !.id = i, !.todo = {i}, !.pc = "put", !.ver = v]
<1>1. r \in Row
  BY RecommendationsAssumption DEF Row
<1>2. v \in [Ids -> Row \cup {Unset}] /\ v[i] = r
  BY <1>1, IdleRecord
<1>3. Started(c, d) /\ UNCHANGED <<rows, listed, index, transforms, provider>>
  BY DEF Save, Idle
<1>4. d \in CallRecord /\ d.pc = "put" /\ d.id = i /\ d.todo = {i} /\ d.ver = v
  <2> HIDE DEF v
  <2> QED
    BY <1>2, IdleRecord DEF CallRecord, Ops, Steps, Idle
<1>5. Held(d)
  BY <1>1, <1>2, <1>4 DEF Held, InFlight
<1> QED
  BY <1>3, <1>4, <1>5, StartedKeepsShape

LEMMA EndedKeepsShape ==
  ASSUME Shape, NEW c \in Calls, NEW how \in {"done", "failed", "cut"},
         call' = Ended(c, how), doubt' \subseteq Ids,
         UNCHANGED <<rows, listed, transforms, provider>>,
         index' \in [Ids -> Row \cup {Unset}]
  PROVE  Shape'
<1>1. /\ call' \in [Calls -> CallRecord] /\ call'[c].todo = {} /\ call'[c].pc = how
      /\ \A e \in Calls \ {c} : call'[e] = call[e]
  BY ZenonT(40), IdleRecord DEF Ended, Shape, Types, CallRecord, Steps, Idle
<1>2. \A e \in Calls : Held(call[e])'
  BY <1>1 DEF Shape, Held, InFlight
<1> QED
  BY <1>1, <1>2 DEF Shape, Types

LEMMA UpdateStatusKeepsShape ==
  ASSUME Shape, NEW c \in Calls, NEW i \in Ids, NEW w \in Words, UpdateStatus(c, i, w)
  PROVE  Shape'
<1>1. CASE rows[i] = Unset
  BY <1>1, EndedKeepsShape DEF UpdateStatus, Shape, Types
<1>2. CASE rows[i] # Unset
  <2> DEFINE v == [NoRows EXCEPT ![i] = rows[i]]
             d == [Idle EXCEPT !.op = "status", !.id = i, !.word = w, !.todo = {i},
                               !.ver = v, !.pc = "check"]
  <2>1. rows[i] \in Row
    BY <1>2 DEF Shape, Types
  <2>2. v \in [Ids -> Row \cup {Unset}] /\ v[i] = rows[i]
    BY <2>1, IdleRecord
  <2>3. Started(c, d) /\ UNCHANGED <<rows, listed, index, transforms, provider>>
    BY <1>2 DEF UpdateStatus, Idle
  <2>4. d \in CallRecord /\ d.pc = "check" /\ d.id = i /\ d.todo = {i} /\ d.ver = v
    <3> HIDE DEF v
    <3> QED
      BY <2>2, IdleRecord DEF CallRecord, Ops, Steps, Idle
  <2>5. Held(d)
    BY <1>2, <2>1, <2>2, <2>4 DEF Held, InFlight
  <2> QED
    BY <2>3, <2>4, <2>5, StartedKeepsShape
<1> QED
  BY <1>1, <1>2

LEMMA BackfillKeepsShape ==
  ASSUME Shape, NEW c \in Calls, NEW a \in Agents \cup {Unset}, Backfill(c, a)
  PROVE  Shape'
<1> DEFINE v == [i \in Ids |-> IF i \in List(a) THEN rows[i] ELSE Unset]
           d == [Idle EXCEPT !.op = "backfill", !.agent = a, !.pc = "rows",
                             !.todo = List(a), !.ver = v]
<1>1. List(a) \subseteq Ids /\ \A i \in List(a) : rows[i] \in Row
  BY DEF List, Shape, Types
<1>2. v \in [Ids -> Row \cup {Unset}] /\ \A i \in List(a) : v[i] = rows[i]
  BY <1>1 DEF Shape, Types
<1>3. Started(c, d) /\ UNCHANGED <<rows, listed, index, transforms, provider>>
  BY DEF Backfill
<1>4. d \in CallRecord /\ d.pc = "rows" /\ d.todo = List(a) /\ d.ver = v
  <2> HIDE DEF v
  <2> QED
    BY <1>1, <1>2, IdleRecord DEF CallRecord, Ops, Steps, Idle
<1>5. Held(d)
  <2>1. \A i \in List(a) : rows[i] # Unset
    BY <1>1, RecommendationsAssumption
  <2> QED
    BY <1>1, <1>2, <1>4, <2>1 DEF Held, InFlight
<1> QED
  BY <1>3, <1>4, <1>5, StartedKeepsShape

(* Shape: the other steps. *)

\* A step that changes one call in flight and no row.
LEMMA OneCallKeepsShape ==
  ASSUME Shape, NEW c \in Calls, NEW d \in CallRecord, call' = [call EXCEPT ![c] = d],
         Held(d), UNCHANGED <<rows, transforms, provider>>, doubt' \subseteq Ids,
         index' \in [Ids -> Row \cup {Unset}],
         listed' \subseteq Ids, \A i \in listed' : rows[i] # Unset
  PROVE  Shape'
<1>1. /\ call' \in [Calls -> CallRecord] /\ call'[c] = d
      /\ \A e \in Calls \ {c} : call'[e] = call[e]
  BY DEF Shape, Types
<1>2. \A e \in Calls : Held(call[e])'
  BY <1>1 DEF Shape, Held, InFlight
<1> QED
  BY <1>1, <1>2 DEF Shape, Types

LEMMA WithStatusKeepsShape ==
  ASSUME Shape, NEW c \in Calls, WithStatus(c)
  PROVE  Shape'
<1>1. CASE call[c].word \notin RecommendationStatuses
  BY <1>1, EndedKeepsShape DEF WithStatus, Shape, Types
<1>2. CASE call[c].word \in RecommendationStatuses
  <2> DEFINE i == call[c].id
             r == [call[c].ver[i] EXCEPT !.status = call[c].word]
             v == [call[c].ver EXCEPT ![i] = r]
             d == [call[c] EXCEPT !.ver = v, !.pc = "put"]
  <2>1. call[c] \in CallRecord /\ i \in Ids /\ call[c].todo = {i} /\ call[c].ver[i] \in Row
    BY DEF WithStatus, Shape, Types, Held
  <2>2. r \in Row
    BY <1>2, <2>1 DEF Row
  <2>3. v \in [Ids -> Row \cup {Unset}] /\ v[i] = r
    BY <2>1, <2>2 DEF CallRecord
  <2>4. d \in CallRecord /\ d.pc = "put" /\ d.id = i /\ d.todo = {i} /\ d.ver = v
    <3> HIDE DEF v
    <3> QED
      BY <2>1, <2>3 DEF CallRecord, Steps
  <2>5. call' = [call EXCEPT ![c] = d]
    BY <1>2 DEF WithStatus, Shape, Types
  <2>6. Held(d)
    BY <2>1, <2>2, <2>3, <2>4 DEF Held, InFlight
  <2> QED
    BY <2>4, <2>5, <2>6, OneCallKeepsShape DEF WithStatus, Shape, Types
<1> QED
  BY <1>1, <1>2

LEMMA PutKeepsShape ==
  ASSUME Shape, NEW c \in Calls, Put(c)
  PROVE  Shape'
<1> DEFINE i == call[c].id
<1>1. call[c] \in CallRecord /\ i \in Ids /\ call[c].todo = {i} /\ call[c].ver[i] \in Row
  BY DEF Put, Shape, Types, Held
<1>2. /\ rows' \in [Ids -> Row \cup {Unset}] /\ rows'[i] = call[c].ver[i]
      /\ \A j \in Ids \ {i} : rows'[j] = rows[j]
  BY <1>1 DEF Put, Shape, Types
<1>3. rows'[i] # Unset /\ \A j \in Ids : rows[j] # Unset => rows'[j] # Unset
  BY <1>1, <1>2, RecommendationsAssumption
<1>4. /\ call' \in [Calls -> CallRecord]
      /\ call'[c].pc \in {"zadd", "index"} /\ call'[c].id = i
      /\ call'[c].todo = {i} /\ call'[c].ver = call[c].ver
      /\ \A e \in Calls \ {c} : call'[e] = call[e]
  BY <1>1 DEF Put, Shape, Types, CallRecord, Steps
<1>5. \A e \in Calls : Held(call[e])'
  <2>1. Held(call[c])'
    BY <1>1, <1>3, <1>4 DEF Held, InFlight
  <2>2. ASSUME NEW e \in Calls \ {c} PROVE Held(call[e])'
    BY <1>3, <1>4 DEF Shape, Types, CallRecord, Held, InFlight
  <2> QED
    BY <2>1, <2>2
<1>6. listed' \subseteq Ids /\ \A j \in listed' : rows'[j] # Unset
  BY <1>1, <1>3 DEF Put, Shape, Types
<1> QED
  BY <1>2, <1>4, <1>5, <1>6 DEF Put, Shape, Types

LEMMA AddToListKeepsShape ==
  ASSUME Shape, NEW c \in Calls, AddToList(c)
  PROVE  Shape'
<1> DEFINE d == [call[c] EXCEPT !.pc = "index"]
<1>1. /\ call[c] \in CallRecord /\ call[c].pc = "zadd" /\ call[c].id \in Ids
      /\ call[c].todo = {call[c].id} /\ rows[call[c].id] # Unset
  BY DEF AddToList, Shape, Types, Held
<1>2. d \in CallRecord /\ Held(d)
  BY <1>1 DEF Shape, CallRecord, Steps, Held, InFlight
<1>3. call' = [call EXCEPT ![c] = d]
  BY DEF AddToList, Shape, Types
<1> QED
  BY <1>1, <1>2, <1>3, OneCallKeepsShape DEF AddToList, Shape, Types

\* What an index write, tried or not, leaves of the index and of the doubts.
LEMMA OfferTypes ==
  ASSUME Types, NEW c \in Calls, NEW i \in Ids, NEW r \in Row,
         Offer(c, i, r) \/ OfferFails(c, i, r)
  PROVE  /\ index' \in [Ids -> Row \cup {Unset}] /\ doubt' \subseteq Ids
         /\ \A j \in Ids \ {i} : index'[j] = index[j]
         /\ index'[i] = index[i] \/ index'[i] = Indexed(r)
BY DEF Offer, OfferFails, Types, Indexed

LEMMA IndexKeepsShape ==
  ASSUME Shape, NEW c \in Calls, Index(c)
  PROVE  Shape'
<1>1. call[c].id \in Ids /\ call[c].ver[call[c].id] \in Row
  BY DEF Index, Shape, Types, Held
<1> QED
  BY <1>1, OfferTypes, EndedKeepsShape DEF Index, Shape

LEMMA BackfillRowKeepsShape ==
  ASSUME Shape, NEW c \in Calls, NEW i \in Ids, BackfillRow(c, i)
  PROVE  Shape'
<1>1. /\ call[c] \in CallRecord /\ call[c].pc = "rows" /\ i \in call[c].todo
      /\ call[c].ver[i] \in Row
  BY DEF BackfillRow, Newest, Shape, Types, Held
<1>2. index' \in [Ids -> Row \cup {Unset}] /\ doubt' \subseteq Ids
  BY <1>1, OfferTypes DEF BackfillRow, Shape, Types
<1>3. PICK n \in {0, 1} : call' = [call EXCEPT ![c].todo = @ \ {i}, ![c].skipped = @ + n]
  BY DEF BackfillRow
<1> DEFINE d == [call[c] EXCEPT !.todo = @ \ {i}, !.skipped = @ + n]
<1>4. call' = [call EXCEPT ![c] = d]
  BY <1>1, <1>3 DEF Shape, Types, CallRecord
<1>5. /\ d \in CallRecord /\ d.pc = "rows" /\ d.todo = call[c].todo \ {i}
      /\ d.ver = call[c].ver
  <2>1. call[c].skipped + n \in Nat /\ call[c].todo \ {i} \in SUBSET Ids
    BY <1>1 DEF CallRecord
  <2>2. ASSUME NEW t \in SUBSET Ids, NEW k \in Nat
        PROVE  LET q == [call[c] EXCEPT !.todo = t, !.skipped = k] IN
               q \in CallRecord /\ q.pc = call[c].pc /\ q.todo = t /\ q.ver = call[c].ver
    BY <1>1, <2>2 DEF CallRecord
  <2> QED
    BY <1>1, <2>1, <2>2
<1>6. Held(d)
  BY <1>1, <1>5 DEF Shape, Held, InFlight
<1> QED
  BY <1>2, <1>4, <1>5, <1>6, OneCallKeepsShape DEF BackfillRow, Shape, Types

LEMMA SetRetrievalProviderKeepsShape ==
  ASSUME Shape, SetRetrievalProvider
  PROVE  Shape'
<1>1. ASSUME NEW c \in Calls
      PROVE  /\ call'[c] \in CallRecord /\ call'[c].pc = call[c].pc /\ call'[c].id = call[c].id
             /\ call'[c].todo = call[c].todo /\ call'[c].ver = call[c].ver
  BY ZenonT(40) DEF SetRetrievalProvider, Shape, Types, CallRecord
<1>2. call' \in [Calls -> CallRecord]
  <2>1. call' = [c \in Calls |-> call'[c]]
    BY DEF SetRetrievalProvider
  <2> QED
    BY <1>1, <2>1
<1>3. \A c \in Calls : Held(call[c])'
  BY ZenonT(40), <1>1 DEF SetRetrievalProvider, Shape, Held, InFlight
<1> QED
  BY <1>2, <1>3, IdleRecord DEF SetRetrievalProvider, Shape, Types

LEMMA ShapeStep == Shape /\ [Next]_vars => Shape'
<1> SUFFICES ASSUME Shape, [Next]_vars PROVE Shape'
  OBVIOUS
<1>1. ASSUME NEW c \in Calls, Step(c) PROVE Shape'
  <2>1. ASSUME NEW i \in Ids, NEW s \in SaveStatuses, NEW k \in Cards \cup {Unset},
               Save(c, i, s, k)
        PROVE  Shape'
    BY <2>1, SaveKeepsShape
  <2>2. ASSUME NEW i \in Ids, NEW w \in Words, UpdateStatus(c, i, w) PROVE Shape'
    BY <2>2, UpdateStatusKeepsShape
  <2>3. ASSUME NEW a \in Agents \cup {Unset}, Backfill(c, a) PROVE Shape'
    BY <2>3, BackfillKeepsShape
  <2>4. CASE WithStatus(c)
    BY <2>4, WithStatusKeepsShape
  <2>5. CASE Put(c)
    BY <2>5, PutKeepsShape
  <2>6. CASE AddToList(c)
    BY <2>6, AddToListKeepsShape
  <2>7. CASE Index(c)
    BY <2>7, IndexKeepsShape
  <2>8. ASSUME NEW i \in Ids, BackfillRow(c, i) PROVE Shape'
    BY <2>8, BackfillRowKeepsShape
  <2>9. CASE BackfillDone(c)
    BY <2>9, EndedKeepsShape DEF BackfillDone, Shape, Types
  <2>10. CASE Fail(c)
    <3>1. doubt' \subseteq Ids
      BY <2>10 DEF Fail, Shape, Types, Held
    <3> QED
      BY <2>10, <3>1, EndedKeepsShape DEF Fail, Shape, Types
  <2> QED
    BY <1>1, <2>1, <2>2, <2>3, <2>4, <2>5, <2>6, <2>7, <2>8, <2>9, <2>10 DEF Step
<1>2. ASSUME NEW a \in Agents, RegisterTransform(a) PROVE Shape'
  BY <1>2 DEF RegisterTransform, Shape, Types, Held, InFlight
<1>3. CASE SetRetrievalProvider
  BY <1>3, SetRetrievalProviderKeepsShape
<1>4. CASE UNCHANGED vars
  BY <1>4 DEF vars, Shape, Types, Held, InFlight
<1> QED
  BY <1>1, <1>2, <1>3, <1>4 DEF Next

(* Sharing and agreement. *)

\* A call that starts holds nothing anyone else holds without both knowing it, and what
\* it has read is what is stored.
LEMMA StartedKeepsAgreeing ==
  ASSUME Shape, Agreeing, NEW c \in Calls, call[c].pc = "idle",
         NEW d \in CallRecord, d.pc \in {"check", "put", "rows"}, Started(c, d),
         d.pc = "rows" => \A i \in d.todo : rows[i] = d.ver[i],
         UNCHANGED <<rows, index>>
  PROVE  Agreeing'
<1>1. Types
  BY DEF Shape
<1>2. /\ call'[c].shared = d.todo \cap Theirs(c)
      /\ call'[c].pc = d.pc /\ call'[c].todo = d.todo /\ call'[c].ver = d.ver
      /\ doubt' = doubt \cup (d.todo \cap Theirs(c))
  BY <1>1, StartedCalls
<1>3. \A e \in Calls \ {c} :
        /\ call'[e].pc = call[e].pc /\ call'[e].todo = call[e].todo
        /\ call'[e].ver = call[e].ver
        /\ call[e].shared \subseteq call'[e].shared
        /\ call'[e].shared \subseteq call[e].shared \cup (call[e].todo \cap d.todo)
  <2>1. ASSUME NEW e \in Calls \ {c}
        PROVE  /\ call'[e].pc = call[e].pc /\ call'[e].todo = call[e].todo
               /\ call'[e].ver = call[e].ver
    BY <1>1, StartedCalls
  <2>2. \A e \in Others(c) :
          call'[e].shared = call[e].shared \cup (call[e].todo \cap d.todo)
    BY <1>1, StartedCalls
  <2>3. \A e \in Calls \ ({c} \cup Others(c)) : call'[e] = call[e]
    BY <1>1, StartedCalls
  <2> QED
    BY <2>1, <2>2, <2>3
<1>4. \A e \in Calls \ {c} : call[e].todo # {} => e \in Others(c)
  BY DEF Shape, Held, Others
<1>5. \A e \in Calls \ {c} : call[e].todo \subseteq Theirs(c)
  BY <1>4 DEF Theirs
<1>6. \A e \in Calls \ {c} : call[e].todo \cap d.todo \subseteq call'[e].shared
  <2>1. \A e \in Others(c) :
          call'[e].shared = call[e].shared \cup (call[e].todo \cap d.todo)
    BY <1>1, StartedCalls
  <2> QED
    BY <2>1, <1>4
<1>7. Shared'
  <2> SUFFICES ASSUME NEW e \in Calls, NEW f \in Calls, e # f,
                      NEW i \in call'[e].todo \cap call'[f].todo
               PROVE  i \in call'[e].shared
    BY DEF Shared
  <2>1. CASE e = c
    BY <2>1, <1>2, <1>3, <1>5
  <2>2. CASE f = c /\ e # c
    BY <2>2, <1>2, <1>3, <1>6
  <2>3. CASE e # c /\ f # c
    BY <2>3, <1>3 DEF Agreeing, Shared
  <2> QED
    BY <2>1, <2>2, <2>3
<1>8. SharedInDoubt'
  <2>1. call'[c].todo \cap call'[c].shared \subseteq doubt'
    BY <1>2
  <2>2. \A e \in Calls \ {c} : call'[e].todo \cap call'[e].shared \subseteq doubt'
    BY <1>2, <1>3, <1>5 DEF Agreeing, SharedInDoubt
  <2> QED
    BY <2>1, <2>2 DEF SharedInDoubt
<1>9. HandIsCurrent'
  <2> SUFFICES ASSUME NEW e \in Calls, call'[e].pc \in {"zadd", "index", "rows"},
                      NEW i \in call'[e].todo \ call'[e].shared
               PROVE  rows'[i] = call'[e].ver[i]
    BY DEF HandIsCurrent
  <2>1. CASE e = c
    BY <2>1, <1>2
  <2>2. CASE e # c
    BY <2>2, <1>3 DEF Agreeing, HandIsCurrent
  <2> QED
    BY <2>1, <2>2
<1>10. Agreement'
  <2> SUFFICES ASSUME NEW i \in Ids \ doubt', rows'[i] # Unset
               PROVE  \/ \E e \in Calls : i \in call'[e].todo /\ call'[e].pc \in {"zadd", "index"}
                      \/ Agrees(i)'
    BY DEF Agreement
  <2>1. i \notin doubt /\ rows[i] # Unset
    BY <1>2
  <2>2. CASE \E e \in Calls : i \in call[e].todo /\ call[e].pc \in {"zadd", "index"}
    BY <2>2, <1>3
  <2>3. CASE Agrees(i)
    BY <2>3 DEF Agrees
  <2> QED
    BY <2>1, <2>2, <2>3 DEF Agreeing, Agreement
<1> QED
  BY <1>7, <1>8, <1>9, <1>10 DEF Agreeing

\* A step of one call that lets go of ids, or keeps them, and clears the doubt only of
\* ids that it held, did not share and lets go of.
LEMMA OneCallKeepsSharing ==
  ASSUME Shape, Shared, SharedInDoubt, NEW c \in Calls,
         \A e \in Calls \ {c} : call'[e] = call[e],
         call'[c].todo \subseteq call[c].todo,
         call'[c].todo = {} \/ call'[c].shared = call[c].shared,
         \A i \in doubt \ doubt' :
           i \in call[c].todo /\ i \notin call[c].shared /\ i \notin call'[c].todo
  PROVE  Shared' /\ SharedInDoubt'
<1>1. Shared'
  BY DEF Shared
<1>2. SharedInDoubt'
  <2>1. call'[c].todo \cap call'[c].shared \subseteq doubt'
    BY DEF SharedInDoubt
  <2>2. ASSUME NEW e \in Calls \ {c}, NEW i \in call'[e].todo \cap call'[e].shared
        PROVE  i \in doubt'
    <3>1. i \in doubt /\ i \in call[e].todo
      BY <2>2 DEF SharedInDoubt
    <3>2. i \in call[c].todo => i \in call[c].shared
      BY <3>1 DEF Shared
    <3> QED
      BY <3>1, <3>2
  <2> QED
    BY <2>1, <2>2 DEF SharedInDoubt
<1> QED
  BY <1>1, <1>2

\* A step of one call that changes neither rows nor index: the store's view is kept if
\* every id the call was about to index stays so or is in doubt.
LEMMA QuietStepKeepsAgreeing ==
  ASSUME Shape, Agreeing, NEW c \in Calls,
         \A e \in Calls \ {c} : call'[e] = call[e],
         call'[c].todo \subseteq call[c].todo,
         call'[c].todo = {} \/ call'[c].shared = call[c].shared,
         call'[c].pc \in {"zadd", "index", "rows"} /\ call'[c].todo # {} =>
           call[c].pc \in {"zadd", "index", "rows"} /\ call'[c].ver = call[c].ver,
         UNCHANGED <<rows, index>>, doubt \subseteq doubt',
         call[c].pc \in {"zadd", "index"} =>
           \/ call[c].todo \subseteq doubt'
           \/ call'[c].pc \in {"zadd", "index"} /\ call'[c].todo = call[c].todo
  PROVE  Agreeing'
<1>1. Shared' /\ SharedInDoubt'
  BY OneCallKeepsSharing DEF Agreeing
<1>2. HandIsCurrent'
  BY DEF Agreeing, HandIsCurrent
<1>3. Agreement'
  <2> SUFFICES ASSUME NEW i \in Ids \ doubt', rows'[i] # Unset
               PROVE  \/ \E e \in Calls : i \in call'[e].todo /\ call'[e].pc \in {"zadd", "index"}
                      \/ Agrees(i)'
    BY DEF Agreement
  <2>1. i \notin doubt /\ rows[i] # Unset
    OBVIOUS
  <2>2. ASSUME NEW e \in Calls, i \in call[e].todo, call[e].pc \in {"zadd", "index"}
        PROVE  i \in call'[e].todo /\ call'[e].pc \in {"zadd", "index"}
    BY <2>2
  <2>3. CASE Agrees(i)
    BY <2>3 DEF Agrees
  <2> QED
    BY <2>1, <2>2, <2>3 DEF Agreeing, Agreement
<1> QED
  BY <1>1, <1>2, <1>3 DEF Agreeing

LEMMA PutKeepsAgreeing ==
  ASSUME Shape, Agreeing, NEW c \in Calls, Put(c)
  PROVE  Agreeing'
<1> DEFINE i == call[c].id
<1>1. i \in Ids /\ call[c].todo = {i} /\ call[c].pc = "put"
  BY DEF Put, Shape, Held
<1>2. /\ rows'[i] = call[c].ver[i] /\ \A j \in Ids \ {i} : rows'[j] = rows[j]
      /\ index' = index /\ doubt' = doubt
  BY <1>1 DEF Put, Shape, Types
<1>3. /\ call'[c].pc \in {"zadd", "index"} /\ call'[c].todo = {i}
      /\ call'[c].ver = call[c].ver /\ call'[c].shared = call[c].shared
      /\ \A e \in Calls \ {c} : call'[e] = call[e]
  BY <1>1 DEF Put, Shape, Types, CallRecord
<1>4. Shared' /\ SharedInDoubt'
  BY <1>1, <1>2, <1>3, OneCallKeepsSharing DEF Agreeing
<1>5. HandIsCurrent'
  <2> SUFFICES ASSUME NEW e \in Calls, call'[e].pc \in {"zadd", "index", "rows"},
                      NEW j \in call'[e].todo \ call'[e].shared
               PROVE  rows'[j] = call'[e].ver[j]
    BY DEF HandIsCurrent
  <2>1. CASE e = c
    BY <2>1, <1>2, <1>3
  <2>2. CASE e # c
    <3>1. j \in call[e].todo \ call[e].shared /\ j \in Ids
      BY <2>2, <1>3 DEF Shape, Types, CallRecord
    <3>2. j # i
      BY <2>2, <3>1, <1>1 DEF Agreeing, Shared
    <3> QED
      BY <2>2, <3>1, <3>2, <1>2, <1>3 DEF Agreeing, HandIsCurrent
  <2> QED
    BY <2>1, <2>2
<1>6. Agreement'
  <2> SUFFICES ASSUME NEW j \in Ids \ doubt', rows'[j] # Unset
               PROVE  \/ \E e \in Calls : j \in call'[e].todo /\ call'[e].pc \in {"zadd", "index"}
                      \/ Agrees(j)'
    BY DEF Agreement
  <2>1. CASE j = i
    BY <2>1, <1>3
  <2>2. CASE j # i
    <3>1. j \in Ids \ doubt /\ rows[j] # Unset
      BY <2>2, <1>2
    <3>2. CASE Agrees(j)
      BY <2>2, <3>2, <1>2 DEF Agrees
    <3>3. ASSUME NEW e \in Calls, j \in call[e].todo, call[e].pc \in {"zadd", "index"}
          PROVE  j \in call'[e].todo /\ call'[e].pc \in {"zadd", "index"}
      BY <3>3, <1>1, <1>3
    <3> QED
      BY <3>1, <3>2, <3>3 DEF Agreeing, Agreement
  <2> QED
    BY <2>1, <2>2
<1> QED
  BY <1>4, <1>5, <1>6 DEF Agreeing

\* An id a call has offered to the index is in doubt or agrees, if what was offered is
\* what is stored or somebody else has the id in hand too.
LEMMA OfferedAgrees ==
  ASSUME Shape, Agreeing, NEW c \in Calls, NEW i \in Ids, i \in call[c].todo,
         call[c].pc \in {"index", "rows"}, rows' = rows,
         Offer(c, i, call[c].ver[i]) \/ OfferFails(c, i, call[c].ver[i]),
         i \notin doubt'
  PROVE  Agrees(i)'
<1> DEFINE r == call[c].ver[i]
<1>1. Offer(c, i, r) /\ Ready(r)
  BY DEF Offer, OfferFails
<1>2. i \notin call[c].shared
  BY <1>1 DEF Offer, Agreeing, SharedInDoubt
<1>3. rows'[i] = r /\ r \in Row
  BY <1>2 DEF Agreeing, HandIsCurrent, Shape, Held
<1>4. CASE Attempted(r)
  <2>1. index'[i] = Indexed(r)
    BY <1>1, <1>4 DEF Offer, Shape, Types
  <2>2. r.status \in RemoveStatuses => r.status \notin IndexStatuses
    BY DEF RemoveStatuses, IndexStatuses
  <2> QED
    BY <1>3, <2>1, <2>2 DEF Agrees, Indexed
<1>5. CASE ~Attempted(r)
  BY <1>1, <1>3, <1>5 DEF Agrees, Attempted
<1> QED
  BY <1>4, <1>5

\* The two steps that write the index: the id written is let go of, the others stay.
LEMMA OfferKeepsAgreeing ==
  ASSUME Shape, Agreeing, NEW c \in Calls, NEW i \in Ids, i \in call[c].todo,
         call[c].pc \in {"index", "rows"}, rows' = rows,
         Offer(c, i, call[c].ver[i]) \/ OfferFails(c, i, call[c].ver[i]),
         \A e \in Calls \ {c} : call'[e] = call[e],
         call'[c].todo = call[c].todo \ {i},
         call'[c].todo = {} \/ call'[c].shared = call[c].shared,
         call'[c].todo # {} => call[c].pc = "rows" /\ call'[c].ver = call[c].ver
  PROVE  Agreeing'
<1>1. /\ \A j \in Ids \ {i} : index'[j] = index[j]
      /\ \A j \in doubt \ doubt' : j = i /\ i \notin call[c].shared
      /\ \A j \in Ids \ {i} : j \in doubt' <=> j \in doubt
  BY DEF Offer, OfferFails, Shape, Types
<1>2. Shared' /\ SharedInDoubt'
  BY <1>1, OneCallKeepsSharing DEF Agreeing
<1>3. HandIsCurrent'
  BY DEF Agreeing, HandIsCurrent
<1>4. Agreement'
  <2> SUFFICES ASSUME NEW j \in Ids \ doubt', rows'[j] # Unset
               PROVE  \/ \E e \in Calls : j \in call'[e].todo /\ call'[e].pc \in {"zadd", "index"}
                      \/ Agrees(j)'
    BY DEF Agreement
  <2>1. CASE j = i
    BY <2>1, OfferedAgrees
  <2>2. CASE j # i
    <3>1. j \in Ids \ doubt /\ rows[j] # Unset
      BY <2>2, <1>1
    <3>2. CASE Agrees(j)
      BY <2>2, <3>2, <1>1 DEF Agrees
    <3>3. ASSUME NEW e \in Calls, j \in call[e].todo, call[e].pc \in {"zadd", "index"}
          PROVE  j \in call'[e].todo /\ call'[e].pc \in {"zadd", "index"}
      <4>1. e # c
        BY <2>2, <3>3 DEF Shape, Held
      <4> QED
        BY <3>3, <4>1
    <3> QED
      BY <3>1, <3>2, <3>3 DEF Agreeing, Agreement
  <2> QED
    BY <2>1, <2>2
<1> QED
  BY <1>2, <1>3, <1>4 DEF Agreeing

\* What is left of a call that has ended.
LEMMA EndedCalls ==
  ASSUME Types, NEW c \in Calls, NEW how, call' = Ended(c, how)
  PROVE  /\ call'[c].todo = {} /\ call'[c].pc = how
         /\ \A e \in Calls \ {c} : call'[e] = call[e]
BY DEF Ended, Types, Idle

LEMMA AgreeingStep == Shape /\ Agreeing /\ [Next]_vars => Agreeing'
<1> SUFFICES ASSUME Shape, Agreeing, [Next]_vars PROVE Agreeing'
  OBVIOUS
<1>0. Types
  BY DEF Shape
<1>1. ASSUME NEW c \in Calls, Step(c) PROVE Agreeing'
  <2>1. ASSUME NEW i \in Ids, NEW s \in SaveStatuses, NEW k \in Cards \cup {Unset},
               Save(c, i, s, k)
        PROVE  Agreeing'
    <3> DEFINE r == [agent |-> Owner[i], status |-> s, card |-> k]
               v == [NoRows EXCEPT ![i] = r]
               d == [Idle EXCEPT !.op = "save", !.id = i, !.todo = {i}, !.pc = "put", !.ver = v]
    <3>1. v \in [Ids -> Row \cup {Unset}]
      BY IdleRecord, RecommendationsAssumption DEF Row
    <3>2. Started(c, d) /\ call[c].pc = "idle" /\ UNCHANGED <<rows, index>>
      BY <2>1 DEF Save, Idle
    <3>3. d \in CallRecord /\ d.pc = "put"
      <4> HIDE DEF v
      <4> QED
        BY <3>1, IdleRecord DEF CallRecord, Ops, Steps, Idle
    <3> QED
      BY <3>2, <3>3, StartedKeepsAgreeing
  <2>2. ASSUME NEW i \in Ids, NEW w \in Words, UpdateStatus(c, i, w) PROVE Agreeing'
    <3>1. CASE rows[i] = Unset
      BY <1>0, <2>2, <3>1, EndedCalls, QuietStepKeepsAgreeing DEF UpdateStatus
    <3>2. CASE rows[i] # Unset
      <4> DEFINE v == [NoRows EXCEPT ![i] = rows[i]]
                 d == [Idle EXCEPT !.op = "status", !.id = i, !.word = w, !.todo = {i},
                                   !.ver = v, !.pc = "check"]
      <4>1. v \in [Ids -> Row \cup {Unset}]
        BY <1>0, IdleRecord DEF Types
      <4>2. Started(c, d) /\ call[c].pc = "idle" /\ UNCHANGED <<rows, index>>
        BY <2>2, <3>2 DEF UpdateStatus, Idle
      <4>3. d \in CallRecord /\ d.pc = "check"
        <5> HIDE DEF v
        <5> QED
          BY <4>1, IdleRecord DEF CallRecord, Ops, Steps, Idle
      <4> QED
        BY <4>2, <4>3, StartedKeepsAgreeing
    <3> QED
      BY <3>1, <3>2
  <2>3. ASSUME NEW a \in Agents \cup {Unset}, Backfill(c, a) PROVE Agreeing'
    <3> DEFINE v == [i \in Ids |-> IF i \in List(a) THEN rows[i] ELSE Unset]
               d == [Idle EXCEPT !.op = "backfill", !.agent = a, !.pc = "rows",
                                 !.todo = List(a), !.ver = v]
    <3>1. List(a) \subseteq Ids
      BY DEF List
    <3>2. v \in [Ids -> Row \cup {Unset}] /\ \A i \in List(a) : v[i] = rows[i]
      BY <1>0, <3>1 DEF Types
    <3>3. Started(c, d) /\ call[c].pc = "idle" /\ UNCHANGED <<rows, index>>
      BY <2>3 DEF Backfill
    <3>4. d \in CallRecord /\ d.pc = "rows" /\ d.todo = List(a) /\ d.ver = v
      <4> HIDE DEF v
      <4> QED
        BY <3>1, <3>2, IdleRecord DEF CallRecord, Ops, Steps, Idle
    <3> QED
      BY ZenonT(40), <3>2, <3>3, <3>4, StartedKeepsAgreeing
  <2>4. CASE WithStatus(c)
    <3>1. CASE call[c].word \notin RecommendationStatuses
      BY <1>0, <2>4, <3>1, EndedCalls, QuietStepKeepsAgreeing DEF WithStatus
    <3>2. CASE call[c].word \in RecommendationStatuses
      <4>1. /\ call'[c].pc = "put" /\ call'[c].todo = call[c].todo
            /\ call'[c].shared = call[c].shared
            /\ \A e \in Calls \ {c} : call'[e] = call[e]
        BY <1>0, <2>4, <3>2 DEF WithStatus, Types, CallRecord
      <4> QED
        BY <2>4, <4>1, QuietStepKeepsAgreeing DEF WithStatus
    <3> QED
      BY <3>1, <3>2
  <2>5. CASE Put(c)
    BY <2>5, PutKeepsAgreeing
  <2>6. CASE AddToList(c)
    <3>1. /\ call'[c].pc = "index" /\ call'[c].todo = call[c].todo
          /\ call'[c].shared = call[c].shared /\ call'[c].ver = call[c].ver
          /\ \A e \in Calls \ {c} : call'[e] = call[e]
      BY <1>0, <2>6 DEF AddToList, Types, CallRecord
    <3> QED
      BY <2>6, <3>1, QuietStepKeepsAgreeing DEF AddToList
  <2>7. CASE Index(c)
    <3>1. call[c].pc = "index" /\ call[c].id \in Ids /\ call[c].todo = {call[c].id}
      BY <2>7 DEF Index, Shape, Held
    <3>2. call'[c].todo = {} /\ \A e \in Calls \ {c} : call'[e] = call[e]
      BY <1>0, <2>7, EndedCalls DEF Index
    <3> QED
      BY <2>7, <3>1, <3>2, OfferKeepsAgreeing DEF Index
  <2>8. ASSUME NEW i \in Ids, BackfillRow(c, i) PROVE Agreeing'
    <3>1. call[c].pc = "rows" /\ i \in call[c].todo /\ rows' = rows
      BY <2>8 DEF BackfillRow, Newest
    <3>2. /\ call'[c].todo = call[c].todo \ {i} /\ call'[c].pc = "rows"
          /\ call'[c].shared = call[c].shared /\ call'[c].ver = call[c].ver
          /\ \A e \in Calls \ {c} : call'[e] = call[e]
      BY <1>0, <2>8, <3>1 DEF BackfillRow, Types, CallRecord
    <3>3. CASE UNCHANGED <<index, doubt>>
      BY <3>1, <3>2, <3>3, QuietStepKeepsAgreeing
    <3>4. CASE Offer(c, i, call[c].ver[i]) \/ OfferFails(c, i, call[c].ver[i])
      BY <3>1, <3>2, <3>4, OfferKeepsAgreeing
    <3> QED
      BY <2>8, <3>3, <3>4 DEF BackfillRow
  <2>9. CASE BackfillDone(c)
    BY <1>0, <2>9, EndedCalls, QuietStepKeepsAgreeing DEF BackfillDone
  <2>10. CASE Fail(c)
    <3>1. PICK how \in {"failed", "cut"} : call' = Ended(c, how)
      BY <2>10 DEF Fail
    <3>2. call'[c].todo = {} /\ \A e \in Calls \ {c} : call'[e] = call[e]
      BY <1>0, <3>1, EndedCalls
    <3>3. doubt \subseteq doubt'
      BY <2>10 DEF Fail
    <3>4. call[c].pc \in {"zadd", "index"} => call[c].todo \subseteq doubt'
      BY <2>10 DEF Fail, Shape, Held
    <3> QED
      BY <2>10, <3>2, <3>3, <3>4, QuietStepKeepsAgreeing DEF Fail
  <2> QED
    BY <1>1, <2>1, <2>2, <2>3, <2>4, <2>5, <2>6, <2>7, <2>8, <2>9, <2>10 DEF Step
<1>2. ASSUME NEW a \in Agents, RegisterTransform(a) PROVE Agreeing'
  BY <1>2 DEF RegisterTransform, Agreeing, Shared, SharedInDoubt, HandIsCurrent, Agreement, Agrees
<1>3. CASE SetRetrievalProvider
  <2>1. doubt' = Ids /\ rows' = rows
    BY <1>3 DEF SetRetrievalProvider
  <2>2. \A e \in Calls : /\ call'[e].todo = call[e].todo
                         /\ call[e].todo # {} => call'[e].shared = Ids
    <3> SUFFICES ASSUME NEW e \in Calls
                 PROVE  /\ call'[e].todo = call[e].todo
                        /\ call[e].todo # {} => call'[e].shared = Ids
      OBVIOUS
    <3>1. call[e] \in CallRecord
      BY <1>0 DEF Types
    <3>2. CASE InFlight(call[e])
      <4>1. call'[e] = [call[e] EXCEPT !.shared = Ids, !.alone = FALSE]
        BY <1>3, <3>2 DEF SetRetrievalProvider
      <4> QED
        BY <3>1, <4>1 DEF CallRecord
    <3>3. CASE ~InFlight(call[e])
      BY <1>3, <3>3 DEF SetRetrievalProvider, Shape, Held
    <3> QED
      BY <3>2, <3>3
  <2>3. \A e \in Calls : call[e].todo \subseteq Ids
    BY <1>0 DEF Types, CallRecord
  <2> QED
    BY <2>1, <2>2, <2>3 DEF Agreeing, Shared, SharedInDoubt, HandIsCurrent, Agreement
<1>4. CASE UNCHANGED vars
  BY <1>4 DEF vars, Agreeing, Shared, SharedInDoubt, HandIsCurrent, Agreement, Agrees
<1> QED
  BY <1>1, <1>2, <1>3, <1>4 DEF Next
-----------------------------------------------------------------------------
(* Theorems. *)

LEMMA InitIsSound == Init => Shape /\ Agreeing /\ DocumentsHaveRows
<1> SUFFICES ASSUME Init PROVE Shape /\ Agreeing /\ DocumentsHaveRows
  OBVIOUS
<1>1. /\ \A c \in Calls : call[c].todo = {} /\ call[c].pc = "idle"
      /\ \A i \in Ids : rows[i] = Unset /\ index[i] = Unset
  BY DEF Init, Idle, NoRows
<1>2. Shape
  BY <1>1, IdleRecord DEF Init, Shape, Types, Held, InFlight
<1> QED
  BY <1>1, <1>2 DEF Agreeing, Shared, SharedInDoubt, HandIsCurrent, Agreement, DocumentsHaveRows

\* The index has no document of a row that does not exist, nor of a version that was
\* rejected: rows never go away and a document comes from a row in the call's hand.
LEMMA DocumentsStep == Shape /\ DocumentsHaveRows /\ [Next]_vars => DocumentsHaveRows'
<1> SUFFICES ASSUME Shape, DocumentsHaveRows, [Next]_vars PROVE DocumentsHaveRows'
  OBVIOUS
<1>1. \A i \in Ids : rows[i] # Unset => rows'[i] # Unset
  <2>1. ASSUME NEW c \in Calls, Put(c)
        PROVE  \A i \in Ids : rows[i] # Unset => rows'[i] # Unset
    <3>1. call[c].ver[call[c].id] \in Row
      BY <2>1 DEF Put, Shape, Held
    <3> QED
      BY <2>1, <3>1, RecommendationsAssumption DEF Put, Shape, Types
  <2>2. ASSUME NEW c \in Calls, ~Put(c), Step(c) PROVE rows' = rows
    BY <2>2 DEF Step, Save, UpdateStatus, Backfill, WithStatus, AddToList, Index,
                BackfillRow, BackfillDone, Fail
  <2> QED
    BY <2>1, <2>2 DEF Next, RegisterTransform, SetRetrievalProvider, vars
<1>2. \A i \in Ids : index'[i] # index[i] /\ index'[i] # Unset =>
        rows[i] # Unset /\ index'[i].status \notin RemoveStatuses
  <2>1. ASSUME NEW c \in Calls, Step(c)
        PROVE  \/ index' = index
               \/ \E i \in call[c].todo :
                    /\ call[c].pc \in {"index", "rows"}
                    /\ \/ Offer(c, i, call[c].ver[i])
                       \/ OfferFails(c, i, call[c].ver[i])
    <3>1. CASE Index(c)
      BY <3>1 DEF Index, Shape, Held
    <3>2. ASSUME NEW i \in Ids, BackfillRow(c, i)
          PROVE  \/ index' = index
                 \/ /\ i \in call[c].todo /\ call[c].pc = "rows"
                    /\ Offer(c, i, call[c].ver[i]) \/ OfferFails(c, i, call[c].ver[i])
      BY <3>2 DEF BackfillRow, Newest
    <3> QED
      BY <2>1, <3>1, <3>2 DEF Step, Save, UpdateStatus, Backfill, WithStatus, Put,
                              AddToList, BackfillDone, Fail
  <2>2. ASSUME NEW c \in Calls, NEW i \in call[c].todo, call[c].pc \in {"index", "rows"},
               Offer(c, i, call[c].ver[i]) \/ OfferFails(c, i, call[c].ver[i]),
               NEW j \in Ids, index'[j] # index[j], index'[j] # Unset
        PROVE  rows[j] # Unset /\ index'[j].status \notin RemoveStatuses
    <3>1. i \in Ids /\ call[c].ver[i] \in Row /\ rows[i] # Unset
      BY <2>2 DEF Shape, Types, CallRecord, Held
    <3>2. j = i /\ index'[i] = Indexed(call[c].ver[i])
      BY <2>2, <3>1, OfferTypes DEF Shape
    <3> QED
      BY <2>2, <3>1, <3>2 DEF Indexed
  <2>3. SetRetrievalProvider => \A i \in Ids : index'[i] = Unset
    BY DEF SetRetrievalProvider, NoRows
  <2> QED
    BY <2>1, <2>2, <2>3 DEF Next, RegisterTransform, vars
<1> QED
  BY <1>1, <1>2 DEF DocumentsHaveRows

LEMMA Invariance == Spec => [](Shape /\ Agreeing /\ DocumentsHaveRows)
<1>1. Shape /\ Agreeing /\ DocumentsHaveRows /\ [Next]_vars
        => (Shape /\ Agreeing /\ DocumentsHaveRows)'
  BY ShapeStep, AgreeingStep, DocumentsStep
<1> QED
  BY <1>1, InitIsSound, PTL DEF Spec

\* Every call holds well-formed rows, at every step, for any statuses and agents.
THEOREM TypeCorrect == Spec => []TypeOK
<1>1. Shape => TypeOK
  BY DEF Shape, Types, TypeOK, CallRecord, Held, Steps
<1> QED
  BY <1>1, Invariance, PTL

\* The index agrees with the store wherever no failure, skipped write or overlap of two
\* calls leaves it open and no call is on its way, for any number of calls.
THEOREM IndexAgreesCorrect == Spec => []IndexAgrees
<1>1. Shape /\ Agreeing => IndexAgrees
  BY DEF Agreeing, Agreement, Agrees, IndexAgrees
<1> QED
  BY <1>1, Invariance, PTL

\* No document without a stored row, and none of a rejected version.
THEOREM DocumentsHaveRowsCorrect == Spec => []DocumentsHaveRows
BY Invariance, PTL
-----------------------------------------------------------------------------
(* What single calls leave behind: the list, the body a status update writes back and *)
(* the report of a backfill.  Three more invariants, on top of Shape and Agreeing:     *)
(* Unlisted is the second half of ListMatchesStore, without the history of how a row   *)
(* got there; StatusHand says what a status update has in hand between its read and its *)
(* write; Reporting says how far a backfill that nothing has disturbed has come.        *)

Unlisted ==
  \A i \in Ids : rows[i] # Unset /\ i \notin listed =>
    \E c \in Calls : call[c].id = i /\ call[c].pc \in {"zadd", "cut"}

StatusHand ==
  \A c \in Calls : call[c].op = "status" /\ call[c].pc \in {"check", "put"} =>
    LET i == call[c].id IN
    /\ rows[i] # Unset
    /\ i \notin call[c].shared =>
         call[c].ver[i] = IF call[c].pc = "check" THEN rows[i]
                          ELSE [rows[i] EXCEPT !.status = call[c].word]

Reporting ==
  \A c \in Calls : call[c].pc = "rows" /\ call[c].alone =>
    /\ \A e \in Calls \ {c} : ~InFlight(call[e])
    /\ \A i \in call[c].todo : call[c].ver[i] = rows[i]
    /\ call[c].agent = Unset /\ call[c].skipped = 0 =>
         \A i \in List(Unset) \ call[c].todo : index[i] = rows[i]
-----------------------------------------------------------------------------
(* What a step leaves of the calls that do not take it. *)

Kept(e) ==
  /\ call'[e].op = call[e].op /\ call'[e].pc = call[e].pc
  /\ call'[e].id = call[e].id /\ call'[e].word = call[e].word
  /\ call'[e].agent = call[e].agent /\ call'[e].todo = call[e].todo
  /\ call'[e].ver = call[e].ver /\ call'[e].skipped = call[e].skipped
  /\ call[e].shared \subseteq call'[e].shared
  /\ call'[e].alone => call[e].alone

LEMMA SharesMore ==
  ASSUME Types, NEW e \in Calls, NEW s, call[e].shared \subseteq s,
         call'[e] = [call[e] EXCEPT !.shared = s, !.alone = FALSE]
  PROVE  Kept(e) /\ ~call'[e].alone
BY DEF Types, CallRecord, Kept

\* A call that starts disturbs those in flight, and no other.
LEMMA StartedOthers ==
  ASSUME Types, NEW c \in Calls, NEW d, Started(c, d), NEW e \in Calls \ {c}
  PROVE  /\ Kept(e)
         /\ InFlight(call[e]) => ~call'[e].alone
<1>1. CASE InFlight(call[e])
  <2>1. call'[e] = [call[e] EXCEPT !.shared = call[e].shared \cup (call[e].todo \cap d.todo),
                                  !.alone = FALSE]
    BY <1>1 DEF Started
  <2> QED BY ZenonT(40), <2>1, SharesMore
<1>2. CASE ~InFlight(call[e])
  <2>1. call'[e] = call[e]
    BY <1>2 DEF Started
  <2> QED BY <1>2, <2>1 DEF Kept
<1> QED BY <1>1, <1>2

LEMMA OthersKept ==
  ASSUME Types, NEW c \in Calls, Step(c), NEW e \in Calls \ {c}
  PROVE  Kept(e)
<1>1. ASSUME NEW d, Started(c, d) PROVE Kept(e)
  BY <1>1, StartedOthers
<1>2. ASSUME call'[e] = call[e] PROVE Kept(e)
  BY <1>2 DEF Kept
<1>3. ASSUME NEW how, call' = Ended(c, how) PROVE Kept(e)
  BY <1>2, <1>3, EndedCalls
<1>4. CASE \E i \in Ids, s \in SaveStatuses, k \in Cards \cup {Unset} : Save(c, i, s, k)
  BY <1>1, <1>4 DEF Save
<1>5. CASE \E i \in Ids, w \in Words : UpdateStatus(c, i, w)
  BY <1>1, <1>3, <1>5 DEF UpdateStatus
<1>6. CASE \E a \in Agents \cup {Unset} : Backfill(c, a)
  BY <1>1, <1>6 DEF Backfill
<1>7. CASE WithStatus(c)
  <2>1. CASE call[c].word \in RecommendationStatuses
    <3>1. call'[e] = call[e]
      BY <1>7, <2>1 DEF WithStatus, Types
    <3> QED BY <1>2, <3>1
  <2>2. CASE call[c].word \notin RecommendationStatuses
    BY <1>3, <1>7, <2>2 DEF WithStatus
  <2> QED BY <2>1, <2>2
<1>8. CASE Put(c) \/ AddToList(c)
  <2>1. call'[e] = call[e]
    BY <1>8 DEF Put, AddToList, Types
  <2> QED BY <1>2, <2>1
<1>9. CASE Index(c) \/ BackfillDone(c) \/ Fail(c)
  BY <1>3, <1>9 DEF Index, BackfillDone, Fail
<1>10. CASE \E i \in Ids : BackfillRow(c, i)
  <2>1. call'[e] = call[e]
    BY <1>10 DEF BackfillRow, Types
  <2> QED BY <1>2, <2>1
<1> QED BY <1>4, <1>5, <1>6, <1>7, <1>8, <1>9, <1>10 DEF Step

\* A new provider disturbs every call in flight.
LEMMA ProviderKeepsCalls ==
  ASSUME Types, SetRetrievalProvider, NEW e \in Calls
  PROVE  /\ Kept(e)
         /\ InFlight(call[e]) => ~call'[e].alone
<1>1. CASE InFlight(call[e])
  <2>1. call'[e] = [call[e] EXCEPT !.shared = Ids, !.alone = FALSE]
    BY <1>1 DEF SetRetrievalProvider
  <2>2. call[e].shared \subseteq Ids
    BY DEF Types, CallRecord
  <2> QED BY <2>1, <2>2, SharesMore
<1>2. CASE ~InFlight(call[e])
  <2>1. call'[e] = call[e]
    BY <1>2 DEF SetRetrievalProvider
  <2> QED BY <1>2, <2>1 DEF Kept
<1> QED BY <1>1, <1>2

LEMMA OnlyPutWrites ==
  ASSUME NEW c \in Calls, Step(c), ~Put(c)
  PROVE  rows' = rows
BY DEF Step, Save, UpdateStatus, Backfill, WithStatus, AddToList, Index,
       BackfillRow, BackfillDone, Fail

\* What the store's write does.
LEMMA PutWrites ==
  ASSUME Shape, NEW c \in Calls, Put(c)
  PROVE  /\ call[c].id \in Ids /\ call[c].todo = {call[c].id}
         /\ rows'[call[c].id] = call[c].ver[call[c].id]
         /\ \A i \in Ids \ {call[c].id} : rows'[i] = rows[i]
         /\ \A i \in Ids : rows[i] # Unset => rows'[i] # Unset
         /\ call'[c].id = call[c].id /\ call'[c].pc \in {"zadd", "index"}
         /\ call'[c].pc = "index" => call[c].id \in listed'
<1>1. /\ call[c].id \in Ids /\ call[c].todo = {call[c].id} /\ call[c].pc = "put"
      /\ call[c].ver[call[c].id] \in Row /\ call[c] \in CallRecord
  BY DEF Put, Shape, Types, Held
<1>2. /\ rows'[call[c].id] = call[c].ver[call[c].id]
      /\ \A i \in Ids \ {call[c].id} : rows'[i] = rows[i]
  BY <1>1 DEF Put, Shape, Types
<1>3. call[c].ver[call[c].id] # Unset
  BY <1>1, RecommendationsAssumption
<1>4. /\ call'[c].id = call[c].id
      /\ call'[c].pc = IF TwoWrites THEN "zadd" ELSE "index"
      /\ listed' = IF TwoWrites THEN listed ELSE listed \cup {call[c].id}
  BY <1>1 DEF Put, Shape, Types, CallRecord
<1>5. \A i \in Ids : rows[i] # Unset => rows'[i] # Unset
  BY <1>2, <1>3
<1>6. call'[c].pc \in {"zadd", "index"} /\ (call'[c].pc = "index" => call[c].id \in listed')
  BY <1>4
<1> QED BY <1>1, <1>2, <1>4, <1>5, <1>6
-----------------------------------------------------------------------------
(* The list. *)

LEMMA UnlistedStep == Shape /\ Unlisted /\ [Next]_vars => Unlisted'
<1> SUFFICES ASSUME Shape, Unlisted, [Next]_vars PROVE Unlisted'
  OBVIOUS
<1>1. Types
  BY DEF Shape
<1>2. ASSUME UNCHANGED <<rows, listed>>, \A e \in Calls : Kept(e)
      PROVE  Unlisted'
  BY <1>2 DEF Unlisted, Kept
<1>3. ASSUME NEW c \in Calls, Put(c) PROVE Unlisted'
  <2> SUFFICES ASSUME NEW i \in Ids, rows'[i] # Unset, i \notin listed'
               PROVE  \E e \in Calls : call'[e].id = i /\ call'[e].pc \in {"zadd", "cut"}
    BY DEF Unlisted
  <2>1. CASE i = call[c].id
    BY <1>3, <2>1, PutWrites
  <2>2. CASE i # call[c].id
    <3>1. rows[i] # Unset
      BY <1>3, <2>2, PutWrites
    <3>2. i \notin listed
      BY <1>3 DEF Put
    <3>3. PICK e \in Calls : call[e].id = i /\ call[e].pc \in {"zadd", "cut"}
      BY <3>1, <3>2 DEF Unlisted
    <3>4. e # c
      BY <2>2, <3>3
    <3>5. Kept(e)
      BY <1>1, <1>3, <3>4, OthersKept DEF Step
    <3> QED BY <3>3, <3>5 DEF Kept
  <2> QED BY <2>1, <2>2
<1>4. ASSUME NEW c \in Calls, Step(c), ~Put(c) PROVE Unlisted'
  <2> SUFFICES ASSUME NEW i \in Ids, rows'[i] # Unset, i \notin listed'
               PROVE  \E e \in Calls : call'[e].id = i /\ call'[e].pc \in {"zadd", "cut"}
    BY DEF Unlisted
  <2>1. listed \subseteq listed'
    BY <1>4 DEF Step, Save, UpdateStatus, Backfill, WithStatus, AddToList, Index,
                BackfillRow, BackfillDone, Fail
  <2>2. PICK e \in Calls : call[e].id = i /\ call[e].pc \in {"zadd", "cut"}
    BY <1>4, <2>1, OnlyPutWrites DEF Unlisted
  <2>3. CASE e # c
    BY <1>1, <1>4, <2>2, <2>3, OthersKept DEF Kept
  <2>4. CASE e = c
    <3>1. call[c].pc = "cut" => call[c].todo = {}
      BY DEF Shape, Held, InFlight
    <3>2. AddToList(c) \/ (Fail(c) /\ call[c].pc = "zadd")
      BY <1>4, <2>2, <2>4, <3>1 DEF Step, Save, UpdateStatus, Backfill, WithStatus, Index,
                                    BackfillRow, BackfillDone, Fail, Put
    <3>3. CASE AddToList(c)
      BY <2>2, <2>4, <3>3 DEF AddToList
    <3>4. CASE Fail(c) /\ call[c].pc = "zadd"
      <4>1. call'[c].id = call[c].id /\ call'[c].pc = "cut"
        BY <1>1, <3>4 DEF Fail, Ended, Types, Idle
      <4> QED BY <2>2, <2>4, <4>1
    <3> QED BY <3>2, <3>3, <3>4
  <2> QED BY <2>3, <2>4
<1>5. ASSUME UNCHANGED <<rows, listed, call>> PROVE Unlisted'
  BY <1>5 DEF Unlisted
<1>6. CASE SetRetrievalProvider
  BY <1>1, <1>2, <1>6, ProviderKeepsCalls DEF SetRetrievalProvider
<1> QED
  BY <1>3, <1>4, <1>5, <1>6 DEF Next, RegisterTransform, vars

LEMMA ListInvariance == Spec => [](Shape /\ Unlisted)
<1>1. Init => Unlisted
  BY DEF Init, Unlisted, NoRows
<1>2. Shape /\ Unlisted /\ [Next]_vars => (Shape /\ Unlisted)'
  BY ShapeStep, UnlistedStep
<1> QED BY <1>1, <1>2, InitIsSound, PTL DEF Spec

\* An unfiltered list finds stored rows only, and misses a stored row only while the
\* two writes of its save are under way or were cut in between, for any number of
\* calls on the row and whatever fails (RedisRecommendationStore.save).
THEOREM ListMatchesStoreCorrect == Spec => []ListMatchesStore
<1>1. Shape /\ Unlisted => ListMatchesStore
  BY DEF Shape, Unlisted, ListMatchesStore
<1> QED BY <1>1, ListInvariance, PTL
-----------------------------------------------------------------------------
(* The body a status update writes back. *)

\* What a status update has in hand after a step of its own.
LEMMA OwnStatusHand ==
  ASSUME Shape, StatusHand, NEW c \in Calls, Step(c),
         call'[c].op = "status", call'[c].pc \in {"check", "put"}
  PROVE  LET i == call[c].id' IN
         /\ rows'[i] # Unset
         /\ i \notin call'[c].shared =>
              call'[c].ver[i] = IF call'[c].pc = "check" THEN rows'[i]
                                ELSE [rows'[i] EXCEPT !.status = call'[c].word]
<1>1. Types
  BY DEF Shape
<1>2. ASSUME NEW how, call' = Ended(c, how) PROVE FALSE
  BY <1>1, <1>2 DEF Ended, Types, Idle
<1>3. CASE \E i \in Ids, w \in Words : UpdateStatus(c, i, w)
  <2>1. PICK i \in Ids, w \in Words : UpdateStatus(c, i, w)
    BY <1>3
  <2>2. rows[i] # Unset
    BY <1>2, <2>1 DEF UpdateStatus
  <2> DEFINE v == [NoRows EXCEPT ![i] = rows[i]]
             d == [Idle EXCEPT !.op = "status", !.id = i, !.word = w, !.todo = {i},
                               !.ver = v, !.pc = "check"]
  <2>3. Started(c, d) /\ rows' = rows
    BY <2>1, <2>2 DEF UpdateStatus, Idle
  <2>4. v \in [Ids -> Row \cup {Unset}] /\ v[i] = rows[i]
    BY <1>1, IdleRecord DEF Types
  <2>5. d \in CallRecord /\ d.pc = "check" /\ d.id = i /\ d.ver = v
    <3> HIDE DEF v
    <3> QED BY <2>4, IdleRecord DEF CallRecord, Ops, Steps, Idle
  <2>6. call'[c].id = i /\ call'[c].ver = v /\ call'[c].pc = "check"
    BY <1>1, <2>3, <2>5, StartedCalls
  <2> QED BY <2>2, <2>3, <2>4, <2>6
<1>4. CASE WithStatus(c)
  <2>1. call[c].word \in RecommendationStatuses
    BY <1>2, <1>4 DEF WithStatus
  <2>2. call[c] \in CallRecord /\ call[c].id \in Ids /\ call[c].pc = "check"
    BY <1>4 DEF WithStatus, Shape, Types, Held
  <2>3. /\ call'[c].op = call[c].op /\ call'[c].id = call[c].id
        /\ call'[c].shared = call[c].shared /\ call'[c].word = call[c].word
        /\ call'[c].pc = "put" /\ rows' = rows
        /\ call'[c].ver[call[c].id] =
             [call[c].ver[call[c].id] EXCEPT !.status = call[c].word]
    BY <1>4, <2>1, <2>2 DEF WithStatus, Shape, Types, CallRecord
  <2> QED BY <2>2, <2>3 DEF StatusHand
<1>5. CASE \E i \in Ids, s \in SaveStatuses, k \in Cards \cup {Unset} : Save(c, i, s, k)
  <2>1. PICK i \in Ids, s \in SaveStatuses, k \in Cards \cup {Unset} : Save(c, i, s, k)
    BY <1>5
  <2> DEFINE r == [agent |-> Owner[i], status |-> s, card |-> k]
             v == [NoRows EXCEPT ![i] = r]
             d == [Idle EXCEPT !.op = "save", !.id = i, !.todo = {i}, !.pc = "put", !.ver = v]
  <2>2. v \in [Ids -> Row \cup {Unset}]
    BY IdleRecord, RecommendationsAssumption DEF Row
  <2>3. Started(c, d)
    BY <2>1 DEF Save, Idle
  <2>4. d \in CallRecord /\ d.op = "save"
    <3> HIDE DEF v
    <3> QED BY <2>2, IdleRecord DEF CallRecord, Ops, Steps, Idle
  <2> HIDE DEF d
  <2>5. call'[c].op = "save"
    BY <1>1, <2>3, <2>4 DEF Started, Types, CallRecord
  <2> QED BY <2>5
<1>6. CASE \E a \in Agents \cup {Unset} : Backfill(c, a)
  <2>1. call'[c].op = "backfill"
    BY ZenonT(40), <1>1, <1>6 DEF Backfill, Started, Idle, Types
  <2> QED BY <2>1
<1>7. CASE Put(c) \/ AddToList(c)
  <2>1. call'[c].pc \in {"zadd", "index"}
    BY <1>7, PutWrites DEF AddToList, Shape, Types, CallRecord
  <2> QED BY <2>1
<1>8. CASE Index(c) \/ BackfillDone(c) \/ Fail(c)
  BY <1>2, <1>8 DEF Index, BackfillDone, Fail
<1>9. CASE \E i \in Ids : BackfillRow(c, i)
  <2>1. call'[c].pc = "rows"
    BY <1>9 DEF BackfillRow, Shape, Types, CallRecord
  <2> QED BY <2>1
<1> QED BY <1>3, <1>4, <1>5, <1>6, <1>7, <1>8, <1>9 DEF Step

LEMMA StatusHandStep == Shape /\ Agreeing /\ StatusHand /\ [Next]_vars => StatusHand'
<1> SUFFICES ASSUME Shape, Agreeing, StatusHand, [Next]_vars PROVE StatusHand'
  OBVIOUS
<1>1. Types
  BY DEF Shape
<1>2. ASSUME NEW c \in Calls, Step(c) PROVE StatusHand'
  <2> SUFFICES ASSUME NEW e \in Calls, call'[e].op = "status", call'[e].pc \in {"check", "put"}
               PROVE  LET i == call'[e].id IN
                      /\ rows'[i] # Unset
                      /\ i \notin call'[e].shared =>
                           call'[e].ver[i] =
                             IF call'[e].pc = "check" THEN rows'[i]
                             ELSE [rows'[i] EXCEPT !.status = call'[e].word]
    BY DEF StatusHand
  <2>1. CASE e = c
    BY <1>2, <2>1, OwnStatusHand
  <2>2. CASE e # c
    <3>1. Kept(e)
      BY <1>1, <1>2, <2>2, OthersKept
    <3>2. CASE ~Put(c)
      BY <1>2, <3>1, <3>2, OnlyPutWrites DEF StatusHand, Kept
    <3>3. CASE Put(c)
      <4>1. call[e].id \in Ids /\ call[e].todo = {call[e].id}
        BY <3>1 DEF Kept, Shape, Held
      <4>2. call[e].id = call[c].id => call[e].id \in call[e].shared
        BY <2>2, <3>3, <4>1, PutWrites DEF Agreeing, Shared
      <4>3. rows'[call[e].id] # Unset
        BY ZenonT(40), <3>1, <3>3, <4>1, PutWrites DEF StatusHand, Kept
      <4>4. call[e].id # call[c].id => rows'[call[e].id] = rows[call[e].id]
        BY <3>3, <4>1, PutWrites
      <4> QED BY <3>1, <4>2, <4>3, <4>4 DEF StatusHand, Kept
    <3> QED BY <3>2, <3>3
  <2> QED BY <2>1, <2>2
<1>3. CASE SetRetrievalProvider
  <2>1. rows' = rows /\ \A e \in Calls : Kept(e)
    BY <1>1, <1>3, ProviderKeepsCalls DEF SetRetrievalProvider
  <2> QED BY <2>1 DEF StatusHand, Kept
<1>4. CASE UNCHANGED <<rows, call>>
  BY <1>4 DEF StatusHand
<1> QED BY <1>2, <1>3, <1>4 DEF Next, RegisterTransform, vars

\* Only the store's write takes a call from put to what follows.
LEMMA PutByWrite ==
  ASSUME Shape, [Next]_vars, NEW c \in Calls, call[c].pc = "put",
         call'[c].pc \in {"zadd", "index"}
  PROVE  Put(c)
<1>1. Types
  BY DEF Shape
<1>2. ASSUME NEW e \in Calls, Step(e) PROVE Put(c)
  <2>1. CASE e # c
    BY <1>1, <1>2, <2>1, OthersKept DEF Kept
  <2>2. CASE e = c
    <3>1. Put(c) \/ Fail(c)
      BY <1>2, <2>2 DEF Step, Save, UpdateStatus, Backfill, WithStatus, AddToList, Index,
                        BackfillRow, BackfillDone
    <3>2. ~Fail(c)
      BY <1>1 DEF Fail, Ended, Types, Idle
    <3> QED BY <3>1, <3>2
  <2> QED BY <2>1, <2>2
<1>3. CASE SetRetrievalProvider
  BY <1>1, <1>3, ProviderKeepsCalls DEF Kept
<1> QED BY <1>2, <1>3 DEF Next, RegisterTransform, vars

\* A status update that shares its row with no other call changes the status and keeps
\* the body that is stored when it writes, for any number of other calls.  Code:
\* RecommendationStatusMixin.update_status writes back a record it has read earlier.
THEOREM StatusKeepsBodyCorrect == Spec => StatusKeepsBody
<1>1. Init => StatusHand
  BY DEF Init, StatusHand, Idle
<1>2. Shape /\ StatusHand /\ [Next]_vars =>
        [\A c \in Calls :
           call[c].op = "status" /\ call[c].pc = "put" /\ call'[c].pc \in {"zadd", "index"}
             /\ call[c].id \notin call[c].shared =>
           /\ rows[call[c].id] # Unset
           /\ rows'[call[c].id] = [rows[call[c].id] EXCEPT !.status = call[c].word]]_vars
  BY PutByWrite, PutWrites DEF StatusHand
<1>3. Shape /\ Agreeing /\ StatusHand /\ [Next]_vars => (Shape /\ Agreeing /\ StatusHand)'
  BY ShapeStep, AgreeingStep, StatusHandStep
<1> QED BY <1>1, <1>2, <1>3, InitIsSound, PTL DEF Spec, StatusKeepsBody
-----------------------------------------------------------------------------
(* The report of a backfill. *)

\* How far a backfill has come that runs alone.
Reports(c) ==
  call[c].pc = "rows" /\ call[c].alone =>
    /\ \A e \in Calls \ {c} : ~InFlight(call[e])
    /\ \A i \in call[c].todo : call[c].ver[i] = rows[i]
    /\ call[c].agent = Unset /\ call[c].skipped = 0 =>
         \A i \in List(Unset) \ call[c].todo : index[i] = rows[i]

\* One that starts alone has everything before it.
LEMMA BackfillReports ==
  ASSUME Shape, NEW c \in Calls, NEW a \in Agents \cup {Unset}, Backfill(c, a)
  PROVE  Reports(c)'
<1> DEFINE v == [i \in Ids |-> IF i \in List(a) THEN rows[i] ELSE Unset]
           d == [Idle EXCEPT !.op = "backfill", !.agent = a, !.pc = "rows",
                             !.todo = List(a), !.ver = v]
<1>1. Types /\ List(a) \subseteq Ids
  BY DEF Shape, List
<1>2. v \in [Ids -> Row \cup {Unset}] /\ \A i \in List(a) : v[i] = rows[i]
  BY <1>1 DEF Types
<1>3. Started(c, d) /\ UNCHANGED <<rows, listed, index>>
  BY DEF Backfill
<1>4. d \in CallRecord /\ d.pc = "rows" /\ d.todo = List(a) /\ d.ver = v /\ d.agent = a
  <2> HIDE DEF v
  <2> QED BY <1>1, <1>2, IdleRecord DEF CallRecord, Ops, Steps, Idle
<1> HIDE DEF d, v
<1>5. /\ call'[c].alone = (Others(c) = {}) /\ call'[c].agent = a
      /\ call'[c].todo = List(a) /\ call'[c].ver = v
  <2>1. call'[c] = [d EXCEPT !.shared = d.todo \cap Theirs(c), !.alone = (Others(c) = {})]
    BY <1>1, <1>3 DEF Started, Others, Theirs, Types
  <2>2. ASSUME NEW s, NEW b
        PROVE  LET q == [d EXCEPT !.shared = s, !.alone = b] IN
               q.alone = b /\ q.agent = d.agent /\ q.todo = d.todo /\ q.ver = d.ver
    BY <1>4 DEF CallRecord
  <2> QED BY <1>4, <2>1, <2>2
<1>6. call'[c].alone => \A e \in Calls \ {c} : ~InFlight(call'[e])
  <2>1. call'[c].alone => \A e \in Calls \ {c} : ~InFlight(call[e])
    BY <1>5 DEF Others
  <2>2. \A e \in Calls \ {c} : call'[e].pc = call[e].pc
    BY <1>1, <1>3, StartedOthers DEF Kept
  <2> QED BY <2>1, <2>2 DEF InFlight
<1>7. (List(Unset) = List(Unset)') /\ (a = Unset => call'[c].todo = List(Unset))
  BY <1>3, <1>5 DEF List
<1> QED BY <1>2, <1>3, <1>5, <1>6, <1>7 DEF Reports

\* One row further.
LEMMA BackfillRowReports ==
  ASSUME Shape, Reporting, NEW c \in Calls, NEW i \in Ids, BackfillRow(c, i)
  PROVE  Reports(c)'
<1> SUFFICES ASSUME call'[c].pc = "rows", call'[c].alone
             PROVE  Reports(c)'
  BY DEF Reports
<1> DEFINE r == call[c].ver[i]
<1>1. /\ call[c] \in CallRecord /\ call[c].pc = "rows" /\ i \in call[c].todo
      /\ r \in Row /\ UNCHANGED <<rows, listed>>
  BY DEF BackfillRow, Newest, Shape, Types, Held
<1>2. PICK n \in {0, 1} :
        /\ call' = [call EXCEPT ![c].todo = @ \ {i}, ![c].skipped = @ + n]
        /\ n = 0 => r.status \in IndexStatuses /\ Attempted(r) /\ Offer(c, i, r)
        /\ \A j \in Ids \ {i} : index'[j] = index[j]
  <2>1. CASE r.status \notin IndexStatuses
    BY SMTT(30), <2>1 DEF BackfillRow
  <2>2. CASE r.status \in IndexStatuses /\ (Offer(c, i, r) \/ OfferFails(c, i, r))
    <3>1. \A j \in Ids \ {i} : index'[j] = index[j]
      BY <1>1, <2>2, OfferTypes DEF Shape
    <3> QED BY SMTT(30), <2>2, <3>1 DEF BackfillRow, Offer, OfferFails
  <2> QED BY <2>1, <2>2 DEF BackfillRow
<1>3. /\ call'[c].todo = call[c].todo \ {i} /\ call'[c].skipped = call[c].skipped + n
      /\ call'[c].alone = call[c].alone /\ call'[c].ver = call[c].ver
      /\ call'[c].agent = call[c].agent
      /\ \A e \in Calls \ {c} : call'[e] = call[e]
  BY <1>1, <1>2 DEF Shape, Types, CallRecord
<1>4. Reports(c)
  BY DEF Reporting, Reports
<1>5. \A e \in Calls \ {c} : ~InFlight(call'[e])
  BY <1>1, <1>3, <1>4 DEF Reports
<1>6. \A j \in call'[c].todo : call'[c].ver[j] = rows'[j]
  BY <1>1, <1>3, <1>4 DEF Reports
<1>7. ASSUME call'[c].agent = Unset, call'[c].skipped = 0,
             NEW j \in List(Unset)' \ call'[c].todo
      PROVE  index'[j] = rows'[j]
  <2>1. n = 0 /\ call[c].skipped = 0
    BY <1>1, <1>3, <1>7 DEF CallRecord
  <2>2. j \in List(Unset) /\ j \in Ids
    BY <1>1, <1>7 DEF List
  <2>3. CASE j = i
    <3>1. r = rows[i]
      BY <1>1, <1>3, <1>4 DEF Reports
    <3>2. index' = [index EXCEPT ![i] = Indexed(r)]
      BY <1>2, <2>1 DEF Offer
    <3>3. Indexed(r) = r
      BY <1>2, <2>1 DEF Indexed, IndexStatuses, RemoveStatuses
    <3> QED BY <1>1, <2>3, <3>1, <3>2, <3>3 DEF Shape, Types
  <2>4. CASE j # i
    BY <1>1, <1>2, <1>3, <1>4, <1>7, <2>1, <2>2, <2>4 DEF Reports
  <2> QED BY <2>3, <2>4
<1> QED BY <1>5, <1>6, <1>7 DEF Reports

\* Only these two steps of a call leave it in a backfill.
LEMMA OwnReports ==
  ASSUME Shape, Reporting, NEW c \in Calls, Step(c)
  PROVE  Reports(c)'
<1> SUFFICES ASSUME call'[c].pc = "rows"
             PROVE  Reports(c)'
  BY DEF Reports
<1>1. Types
  BY DEF Shape
<1>2. ASSUME NEW how, how # "rows", call' = Ended(c, how) PROVE FALSE
  BY <1>1, <1>2 DEF Ended, Types, Idle
<1>3. ASSUME NEW d, Started(c, d), d.pc # "rows", d \in CallRecord PROVE FALSE
  BY <1>1, <1>3, StartedCalls
<1>4. ASSUME NEW i \in Ids, NEW s \in SaveStatuses, NEW k \in Cards \cup {Unset},
             Save(c, i, s, k)
      PROVE  FALSE
  <2> DEFINE r == [agent |-> Owner[i], status |-> s, card |-> k]
             v == [NoRows EXCEPT ![i] = r]
             d == [Idle EXCEPT !.op = "save", !.id = i, !.todo = {i}, !.pc = "put", !.ver = v]
  <2>1. v \in [Ids -> Row \cup {Unset}]
    BY IdleRecord, RecommendationsAssumption DEF Row
  <2>2. Started(c, d)
    BY <1>4 DEF Save, Idle
  <2>3. d \in CallRecord /\ d.pc # "rows"
    <3> HIDE DEF v
    <3> QED BY <2>1, IdleRecord DEF CallRecord, Ops, Steps, Idle
  <2> HIDE DEF d
  <2> QED BY <1>3, <2>2, <2>3
<1>5. ASSUME NEW i \in Ids, NEW w \in Words, UpdateStatus(c, i, w)
      PROVE  FALSE
  <2>1. CASE rows[i] = Unset
    BY <1>2, <1>5, <2>1 DEF UpdateStatus
  <2>2. CASE rows[i] # Unset
    <3> DEFINE v == [NoRows EXCEPT ![i] = rows[i]]
               d == [Idle EXCEPT !.op = "status", !.id = i, !.word = w, !.todo = {i},
                                 !.ver = v, !.pc = "check"]
    <3>1. v \in [Ids -> Row \cup {Unset}]
      BY <1>1, IdleRecord DEF Types
    <3>2. Started(c, d)
      BY <1>5, <2>2 DEF UpdateStatus, Idle
    <3>3. d \in CallRecord /\ d.pc # "rows"
      <4> HIDE DEF v
      <4> QED BY <3>1, IdleRecord DEF CallRecord, Ops, Steps, Idle
    <3> HIDE DEF d
    <3> QED BY <1>3, <3>2, <3>3
  <2> QED BY <2>1, <2>2
<1>6. CASE WithStatus(c)
  <2>1. CASE call[c].word \in RecommendationStatuses
    BY <1>1, <1>6, <2>1 DEF WithStatus, Types, CallRecord
  <2>2. CASE call[c].word \notin RecommendationStatuses
    BY <1>2, <1>6, <2>2 DEF WithStatus
  <2> QED BY <2>1, <2>2
<1>7. CASE Put(c)
  BY <1>7, PutWrites
<1>8. CASE AddToList(c)
  BY <1>1, <1>8 DEF AddToList, Types, CallRecord
<1>9. CASE Index(c) \/ BackfillDone(c) \/ Fail(c)
  <2>1. PICK how \in {"done", "failed", "cut"} : call' = Ended(c, how)
    BY <1>9 DEF Index, BackfillDone, Fail
  <2> QED BY <1>2, <2>1
<1> QED
  BY <1>4, <1>5, <1>6, <1>7, <1>8, <1>9, BackfillReports, BackfillRowReports DEF Step

LEMMA ReportingStep == Shape /\ Reporting /\ [Next]_vars => Reporting'
<1> SUFFICES ASSUME Shape, Reporting, [Next]_vars PROVE Reporting'
  OBVIOUS
<1>1. Types
  BY DEF Shape
<1>2. ASSUME NEW c \in Calls, Step(c) PROVE Reporting'
  <2> SUFFICES ASSUME NEW e \in Calls PROVE Reports(e)'
    BY DEF Reporting, Reports
  <2>1. CASE e = c
    BY <1>2, <2>1, OwnReports
  <2>2. CASE e # c
    <3> SUFFICES ASSUME call'[e].pc = "rows", call'[e].alone PROVE Reports(e)'
      BY DEF Reports
    <3>1. Kept(e)
      BY <1>1, <1>2, <2>2, OthersKept
    <3>2. ~InFlight(call[c]) /\ InFlight(call[e])
      BY <2>2, <3>1 DEF Reporting, Kept, InFlight
    <3>3. call[c].todo = {}
      BY <3>2 DEF Shape, Held
    <3>4. \A d : ~Started(c, d)
      BY <1>1, <2>2, <3>2, StartedOthers
    <3>5. UNCHANGED <<rows, listed, index>> /\ call' = Ended(c, "done")
      BY <1>2, <3>2, <3>3, <3>4
      DEF Step, Save, UpdateStatus, Backfill, WithStatus, Put, AddToList, Index,
          BackfillRow, BackfillDone, Fail, InFlight
    <3>6. call'[c].pc = "done" /\ \A f \in Calls \ {c} : call'[f] = call[f]
      BY <1>1, <3>5, EndedCalls
    <3> QED
      BY <2>2, <3>5, <3>6 DEF Reporting, Reports, List, InFlight
  <2> QED BY <2>1, <2>2
<1>3. CASE SetRetrievalProvider
  <2>1. \A e \in Calls : Kept(e) /\ (InFlight(call[e]) => ~call'[e].alone)
    BY <1>1, <1>3, ProviderKeepsCalls
  <2> QED BY <2>1 DEF Reporting, Kept, InFlight
<1>4. CASE UNCHANGED <<rows, listed, index, call>>
  BY <1>4 DEF Reporting, List, InFlight
<1> QED BY <1>2, <1>3, <1>4 DEF Next, RegisterTransform, vars

\* A backfill ends with done when no row is left.
LEMMA DoneByBackfillDone ==
  ASSUME Shape, [Next]_vars, NEW c \in Calls, call[c].pc = "rows", call'[c].pc = "done"
  PROVE  call[c].todo = {}
<1>1. Types
  BY DEF Shape
<1>2. ASSUME NEW e \in Calls, Step(e) PROVE call[c].todo = {}
  <2>1. CASE e # c
    BY <1>1, <1>2, <2>1, OthersKept DEF Kept
  <2>2. CASE e = c
    <3>1. BackfillDone(c) \/ (Fail(c) /\ call' = Ended(c, "failed"))
          \/ \E i \in Ids : BackfillRow(c, i)
      BY <1>2, <2>2 DEF Step, Save, UpdateStatus, Backfill, WithStatus, Put, AddToList,
                        Index, Fail
    <3>2. ~(Fail(c) /\ call' = Ended(c, "failed"))
      BY <1>1 DEF Ended, Types, Idle
    <3>3. ASSUME NEW i \in Ids, BackfillRow(c, i) PROVE FALSE
      BY <1>1, <3>3 DEF BackfillRow, Types, CallRecord
    <3> QED BY <3>1, <3>2, <3>3 DEF BackfillDone
  <2> QED BY <2>1, <2>2
<1>3. CASE SetRetrievalProvider
  BY <1>1, <1>3, ProviderKeepsCalls DEF Kept
<1> QED BY <1>2, <1>3 DEF Next, RegisterTransform, vars

\* A backfill of all agents during which nothing else ran, and which reports no row as
\* skipped, has brought the index up to date with every row its limit covers, for any
\* limit and number of rows.  Code: backfill_outcomes_from_store counts what
\* maybe_index_experience returns.
THEOREM BackfillReportIsTrueCorrect == Spec => BackfillReportIsTrue
<1>1. Init => Reporting
  BY DEF Init, Reporting, Idle
<1>2. Shape /\ Reporting /\ [Next]_vars =>
        [\A c \in Calls :
           /\ call[c].pc = "rows" /\ call'[c].pc = "done"
           /\ call[c].alone /\ call[c].agent = Unset /\ call[c].skipped = 0
           => \A i \in List(Unset) : index[i] = rows[i]]_vars
  BY DoneByBackfillDone DEF Reporting
<1>3. Shape /\ Reporting /\ [Next]_vars => (Shape /\ Reporting)'
  BY ShapeStep, ReportingStep
<1> QED BY <1>1, <1>2, <1>3, InitIsSound, PTL DEF Spec, BackfillReportIsTrue
=============================================================================
