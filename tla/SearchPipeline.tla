---------------------------- MODULE SearchPipeline ----------------------------
(***************************************************************************)
(* What a search does with the rows of the place it reads: the ranking of the *)
(* back ends (retrieval/memory.py, faiss_provider.py, azure_provider.py,      *)
(* databricks_provider.py), and the pipeline of search_corpus: filter, drop   *)
(* duplicates, prefer accepted outcomes, cut; then the text for the prompt.   *)
(* A row is [id, text, entity, status, sig]; there is one query, and a text    *)
(* has a similarity to it, a number of its words, and a length.              *)
(***************************************************************************)
EXTENDS Integers, FiniteSets, Sequences

CONSTANTS
  Unset,             \* None
  Score, Words, Size,\* [texts -> Int]; none of them is negative but a similarity
  MaxChars           \* format_hits_as_context's budget

\* The members of a finite set in an order, which is the set of its pairs.
Arranged(S, before) ==
  [n \in 1..Cardinality(S) |->
     CHOOSE i \in S : Cardinality({j \in S : <<j, i>> \in before}) = n - 1]
Picked(seq, at) == [n \in DOMAIN at |-> seq[at[n]]]

\* What a comprehension or a loop keeps of a list, in the order it has.
Kept(seq, places) ==
  Picked(seq, Arranged(places, {p \in places \X places : p[1] < p[2]}))

\* sort(key=score, reverse=True): stable.
Ranking(hits) ==
  {p \in (DOMAIN hits) \X (DOMAIN hits) :
     \/ hits[p[1]].score > hits[p[2]].score
     \/ hits[p[1]].score = hits[p[2]].score /\ p[1] < p[2]}
Ranked(hits) == Picked(hits, Arranged(DOMAIN hits, Ranking(hits)))

AtLeastOne(k) == IF k > 1 THEN k ELSE 1
First(hits, k) == SubSeq(hits, 1, IF Len(hits) < AtLeastOne(k) THEN Len(hits) ELSE AtLeastOne(k))
Hit(row, score) ==
  [id |-> row.id, text |-> row.text, entity |-> row.entity, status |-> row.status,
   sig |-> row.sig, score |-> score, occurrences |-> Unset, others |-> {}]
-----------------------------------------------------------------------------
(* The back ends. *)

Scored(rows) == [n \in DOMAIN rows |-> Hit(rows[n], Score[rows[n].text])]
MemoryHits(rows, k) ==
  First(Ranked(Kept(Scored(rows), {n \in DOMAIN rows : Score[rows[n].text] > 0})), k)

\* The k nearest vectors; one beyond the rows is skipped, the others show the row at
\* their position.  The words count in every mode but vector.
FaissHits(index, rows, k, mode) ==
  LET near == First(Ranked([n \in DOMAIN index |-> [at |-> n, score |-> Score[index[n]]]]), k)
      known == Kept(near, {n \in DOMAIN near : near[n].at <= Len(rows)})
      hits == [n \in DOMAIN known |->
                 Hit(rows[known[n].at],
                     known[n].score + IF mode = "vector" THEN 0
                                      ELSE Words[rows[known[n].at].text])]
  IN  IF rows = <<>> THEN <<>> ELSE IF mode = "vector" THEN hits ELSE Ranked(hits)

\* The services: the k best.  The Databricks client gives no metadata.
RemoteHits(rows, k) == First(Ranked(Scored(rows)), k)
Bare(hits) ==
  [n \in DOMAIN hits |-> [hits[n] EXCEPT !.entity = Unset, !.status = Unset, !.sig = Unset]]
-----------------------------------------------------------------------------
(* search_corpus after the back end.  Options are [k, entity, dedupe, boost].  *)

\* Mutant: no more is fetched than is asked for.
FetchNarrow(o) == AtLeastOne(o.k)
FetchK(o) ==
  LET k == AtLeastOne(o.k)
      wide == IF 3 * k > k + 5 THEN 3 * k ELSE k + 5
  IN  IF ~o.dedupe /\ o.entity = Unset THEN k ELSE IF wide < 50 THEN wide ELSE 50

Filtered(hits, o) ==
  IF o.entity = Unset THEN hits
  ELSE Kept(hits, {n \in DOMAIN hits : hits[n].entity = o.entity})

\* The better one of each id, where the first one stood.
BestById(hits) ==
  LET Of(n) == {m \in DOMAIN hits : hits[m].id = hits[n].id}
      best == [n \in DOMAIN hits |->
                 hits[CHOOSE m \in Of(n) : \A l \in Of(n) \ {m} : <<m, l>> \in Ranking(hits)]]
  IN  Kept(best, {n \in DOMAIN hits : \A m \in Of(n) : n <= m})

Signature(h) == IF h.sig = Unset THEN h.text ELSE h.sig
Same(hits, n) == {m \in DOMAIN hits : Signature(hits[m]) = Signature(hits[n])}

\* The first one of each action, with how often it occurs and whom else it concerned.
FirstByAction(hits) ==
  LET counted == [n \in DOMAIN hits |->
        [hits[n] EXCEPT
           !.occurrences = Cardinality(Same(hits, n)),
           !.others = {hits[m].entity : m \in Same(hits, n) \ {n}} \ {Unset}]]
  IN  Kept(counted, {n \in DOMAIN hits : \A m \in Same(hits, n) : n <= m})
Deduped(hits, o) == IF o.dedupe THEN FirstByAction(BestById(hits)) ELSE hits

StatusBoost(status) == IF status = "applied" THEN 8 ELSE IF status = "accepted" THEN 5 ELSE 0
Boosted(hits, o) ==
  IF ~o.boost THEN hits
  ELSE Ranked([n \in DOMAIN hits |-> [hits[n] EXCEPT !.score = @ + StatusBoost(hits[n].status)]])

Answer(hits, o) == First(Boosted(Deduped(Filtered(hits, o), o), o), o.k)

\* rag.retrieve's context: chunks in order while they fit.
Used(hits) ==
  LET used[n \in 0..Len(hits)] == IF n = 0 THEN 0 ELSE used[n - 1] + Size[hits[n].text]
  IN  used[Len(hits)]
ContextOf(hits) ==
  LET fit == {n \in 0..Len(hits) : Used(SubSeq(hits, 1, n)) <= MaxChars}
  IN  SubSeq(hits, 1, CHOOSE n \in fit : \A m \in fit : m <= n)
=============================================================================
