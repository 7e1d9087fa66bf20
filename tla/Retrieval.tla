------------------------------- MODULE Retrieval -------------------------------
(***************************************************************************)
(* The retrieval registry of one process (retrieval/registry.py, corpus.py),  *)
(* the documents behind its providers, and the FAISS files, which a process   *)
(* or a Job (build_faiss_index_from_dir) rewrites as two files one after the   *)
(* other and may leave in between.  The services are external.               *)
(***************************************************************************)
EXTENDS SearchPipeline

CONSTANTS
  Bad,               \* a file that was opened for writing and not written yet
  Corpora, Rows, Writers,
  Configs,           \* corpus configs: [kind, at], the provider override and its path or index
  Kinds,             \* values of EDIM_RETRIEVAL
  Ready,             \* back ends whose package and environment are there
  FileName,          \* FileName[c]: c with "_" for every character but letters, digits, - and _
  EnvDir, EnvIndex,  \* EDIM_FAISS_INDEX_PATH; the default indexes of azure and databricks
  EnvMap,            \* EDIM_AZURE_SEARCH_CORPUS_MAP and the Databricks one
  Options,           \* of a search: [k, entity, dedupe, boost, mode, endpoint, index]
  MaxSteps           \* bound: registry calls and writes

\* The texts that are embedded: the contents of the index files.
Texts == {row.text : row \in Rows}

BackEnds == {"none", "memory", "faiss", "azure_ai_search", "databricks_vector"}

ASSUME RetrievalAssumption == Bad \notin Seq(Rows) \cup Seq(Texts)
ASSUME SearchAssumption ==
  /\ Ready \subseteq BackEnds
  /\ \A text \in Texts : Score[text] \in Int /\ Words[text] \in Nat
  /\ MaxChars \in Nat
  /\ \A o \in Options : o.k \in Int /\ o.dedupe \in BOOLEAN /\ o.boost \in BOOLEAN

VARIABLES
  corpora,           \* _CORPORA
  default,           \* _PROVIDER
  cached,            \* _CORPUS_PROVIDERS
  built,             \* built[c]: the config cached[c] was built from
  docs,              \* documents of memory bags and of the services, by place
  files,             \* FAISS files, by place: [index, meta], Unset or Bad if unwritten
  job,               \* job[w]: a FAISS write under way, or Idle
  broken,            \* places a write of which was cut off, until a rebuild
  steps

vars == <<corpora, default, cached, built, docs, files, job, broken, steps>>
registry == <<corpora, default, cached, built>>
-----------------------------------------------------------------------------
(* Providers are [kind, at, service]; a place is where one finds a corpus.     *)

Or(v, otherwise) == IF v = Unset THEN otherwise ELSE v
Refused == [kind |-> "refused", at |-> Unset, service |-> Unset]

\* create_retrieval_provider; a memory provider is a new bag, of the corpus or default.
Create(kind, at, owner) ==
  IF \/ kind \notin Ready
     \/ kind = "faiss" /\ Or(at, EnvDir) = Unset
     \/ kind = "databricks_vector" /\ Or(at, EnvIndex[kind]) = Unset
  THEN Refused
  ELSE [kind |-> kind, service |-> Unset,
        at |-> CASE kind = "none" -> Unset
                 [] kind = "memory" -> owner
                 [] kind = "faiss" -> Or(at, EnvDir)
                 [] OTHER -> at]

Overridden(c) == corpora[c] # Unset /\ corpora[c].kind # Unset

\* Mutant: the cache is asked before the config.
ProviderCachedFirst(c) ==
  IF cached[c] # Unset THEN cached[c]
  ELSE IF Overridden(c) THEN Create(corpora[c].kind, corpora[c].at, c) ELSE default
ProviderFor(c) ==
  IF ~Overridden(c) THEN default
  ELSE IF cached[c] # Unset THEN cached[c]
  ELSE Create(corpora[c].kind, corpora[c].at, c)

\* _provider_for_search: bindings.search turns to a client of its own on Azure.
ProviderForSearch(c, o) ==
  LET base == ProviderFor(c) IN
  IF o.endpoint = Unset /\ (o.index = Unset \/ base.kind # "azure_ai_search") THEN base
  ELSE IF base = Refused \/ "azure_ai_search" \notin Ready
       THEN IF o.endpoint = Unset THEN base ELSE Refused
  ELSE [kind |-> "azure_ai_search", at |-> o.index, service |-> o.endpoint]

\* A bag is kept by the name of the corpus, files by what _corpus_paths makes of it
\* (two names may share them), the index of a service by the service alone.
Key(p, c) == CASE p.kind = "memory" -> c [] p.kind = "faiss" -> FileName[c]
               [] OTHER -> p.service

\* The index of a corpus: the environment's map, the provider's index, the default's.
Place(p, c) ==
  [kind |-> p.kind,
   at   |-> IF p.kind \in {"azure_ai_search", "databricks_vector"}
            THEN Or(EnvMap[c], Or(p.at, Or(EnvIndex[p.kind], c)))
            ELSE p.at,
   key  |-> Key(p, c)]

RowsAt(place) == IF place \in DOMAIN docs THEN docs[place] ELSE <<>>
FilesAt(place) ==
  IF place \in DOMAIN files THEN files[place] ELSE [index |-> Unset, meta |-> Unset]
Readable(place) == Bad \notin {FilesAt(place).index, FilesAt(place).meta}
\* _load: without either file the corpus is empty.
Load(place) ==
  IF Unset \in {FilesAt(place).index, FilesAt(place).meta}
  THEN [index |-> <<>>, meta |-> <<>>] ELSE FilesAt(place)

\* The bindings' index stands for the corpus at every back end but the services.
SearchPlace(c, o) ==
  LET p == ProviderForSearch(c, o) IN
  IF p.kind \in {"memory", "faiss"} /\ o.index # Unset
  THEN [Place(p, c) EXCEPT !.key = Key(p, o.index)] ELSE Place(p, c)

Answers(c, o) ==
  LET place == SearchPlace(c, o) IN place.kind # "refused" /\ Readable(place)

BackendHits(place, k, mode) ==
  CASE place.kind = "none" -> <<>>
    [] place.kind = "memory" -> MemoryHits(RowsAt(place), k)
    [] place.kind = "faiss" -> FaissHits(Load(place).index, Load(place).meta, k, mode)
    [] place.kind = "azure_ai_search" -> RemoteHits(RowsAt(place), k)
    [] place.kind = "databricks_vector" -> Bare(RemoteHits(RowsAt(place), k))

SearchCorpus(c, o) == Answer(BackendHits(SearchPlace(c, o), FetchK(o), o.mode), o)
-----------------------------------------------------------------------------
Idle == [at |-> "idle"]
Init ==
  /\ corpora = [c \in Corpora |-> Unset]
  /\ default = Create("none", Unset, "default")
  /\ cached = [c \in Corpora |-> Unset] /\ built = [c \in Corpora |-> Unset]
  /\ docs = <<>> /\ files = <<>>
  /\ job = [w \in Writers |-> Idle]
  /\ broken = {}
  /\ steps = 0

With(places, place, v) ==
  [p \in DOMAIN places \cup {place} |-> IF p = place THEN v ELSE places[p]]
Step == steps < MaxSteps /\ steps' = steps + 1
NoBag(owners) == [p \in {q \in DOMAIN docs : q.kind # "memory" \/ q.at \notin owners} |-> docs[p]]

\* register_corpus, load_corpora_yaml, clear_corpora (Unset)
RegisterCorpus(c, config) ==
  /\ Step
  /\ corpora' = [corpora EXCEPT ![c] = config]
  /\ UNCHANGED <<default, cached, built, docs, files, job, broken>>

\* set_retrieval_provider, configure_retrieval_from_env
SetProvider(kind) ==
  /\ Step
  /\ Create(kind, Unset, "default") # Refused
  /\ default' = Create(kind, Unset, "default")
  /\ docs' = NoBag({"default"})
  /\ UNCHANGED <<corpora, cached, built, files, job, broken>>

\* clear_retrieval_provider
ClearProvider ==
  /\ Step
  /\ default' = Create("none", Unset, "default")
  /\ cached' = [c \in Corpora |-> Unset] /\ built' = [c \in Corpora |-> Unset]
  /\ docs' = NoBag(Corpora \cup {"default"})
  /\ UNCHANGED <<corpora, files, job, broken>>

\* The first search or write of a corpus with an override caches its provider.
Resolve(c) ==
  /\ cached' = [cached EXCEPT ![c] = IF Overridden(c) /\ ProviderFor(c) # Refused
                                     THEN ProviderFor(c) ELSE @]
  /\ built' = [built EXCEPT ![c] = IF Overridden(c) /\ cached[c] = Unset
                                      /\ ProviderFor(c) # Refused
                                   THEN corpora[c] ELSE @]
Search(c) ==
  /\ Step
  /\ Resolve(c)
  /\ UNCHANGED <<corpora, default, docs, files, job, broken>>

\* An upsert keeps a row's position in a bag; a service ranks anyway.
Put(rows, row) ==
  IF \E n \in DOMAIN rows : rows[n].id = row.id
  THEN [n \in DOMAIN rows |-> IF rows[n].id = row.id THEN row ELSE rows[n]]
  ELSE Append(rows, row)
Without(rows, id) == Kept(rows, {n \in DOMAIN rows : rows[n].id # id})

WritePlace(c) == Place(ProviderFor(c), c)
Write(c, rows) ==
  /\ Step
  /\ Resolve(c)
  /\ WritePlace(c).kind \in {"memory", "azure_ai_search"}
  /\ docs' = With(docs, WritePlace(c), rows)
  /\ UNCHANGED <<corpora, default, files, job, broken>>
Upsert(c, row) == Write(c, Put(RowsAt(WritePlace(c)), row))
Delete(c, id) == Write(c, Without(RowsAt(WritePlace(c)), id))

\* Indexes of the services other processes fill.
OthersWrite(row) ==
  /\ Step
  /\ \E c \in Corpora : LET place == Place(ProviderFor(c), c) IN
       /\ place.kind = "databricks_vector"
       /\ docs' = With(docs, place, Put(RowsAt(place), row))
  /\ UNCHANGED <<registry, files, job, broken>>
-----------------------------------------------------------------------------
(* FAISS: read both files, write the index, write the rows. *)

Vectors(rows) == [n \in DOMAIN rows |-> rows[n].text]
\* Mutant: the vector of the removed row stays where it was.
RebuildNothing(index, rows) == index
Rebuild(index, rows) == Vectors(rows)

Begin(w, place, index, rows, rebuilt) ==
  /\ Step
  /\ job[w] = Idle
  /\ job' = [job EXCEPT ![w] = [place |-> place, index |-> index, meta |-> rows,
                                rebuilt |-> rebuilt, at |-> "index"]]
  /\ UNCHANGED <<docs, files, broken>>

\* FaissRetrieval.upsert at a place: in the process, or build_faiss_index_from_dir.
FaissUpsert(w, place, row) ==
  LET old == Load(place)
      kept == Without(old.meta, row.id)
      again == Len(kept) # Len(old.meta)
      rows == IF again THEN kept ELSE old.meta
      base == IF again THEN Rebuild(old.index, kept) ELSE old.index
  IN  /\ Readable(place)
      /\ Begin(w, place, Append(base, row.text), Append(rows, row), again)
FaissDelete(w, place, id) ==
  LET old == Load(place)
      kept == Without(old.meta, id)
  IN  /\ Readable(place) /\ Len(kept) # Len(old.meta)
      /\ Begin(w, place, Rebuild(old.index, kept), kept, TRUE)

Build(w, c, row) ==
  /\ "faiss" \in Ready
  /\ FaissUpsert(w, Place(Create("faiss", Unset, c), c), row)
  /\ UNCHANGED registry
InProcess(w, c) ==
  \E row \in Rows :
    LET place == Place(ProviderFor(c), c) IN
    /\ place.kind = "faiss"
    /\ FaissUpsert(w, place, row) \/ FaissDelete(w, place, row.id)
    /\ Resolve(c)
    /\ UNCHANGED <<corpora, default>>

\* _save: each file is truncated, then written.
Save(w) ==
  /\ job[w] # Idle
  /\ LET j == job[w]
         To(file, value) == files' = With(files, j.place, [FilesAt(j.place) EXCEPT ![file] = value])
         Then(next) == job' = [job EXCEPT ![w].at = next] /\ UNCHANGED broken
     IN  \/ j.at = "index" /\ To("index", Bad) /\ Then("index written")
         \/ j.at = "index written" /\ To("index", j.index) /\ Then("meta")
         \/ j.at = "meta" /\ To("meta", Bad) /\ Then("meta written")
         \/ /\ j.at = "meta written" /\ To("meta", j.meta)
            /\ job' = [job EXCEPT ![w] = Idle]
            /\ broken' = IF j.rebuilt THEN broken \ {j.place} ELSE broken
  /\ UNCHANGED <<registry, docs, steps>>

\* The writer dies, or its disk is full.
CutOff(w) ==
  /\ job[w] # Idle
  /\ job' = [job EXCEPT ![w] = Idle]
  /\ broken' = broken \cup {job[w].place}
  /\ UNCHANGED <<registry, docs, files, steps>>

Next ==
  \/ \E c \in Corpora :
       \/ \E config \in Configs \cup {Unset} : RegisterCorpus(c, config)
       \/ Search(c)
       \/ \E row \in Rows : Upsert(c, row) \/ Delete(c, row.id)
       \/ \E w \in Writers : InProcess(w, c) \/ \E row \in Rows : Build(w, c, row)
  \/ \E kind \in Kinds : SetProvider(kind)
  \/ ClearProvider
  \/ \E row \in Rows : OthersWrite(row)
  \/ \E w \in Writers : Save(w) \/ CutOff(w)

Spec == Init /\ [][Next]_vars
-----------------------------------------------------------------------------
(* Properties. *)

\* How many rows or vectors a search may find at a place.
Held(place) == IF place.kind = "faiss" THEN Len(Load(place).index) ELSE Len(RowsAt(place))

\* What a search gives a prompt, over any back end and any options: no more than asked
\* for (at least one), nothing of another entity, no id and no action twice, the best
\* first; and no action is counted less often than it occurs in the place and, when
\* fewer are given than asked for, none is missing, as long as the place holds no
\* more than the over-fetch reaches (search_corpus).
AnswersUsable ==
  \A c \in Corpora, o \in Options :
    Answers(c, o) =>
      LET place == SearchPlace(c, o)
          hits == SearchCorpus(c, o)
          all == BackendHits(place, Held(place), o.mode)
          wanted == {n \in DOMAIN all : o.entity = Unset \/ all[n].entity = o.entity}
          Of(h) == {all[n].id : n \in {m \in wanted : Signature(all[m]) = Signature(h)}}
          whole == Held(place) <= AtLeastOne(o.k) + 5 /\ Held(place) <= 50
      IN  /\ Len(hits) <= AtLeastOne(o.k)
          /\ \A n \in DOMAIN hits :
               /\ o.entity # Unset => hits[n].entity = o.entity
               /\ o.boost => \A m \in 1..n : hits[m].score >= hits[n].score
               /\ o.dedupe => \A m \in 1..(n - 1) :
                    hits[m].id # hits[n].id /\ Signature(hits[m]) # Signature(hits[n])
               /\ o.dedupe /\ whole => hits[n].occurrences = Cardinality(Of(hits[n]))
          /\ Len(hits) < AtLeastOne(o.k) /\ o.dedupe /\ whole =>
               \A n \in wanted : \E m \in DOMAIN hits : Signature(hits[m]) = Signature(all[n])
          /\ Used(ContextOf(hits)) <= MaxChars

\* A corpus is served as its config says at the moment, a removed override by the
\* process's provider, as long as the config is the one its cached provider was
\* built from (provider_for_corpus, register_corpus, clear_retrieval_provider).
ProviderMatchesConfig ==
  \A c \in Corpora :
    /\ ~Overridden(c) => ProviderFor(c) = default
    /\ Overridden(c) /\ built[c] \in {Unset, corpora[c]} =>
         ProviderFor(c) = Create(corpora[c].kind, corpora[c].at, c)

\* A hit shows the text its vector was made of: while no write of a FAISS corpus is
\* under way or was cut off; and a later write that replaces or deletes a row that was
\* there repairs what a cut off write left (_save, _rebuild).
VectorsMatchRows ==
  \A place \in DOMAIN files :
    /\ place \notin broken
    /\ \A w \in Writers : job[w] # Idle => job[w].place # place
    => /\ Readable(place)
       /\ Load(place).index = Vectors(Load(place).meta)
=============================================================================
