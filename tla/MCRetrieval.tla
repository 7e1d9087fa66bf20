----------------------------- MODULE MCRetrieval -----------------------------
(***************************************************************************)
(* One corpus over every back end.  Four rows: two of one action and id or   *)
(* entity, of texts that match the query well, little and not at all.        *)
(***************************************************************************)
EXTENDS Retrieval

MCScore == [good |-> 10, fair |-> 6, none |-> 0]
MCWords == [good |-> 1, fair |-> 3, none |-> 0]
MCSize == [good |-> 3, fair |-> 5, none |-> 1]
Row(id, text, entity, status, sig) ==
  [id |-> id, text |-> text, entity |-> entity, status |-> status, sig |-> sig]
MCRows == {Row("d1", "good", "e1", "proposed", Unset), Row("d1", "fair", "e2", "applied", "grow"),
           Row("d2", "fair", "e1", "applied", "grow"), Row("d3", "none", Unset, Unset, Unset)}
Config(kind, at) == [kind |-> kind, at |-> at]
MCConfigs == {Config("faiss", "dir2"), Config("azure_ai_search", "idx"), Config("memory", Unset),
              Config("databricks_vector", Unset), Config("databricks_vector", "vs")}
MCKinds == {"none", "memory", "faiss", "azure_ai_search", "databricks_vector"}
MCReady == {"none", "memory", "faiss", "azure_ai_search", "databricks_vector"}
MCEnvIndex == [azure_ai_search |-> Unset, databricks_vector |-> Unset]
MCEnvMap == [run_books |-> Unset, outcomes |-> "mapped"]
MCOptions ==
  [k : {0, 2}, entity : {Unset, "e1"}, dedupe : BOOLEAN, boost : BOOLEAN,
   mode : {"vector", "hybrid"}, endpoint : {Unset, "service"},
   index : {Unset, "other", "run.books"}]
\* "run.books" has the files of "run_books", and a bag of its own.
MCFileName ==
  [name \in {"run_books", "run.books", "other"} |-> IF name = "other" THEN name ELSE "run_books"]
=============================================================================
