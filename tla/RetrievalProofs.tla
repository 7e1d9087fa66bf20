---------------------------- MODULE RetrievalProofs ----------------------------
(***************************************************************************)
(* Proofs about Retrieval for any corpora, configs, back ends, rows, writers. *)
(* CacheInv: the cache of providers holds, under a corpus, what                *)
(* create_retrieval_provider makes of the config it was built from.  A step    *)
(* changes the cache at the corpus it resolves, or empties it.                 *)
(* RowsInv: the rows of a place, of a file and of a write under way have       *)
(* different ids.  With the lemmas about arranging and keeping lists it gives   *)
(* what every step of a search makes of the hits.                              *)
(* VecInv: what the files of a place and the write under way there hold,       *)
(* file operation by file operation.                                         *)
(***************************************************************************)
EXTENDS Retrieval, FiniteSetTheorems, WellFoundedInduction, TLAPS

CacheInv ==
  /\ DOMAIN cached = Corpora /\ DOMAIN built = Corpora
  /\ \A c \in Corpora : cached[c] # Unset =>
       /\ built[c] # Unset
       /\ cached[c] = Create(built[c].kind, built[c].at, c)

\* Building the provider of one corpus leaves the cache of every other one.
LEMMA ResolveKeeps ==
  ASSUME CacheInv, NEW c \in Corpora, Resolve(c)
  PROVE  CacheInv'
<1>1. DOMAIN cached' = Corpora /\ DOMAIN built' = Corpora
  BY DEF CacheInv, Resolve
<1>2. \A d \in Corpora : d # c => cached'[d] = cached[d] /\ built'[d] = built[d]
  BY DEF CacheInv, Resolve
<1>3. cached'[c] # Unset =>
        built'[c] # Unset /\ cached'[c] = Create(built'[c].kind, built'[c].at, c)
  <2>1. CASE ~(Overridden(c) /\ ProviderFor(c) # Refused)
    BY <2>1 DEF CacheInv, Resolve
  <2>2. CASE Overridden(c) /\ ProviderFor(c) # Refused /\ cached[c] # Unset
    BY <2>2 DEF CacheInv, Resolve, ProviderFor
  <2>3. CASE Overridden(c) /\ ProviderFor(c) # Refused /\ cached[c] = Unset
    <3>1. corpora[c] # Unset /\ ProviderFor(c) = Create(corpora[c].kind, corpora[c].at, c)
      BY <2>3 DEF Overridden, ProviderFor
    <3>2. cached'[c] = ProviderFor(c) /\ built'[c] = corpora[c]
      BY <2>3 DEF CacheInv, Resolve
    <3> QED BY <3>1, <3>2
  <2> QED BY <2>1, <2>2, <2>3
<1>4. \A d \in Corpora : cached'[d] # Unset =>
        built'[d] # Unset /\ cached'[d] = Create(built'[d].kind, built'[d].at, d)
  BY <1>2, <1>3 DEF CacheInv
<1> QED BY <1>1, <1>4 DEF CacheInv, Create, Or, Refused

LEMMA InitCache == Init => CacheInv
  BY DEF Init, CacheInv

LEMMA CacheStep == CacheInv /\ [Next]_vars => CacheInv'
<1> SUFFICES ASSUME CacheInv, [Next]_vars PROVE CacheInv'
  OBVIOUS
<1>1. CASE UNCHANGED <<cached, built>>
  BY <1>1 DEF CacheInv, Create, Or, Refused
<1>2. ASSUME NEW c \in Corpora, NEW config \in Configs \cup {Unset}, RegisterCorpus(c, config)
      PROVE  CacheInv'
  BY <1>1, <1>2 DEF RegisterCorpus
<1>3. ASSUME NEW c \in Corpora, Search(c)
      PROVE  CacheInv'
  BY <1>3, ResolveKeeps DEF Search
<1>4. ASSUME NEW c \in Corpora, NEW row \in Rows, Upsert(c, row) \/ Delete(c, row.id)
      PROVE  CacheInv'
  BY <1>4, ResolveKeeps DEF Upsert, Delete, Write
<1>5. ASSUME NEW c \in Corpora, NEW w \in Writers, InProcess(w, c)
      PROVE  CacheInv'
  BY <1>5, ResolveKeeps DEF InProcess
<1>6. ASSUME NEW c \in Corpora, NEW w \in Writers, NEW row \in Rows, Build(w, c, row)
      PROVE  CacheInv'
  BY <1>1, <1>6 DEF Build, registry
<1>7. ASSUME NEW kind \in Kinds, SetProvider(kind)
      PROVE  CacheInv'
  BY <1>1, <1>7 DEF SetProvider
<1>8. CASE ClearProvider
  BY <1>8 DEF ClearProvider, CacheInv
<1>9. ASSUME NEW row \in Rows, OthersWrite(row)
      PROVE  CacheInv'
  BY <1>1, <1>9 DEF OthersWrite, registry
<1>10. ASSUME NEW w \in Writers, Save(w) \/ CutOff(w)
       PROVE  CacheInv'
  BY <1>1, <1>10 DEF Save, CutOff, registry
<1>11. CASE UNCHANGED vars
  BY <1>1, <1>11 DEF vars
<1> QED
  BY <1>2, <1>3, <1>4, <1>5, <1>6, <1>7, <1>8, <1>9, <1>10, <1>11 DEF Next

\* A corpus is served as its config says, as long as its cached provider was built
\* from that config.  Code: provider_for_corpus fills the cache with what it built
\* from the config it has just read, and clear_retrieval_provider drops all of it.
THEOREM ProviderMatchesConfigCorrect == Spec => []ProviderMatchesConfig
<1>1. CacheInv => ProviderMatchesConfig
  BY DEF CacheInv, ProviderMatchesConfig, ProviderFor
<1> QED BY <1>1, InitCache, CacheStep, PTL DEF Spec
-----------------------------------------------------------------------------
(* Lists: members arranged in an order, kept, ranked and cut. *)

\* Any set of naturals has a least element.
LEMMA LeastNat ==
  ASSUME NEW T \in SUBSET Nat, T # {}
  PROVE  \E n \in T : \A k \in T : n <= k
<1>1. PICK n \in T : \A k \in T : ~(<<k, n>> \in OpToRel(<, Nat))
  BY NatLessThanWellFounded, WFMin
<1>2. ASSUME NEW k \in T PROVE n <= k
  <2>1. ~(k < n)
    BY <1>1 DEF OpToRel
  <2> QED BY <2>1
<1> QED BY <1>2

LEMMA UpTo ==
  ASSUME NEW N \in Nat
  PROVE  IsFiniteSet(1..N) /\ Cardinality(1..N) = N
BY FS_Interval

\* A strict total order of a set.
Orders(before, S) ==
  /\ \A i \in S : <<i, i>> \notin before
  /\ \A i, j \in S : i # j => <<i, j>> \in before \/ <<j, i>> \in before
  /\ \A i, j, k \in S : <<i, j>> \in before /\ <<j, k>> \in before => <<i, k>> \in before

\* Arranging a finite set gives each of its members one position, in the order: of two
\* members the earlier one has fewer before it.
LEMMA ArrangedIs ==
  ASSUME NEW S, IsFiniteSet(S), NEW before, Orders(before, S)
  PROVE  /\ Cardinality(S) \in Nat
         /\ Arranged(S, before) \in [1..Cardinality(S) -> S]
         /\ \A i \in S : \E n \in 1..Cardinality(S) : Arranged(S, before)[n] = i
         /\ \A m, n \in 1..Cardinality(S) :
              m < n => <<Arranged(S, before)[m], Arranged(S, before)[n]>> \in before
         /\ \A n \in 1..Cardinality(S) :
              Cardinality({j \in S : <<j, Arranged(S, before)[n]>> \in before}) = n - 1
<1> DEFINE N == Cardinality(S)
           Earlier(i) == {j \in S : <<j, i>> \in before}
           rank == [i \in S |-> Cardinality(Earlier(i)) + 1]
           at == Arranged(S, before)
<1>1. \A i \in S : Earlier(i) \in SUBSET S /\ i \notin Earlier(i)
  BY DEF Orders
<1>2. \A i, j \in S : <<i, j>> \in before =>
        Earlier(i) \in SUBSET Earlier(j) /\ i \in Earlier(j)
  BY DEF Orders
<1>3. rank = [i \in S |-> Cardinality(Earlier(i)) + 1]
  OBVIOUS
<1>4. at = [n \in 1..N |-> CHOOSE i \in S : Cardinality(Earlier(i)) = n - 1]
  BY DEF Arranged
<1>5. \A n \in 1..N : Cardinality(Earlier(at[n])) = n - 1 =>
        Cardinality({j \in S : <<j, at[n]>> \in before}) = n - 1
  OBVIOUS
<1> HIDE DEF Earlier, rank, at
<1>6. N \in Nat
  BY FS_CardinalityType
<1> HIDE DEF N
<1>7. rank = [i \in S |-> rank[i]] /\ at = [n \in 1..N |-> at[n]]
  BY <1>3, <1>4
<1>8. ASSUME NEW i \in S PROVE IsFiniteSet(Earlier(i)) /\ Cardinality(Earlier(i)) \in 0..(N - 1)
  <2>1. /\ IsFiniteSet(Earlier(i)) /\ Cardinality(Earlier(i)) <= N
        /\ N = Cardinality(Earlier(i)) => S = Earlier(i)
    BY <1>1, FS_Subset DEF N
  <2>2. Cardinality(Earlier(i)) \in Nat /\ S # Earlier(i)
    BY <1>1, <2>1, FS_CardinalityType
  <2> QED BY <1>6, <2>1, <2>2
<1>9. ASSUME NEW i \in S, NEW j \in S, <<i, j>> \in before
      PROVE  rank[i] < rank[j]
  <2>1. /\ Earlier(i) # Earlier(j) /\ Earlier(i) \in SUBSET Earlier(j)
        /\ IsFiniteSet(Earlier(j))
    BY <1>1, <1>2, <1>8, <1>9
  <2>2. /\ Cardinality(Earlier(i)) <= Cardinality(Earlier(j))
        /\ Cardinality(Earlier(i)) # Cardinality(Earlier(j))
    BY <2>1, FS_Subset
  <2> QED BY <1>3, <1>8, <2>2
<1>10. \A i \in S : rank[i] \in 1..N
  BY <1>3, <1>6, <1>8
<1>11. rank \in Injection(S, 1..N)
  <2>1. rank \in [S -> 1..N]
    BY <1>7, <1>10
  <2>2. ASSUME NEW i \in S, NEW j \in S, i # j PROVE rank[i] # rank[j]
    <3>1. rank[i] < rank[j] \/ rank[j] < rank[i]
      BY <1>9, <2>2 DEF Orders
    <3>2. rank[i] \in Int /\ rank[j] \in Int
      BY <1>6, <1>10
    <3> QED BY <3>1, <3>2
  <2> QED BY <2>1, <2>2 DEF Injection, IsInjective
<1>12. \A n \in 1..N : \E i \in S : rank[i] = n
  <2>1. IsFiniteSet(1..N) /\ Cardinality(1..N) = N
    BY <1>6, UpTo
  <2>2. rank \in Surjection(S, 1..N)
    BY <1>11, <2>1, FS_Injection DEF N
  <2> QED BY <2>2 DEF Surjection
<1>13. ASSUME NEW n \in 1..N PROVE at[n] \in S /\ rank[at[n]] = n
  <2>1. \E i \in S : Cardinality(Earlier(i)) = n - 1
    <3>1. PICK i \in S : rank[i] = n
      BY <1>12
    <3>2. Cardinality(Earlier(i)) + 1 = n /\ Cardinality(Earlier(i)) \in Int
      BY <1>3, <1>6, <1>8, <3>1
    <3>3. Cardinality(Earlier(i)) = n - 1
      BY <1>6, <3>2
    <3> QED BY <3>3
  <2>2. at[n] \in S /\ Cardinality(Earlier(at[n])) = n - 1
    BY <1>4, <2>1
  <2> QED BY <1>3, <1>6, <2>2
<1>14. ASSUME NEW i \in S PROVE \E n \in 1..N : at[n] = i
  <2>1. rank[i] \in 1..N /\ rank[at[rank[i]]] = rank[i] /\ at[rank[i]] \in S
    BY <1>10, <1>13
  <2>2. at[rank[i]] = i
    BY <1>11, <2>1 DEF Injection, IsInjective
  <2> QED BY <2>1, <2>2
<1>15. ASSUME NEW m \in 1..N, NEW n \in 1..N, m < n PROVE <<at[m], at[n]>> \in before
  <2>1. at[m] \in S /\ at[n] \in S /\ rank[at[m]] = m /\ rank[at[n]] = n
    BY <1>13
  <2>2. at[m] # at[n] /\ ~(rank[at[n]] < rank[at[m]])
    BY <1>6, <1>15, <2>1
  <2> QED BY <1>9, <2>1, <2>2 DEF Orders
<1>16. ASSUME NEW n \in 1..N
       PROVE  Cardinality({j \in S : <<j, at[n]>> \in before}) = n - 1
  <2>1. Cardinality(Earlier(at[n])) + 1 = n /\ Cardinality(Earlier(at[n])) \in Int
    BY <1>3, <1>6, <1>8, <1>13
  <2> QED BY <1>5, <1>6, <2>1
<1>17. at \in [1..N -> S]
  BY <1>7, <1>13
<1> QED BY <1>6, <1>14, <1>15, <1>16, <1>17 DEF N, at

\* The positions a subset of a list's is arranged in, and what is kept there.
LEMMA KeptIs ==
  ASSUME NEW T, NEW s \in Seq(T), NEW P \in SUBSET DOMAIN s
  PROVE  \E at \in [1..Cardinality(P) -> P] :
           /\ Cardinality(P) \in Nat /\ Cardinality(P) <= Len(s)
           /\ Kept(s, P) = [n \in 1..Cardinality(P) |-> s[at[n]]]
           /\ \A m, n \in 1..Cardinality(P) : at[m] = at[n] => m = n
           /\ \A i \in P : \E n \in 1..Cardinality(P) : at[n] = i
           /\ P = DOMAIN s => Kept(s, P) = s
<1> DEFINE before == {p \in P \X P : p[1] < p[2]}
           at == Arranged(P, before)
           N == Cardinality(P)
<1>1. Len(s) \in Nat /\ DOMAIN s = 1..Len(s) /\ \A i \in P : i \in Int
  OBVIOUS
<1>2. IsFiniteSet(P) /\ N <= Len(s)
  <2>1. /\ IsFiniteSet(1..Len(s)) /\ Cardinality(1..Len(s)) = Len(s)
        /\ P \in SUBSET (1..Len(s))
    BY <1>1, UpTo
  <2> QED BY <2>1, FS_Subset
<1>3. \A i, j \in P : <<i, j>> \in before <=> i < j
  OBVIOUS
<1>4. Kept(s, P) = Picked(s, at)
  BY DEF Kept
<1> HIDE DEF before
<1>5. Orders(before, P)
  BY <1>1, <1>3 DEF Orders
<1>6. /\ N \in Nat /\ at \in [1..N -> P]
      /\ \A i \in P : \E n \in 1..N : at[n] = i
      /\ \A m, n \in 1..N : m < n => <<at[m], at[n]>> \in before
      /\ \A n \in 1..N : Cardinality({j \in P : <<j, at[n]>> \in before}) = n - 1
  BY <1>2, <1>5, ArrangedIs
<1> HIDE DEF at, N
<1>7. Kept(s, P) = [n \in 1..N |-> s[at[n]]]
  BY <1>4, <1>6 DEF Picked
<1>8. ASSUME NEW m \in 1..N, NEW n \in 1..N, at[m] = at[n] PROVE m = n
  <2>1. m < n \/ n < m \/ m = n
    BY <1>6
  <2>2. at[m] \in P /\ <<at[m], at[m]>> \notin before
    BY <1>5, <1>6 DEF Orders
  <2>3. ~(m < n) /\ ~(n < m)
    BY <1>6, <1>8, <2>2
  <2> QED BY <2>1, <2>3
<1>9. ASSUME P = DOMAIN s PROVE Kept(s, P) = s
  <2>1. N = Len(s)
    BY <1>1, <1>9, UpTo DEF N
  <2>2. ASSUME NEW n \in 1..N PROVE at[n] = n
    <3>1. at[n] \in P /\ at[n] \in 1..Len(s)
      BY <1>6, <1>9
    <3> DEFINE E == {j \in P : <<j, at[n]>> \in before}
    <3>2. E = 1..(at[n] - 1)
      BY <1>1, <1>3, <1>9, <3>1
    <3>3. Cardinality(E) = n - 1
      BY <1>6
    <3> HIDE DEF E
    <3>4. Cardinality(1..(at[n] - 1)) = at[n] - 1
      BY <3>1, UpTo
    <3> QED BY <1>6, <3>1, <3>2, <3>3, <3>4
  <2>3. s = [n \in 1..N |-> s[n]]
    BY <1>1, <2>1
  <2> QED BY <1>7, <2>2, <2>3
<1> QED BY <1>2, <1>6, <1>7, <1>8, <1>9 DEF N

\* Ranking a list permutes it, best score first.
LEMMA RankedIs ==
  ASSUME NEW T, NEW s \in Seq(T), \A i \in DOMAIN s : s[i].score \in Int
  PROVE  \E at \in [1..Len(s) -> 1..Len(s)] :
           /\ Ranked(s) = [n \in 1..Len(s) |-> s[at[n]]]
           /\ \A m, n \in 1..Len(s) : at[m] = at[n] => m = n
           /\ \A i \in 1..Len(s) : \E n \in 1..Len(s) : at[n] = i
           /\ \A m, n \in 1..Len(s) : m < n => s[at[m]].score >= s[at[n]].score
<1> DEFINE S == DOMAIN s
           before == Ranking(s)
           at == Arranged(S, before)
<1>1. Len(s) \in Nat /\ S = 1..Len(s)
  OBVIOUS
<1>2. IsFiniteSet(S) /\ Cardinality(S) = Len(s)
  <2>1. IsFiniteSet(1..Len(s)) /\ Cardinality(1..Len(s)) = Len(s)
    BY <1>1, UpTo
  <2> QED BY <1>1, <2>1
<1>3. \A i, j \in S : <<i, j>> \in before <=>
        \/ s[i].score > s[j].score
        \/ s[i].score = s[j].score /\ i < j
  BY DEF Ranking
<1>4. Ranked(s) = Picked(s, at)
  BY DEF Ranked
<1> HIDE DEF before
<1>5. Orders(before, S)
  <2> DEFINE score(i) == s[i].score
  <2>1. \A i \in S : score(i) \in Int /\ i \in Int
    BY <1>1
  <2>2. \A i, j \in S : <<i, j>> \in before <=>
          \/ score(i) > score(j)
          \/ score(i) = score(j) /\ i < j
    BY <1>3
  <2> HIDE DEF score, S
  <2> QED BY <2>1, <2>2 DEF Orders
<1>6. /\ at \in [1..Cardinality(S) -> S]
      /\ \A i \in S : \E n \in 1..Cardinality(S) : at[n] = i
      /\ \A m, n \in 1..Cardinality(S) : m < n => <<at[m], at[n]>> \in before
  BY <1>2, <1>5, ArrangedIs
<1> HIDE DEF at, S
<1>7. /\ at \in [1..Len(s) -> 1..Len(s)]
      /\ \A i \in 1..Len(s) : \E n \in 1..Len(s) : at[n] = i
      /\ \A m, n \in 1..Len(s) : m < n => <<at[m], at[n]>> \in before
  BY <1>1, <1>2, <1>6
<1>8. Ranked(s) = [n \in 1..Len(s) |-> s[at[n]]]
  BY <1>4, <1>7 DEF Picked
<1>9. ASSUME NEW m \in 1..Len(s), NEW n \in 1..Len(s), at[m] = at[n] PROVE m = n
  <2>1. m < n \/ n < m \/ m = n
    BY <1>1
  <2> QED BY <1>1, <1>5, <1>7, <1>9, <2>1 DEF Orders
<1>10. ASSUME NEW m \in 1..Len(s), NEW n \in 1..Len(s), m < n
       PROVE  s[at[m]].score >= s[at[n]].score
  <2>1. at[m] \in S /\ at[n] \in S /\ <<at[m], at[n]>> \in before
    BY <1>1, <1>7, <1>10
  <2>2. s[at[m]].score \in Int /\ s[at[n]].score \in Int
    BY <2>1 DEF S
  <2> QED BY <1>3, <2>1, <2>2
<1> QED BY <1>7, <1>8, <1>9, <1>10

\* A cut keeps the first ones, and all of a list that is no longer.
LEMMA FirstIs ==
  ASSUME NEW T, NEW s \in Seq(T), NEW k \in Int
  PROVE  /\ First(s, k) \in Seq(T) /\ Len(First(s, k)) <= AtLeastOne(k)
         /\ Len(First(s, k)) <= Len(s)
         /\ \A n \in 1..Len(First(s, k)) : First(s, k)[n] = s[n]
         /\ Len(First(s, k)) < AtLeastOne(k) \/ Len(s) <= AtLeastOne(k) => First(s, k) = s
<1> DEFINE L == IF Len(s) < AtLeastOne(k) THEN Len(s) ELSE AtLeastOne(k)
<1>1. Len(s) \in Nat /\ AtLeastOne(k) \in Nat \ {0}
  BY DEF AtLeastOne
<1>2. L \in 0..Len(s) /\ L <= AtLeastOne(k)
  BY <1>1
<1>3. First(s, k) = SubSeq(s, 1, L)
  BY DEF First
<1>4. L < AtLeastOne(k) \/ Len(s) <= AtLeastOne(k) => L = Len(s)
  BY <1>1
<1> HIDE DEF L
<1>5. /\ SubSeq(s, 1, L) \in Seq(T) /\ Len(SubSeq(s, 1, L)) = L
      /\ \A n \in 1..L : SubSeq(s, 1, L)[n] = s[n]
  BY <1>1, <1>2
<1>6. L = Len(s) => SubSeq(s, 1, L) = s
  BY <1>1
<1> QED BY <1>1, <1>2, <1>3, <1>4, <1>5, <1>6
-----------------------------------------------------------------------------
(* No two members of a list agree in a field: kept, ranked and cut lists. *)

Distinct(s, f) == \A m, n \in 1..Len(s) : s[m][f] = s[n][f] => m = n
Within(t, s) == \A n \in 1..Len(t) : \E m \in 1..Len(s) : t[n] = s[m]

LEMMA KeptHits ==
  ASSUME NEW T, NEW s \in Seq(T), NEW P \in SUBSET DOMAIN s
  PROVE  /\ Kept(s, P) \in Seq(T) /\ Len(Kept(s, P)) <= Len(s)
         /\ \A f : Distinct(s, f) => Distinct(Kept(s, P), f)
         /\ \A n \in 1..Len(Kept(s, P)) : \E i \in P : Kept(s, P)[n] = s[i]
         /\ \A i \in P : \E n \in 1..Len(Kept(s, P)) : Kept(s, P)[n] = s[i]
         /\ P = DOMAIN s => Kept(s, P) = s
<1> DEFINE N == Cardinality(P)
<1>1. /\ Len(s) \in Nat /\ DOMAIN s = 1..Len(s) /\ P \in SUBSET (1..Len(s))
      /\ \A i \in 1..Len(s) : s[i] \in T
  OBVIOUS
<1>2. PICK at \in [1..N -> P] :
        /\ N \in Nat /\ N <= Len(s)
        /\ Kept(s, P) = [n \in 1..N |-> s[at[n]]]
        /\ \A m, n \in 1..N : at[m] = at[n] => m = n
        /\ \A i \in P : \E n \in 1..N : at[n] = i
        /\ P = DOMAIN s => Kept(s, P) = s
  BY KeptIs
<1> HIDE DEF N
<1>3. Kept(s, P) \in Seq(T) /\ Len(Kept(s, P)) = N /\ \A n \in 1..N : Kept(s, P)[n] = s[at[n]]
  BY <1>1, <1>2
<1>4. ASSUME NEW f, Distinct(s, f) PROVE Distinct(Kept(s, P), f)
  BY <1>1, <1>2, <1>3, <1>4 DEF Distinct
<1> QED BY <1>2, <1>3, <1>4

LEMMA RankedHits ==
  ASSUME NEW T, NEW s \in Seq(T), \A i \in DOMAIN s : s[i].score \in Int
  PROVE  /\ Ranked(s) \in Seq(T) /\ Len(Ranked(s)) = Len(s)
         /\ \A f : Distinct(s, f) => Distinct(Ranked(s), f)
         /\ Within(Ranked(s), s) /\ Within(s, Ranked(s))
         /\ \A m, n \in 1..Len(s) : m <= n => Ranked(s)[m].score >= Ranked(s)[n].score
<1>1. /\ Len(s) \in Nat /\ DOMAIN s = 1..Len(s) /\ \A i \in 1..Len(s) : s[i] \in T
  OBVIOUS
<1>2. PICK at \in [1..Len(s) -> 1..Len(s)] :
        /\ Ranked(s) = [n \in 1..Len(s) |-> s[at[n]]]
        /\ \A m, n \in 1..Len(s) : at[m] = at[n] => m = n
        /\ \A i \in 1..Len(s) : \E n \in 1..Len(s) : at[n] = i
        /\ \A m, n \in 1..Len(s) : m < n => s[at[m]].score >= s[at[n]].score
  BY RankedIs
<1>3. /\ Ranked(s) \in Seq(T) /\ Len(Ranked(s)) = Len(s)
      /\ \A n \in 1..Len(s) : Ranked(s)[n] = s[at[n]]
  BY <1>1, <1>2
<1>4. ASSUME NEW f, Distinct(s, f) PROVE Distinct(Ranked(s), f)
  <2>1. SUFFICES ASSUME NEW m \in 1..Len(s), NEW n \in 1..Len(s),
                        Ranked(s)[m][f] = Ranked(s)[n][f]
                 PROVE  m = n
    BY <1>3 DEF Distinct
  <2>2. at[m] \in 1..Len(s) /\ at[n] \in 1..Len(s) /\ s[at[m]][f] = s[at[n]][f]
    BY <1>2, <1>3, <2>1
  <2>3. at[m] = at[n]
    BY <1>4, <2>2 DEF Distinct
  <2> QED BY <1>2, <2>3
<1>5. Within(Ranked(s), s) /\ Within(s, Ranked(s))
  <2>1. \A n \in 1..Len(s) : at[n] \in 1..Len(s)
    BY <1>2
  <2>2. \A i \in 1..Len(s) : \E n \in 1..Len(s) : s[i] = Ranked(s)[n]
    BY <1>2, <1>3
  <2> QED BY <1>3, <2>1, <2>2 DEF Within
<1>6. ASSUME NEW m \in 1..Len(s), NEW n \in 1..Len(s), m <= n
      PROVE  Ranked(s)[m].score >= Ranked(s)[n].score
  <2>1. CASE m = n
    <3>1. at[m] \in 1..Len(s)
      BY <1>2
    <3>2. s[at[m]].score \in Int
      BY <1>1, <3>1
    <3> QED BY <1>3, <2>1, <3>2
  <2>2. CASE m < n
    BY <1>2, <1>3, <2>2
  <2> QED BY <1>6, <2>1, <2>2
<1> QED BY <1>3, <1>4, <1>5, <1>6

LEMMA FirstHits ==
  ASSUME NEW T, NEW s \in Seq(T), NEW k \in Int
  PROVE  /\ \A f : Distinct(s, f) => Distinct(First(s, k), f)
         /\ Within(First(s, k), s)
<1>1. Len(s) \in Nat /\ Len(First(s, k)) \in Nat /\ 1..Len(First(s, k)) \subseteq 1..Len(s)
      /\ \A n \in 1..Len(First(s, k)) : First(s, k)[n] = s[n]
  <2>1. First(s, k) \in Seq(T) /\ Len(First(s, k)) <= Len(s)
        /\ \A n \in 1..Len(First(s, k)) : First(s, k)[n] = s[n]
    BY FirstIs
  <2> QED BY <2>1
<1>2. ASSUME NEW f, Distinct(s, f) PROVE Distinct(First(s, k), f)
  BY <1>1, <1>2 DEF Distinct
<1>3. Within(First(s, k), s)
  BY <1>1 DEF Within
<1> QED BY <1>2, <1>3
-----------------------------------------------------------------------------
(* What a back end finds: hits, each of a row of its own. *)

RowSeqs == {rows \in Seq(Rows) : Distinct(rows, "id")}
Values(f) == {row[f] : row \in Rows} \cup {Unset}
Hits == [id : Values("id"), text : Texts, entity : Values("entity"), status : Values("status"),
         sig : Values("sig"), score : Int, occurrences : Nat \cup {Unset},
         others : SUBSET Values("entity")]
HitSeqs == {hits \in Seq(Hits) : Distinct(hits, "id")}

LEMMA HitIs ==
  ASSUME NEW row \in Rows, NEW score \in Int
  PROVE  Hit(row, score) \in Hits /\ Hit(row, score).id = row.id
  BY DEF Hit, Hits, Values, Texts

LEMMA HitScores ==
  ASSUME NEW hits \in Seq(Hits)
  PROVE  \A i \in DOMAIN hits : hits[i].score \in Int
<1>1. \A i \in DOMAIN hits : hits[i] \in Hits
  OBVIOUS
<1> QED BY <1>1 DEF Hits

\* A text's similarity and its words are numbers.
LEMMA TextNumbers ==
  ASSUME NEW row \in Rows
  PROVE  Score[row.text] \in Int /\ Words[row.text] \in Int
  BY SearchAssumption DEF Texts

LEMMA ScoredIs ==
  ASSUME NEW rows \in RowSeqs
  PROVE  Scored(rows) \in HitSeqs /\ Len(Scored(rows)) = Len(rows)
<1>1. /\ rows \in Seq(Rows) /\ Len(rows) \in Nat /\ DOMAIN rows = 1..Len(rows)
      /\ \A n \in 1..Len(rows) : rows[n] \in Rows
  BY DEF RowSeqs
<1>2. \A n \in 1..Len(rows) :
        /\ Hit(rows[n], Score[rows[n].text]) \in Hits
        /\ Hit(rows[n], Score[rows[n].text]).id = rows[n].id
  BY <1>1, TextNumbers, HitIs
<1>3. Scored(rows) = [n \in 1..Len(rows) |-> Hit(rows[n], Score[rows[n].text])]
  BY <1>1 DEF Scored
<1>4. Scored(rows) \in Seq(Hits) /\ Len(Scored(rows)) = Len(rows)
  BY <1>1, <1>2, <1>3
<1>5. Distinct(Scored(rows), "id")
  <2>1. \A n \in 1..Len(rows) : Scored(rows)[n].id = rows[n].id
    BY <1>2, <1>3
  <2> QED BY <1>4, <2>1 DEF RowSeqs, Distinct
<1> QED BY <1>4, <1>5 DEF HitSeqs

LEMMA RankedFirst ==
  ASSUME NEW hits \in HitSeqs, NEW k \in Int
  PROVE  /\ Ranked(hits) \in HitSeqs /\ Len(Ranked(hits)) = Len(hits)
         /\ First(hits, k) \in HitSeqs
         /\ Len(hits) <= AtLeastOne(k) => First(hits, k) = hits
<1>1. hits \in Seq(Hits) /\ Distinct(hits, "id")
  BY DEF HitSeqs
<1>2. \A i \in DOMAIN hits : hits[i].score \in Int
  BY <1>1, HitScores
<1>3. /\ Ranked(hits) \in Seq(Hits) /\ Len(Ranked(hits)) = Len(hits)
      /\ Distinct(Ranked(hits), "id")
  BY <1>1, <1>2, RankedHits
<1>4. /\ First(hits, k) \in Seq(Hits) /\ Distinct(First(hits, k), "id")
      /\ Len(hits) <= AtLeastOne(k) => First(hits, k) = hits
  BY <1>1, FirstIs, FirstHits
<1> QED BY <1>3, <1>4 DEF HitSeqs

\* Code: MemoryRetrieval.search.
LEMMA MemoryFinds ==
  ASSUME NEW rows \in RowSeqs, NEW k \in Int
  PROVE  /\ MemoryHits(rows, k) \in HitSeqs
         /\ \A j \in Int : Len(rows) <= AtLeastOne(j) /\ Len(rows) <= AtLeastOne(k) =>
              MemoryHits(rows, j) = MemoryHits(rows, k)
<1> DEFINE P == {n \in DOMAIN rows : Score[rows[n].text] > 0}
           kept == Kept(Scored(rows), P)
<1>1. Scored(rows) \in Seq(Hits) /\ Distinct(Scored(rows), "id") /\ Len(Scored(rows)) = Len(rows)
  BY ScoredIs DEF HitSeqs
<1>2. P \in SUBSET DOMAIN Scored(rows)
  BY DEF Scored
<1>3. \A j : MemoryHits(rows, j) = First(Ranked(kept), j)
  BY DEF MemoryHits
<1> HIDE DEF P
<1>4. kept \in HitSeqs /\ Len(kept) <= Len(rows)
  BY <1>1, <1>2, KeptHits DEF HitSeqs
<1> HIDE DEF kept
<1>5. Ranked(kept) \in HitSeqs /\ Len(Ranked(kept)) <= Len(rows)
  BY <1>4, RankedFirst
<1>6. \A j \in Int : First(Ranked(kept), j) \in HitSeqs /\
        (Len(rows) <= AtLeastOne(j) => First(Ranked(kept), j) = Ranked(kept))
  <2>1. ASSUME NEW j \in Int, Len(rows) <= AtLeastOne(j)
        PROVE  Len(Ranked(kept)) <= AtLeastOne(j)
    <3>1. Len(rows) \in Nat /\ Len(Ranked(kept)) \in Nat /\ AtLeastOne(j) \in Int
      BY <1>5 DEF RowSeqs, HitSeqs, AtLeastOne
    <3> QED BY <1>5, <2>1, <3>1
  <2> QED BY <1>5, <2>1, RankedFirst
<1> QED BY <1>3, <1>6

\* Code: AzureAISearchRetrieval.search; DatabricksVectorRetrieval.search, which drops the
\* metadata.
LEMMA RemoteFinds ==
  ASSUME NEW rows \in RowSeqs, NEW k \in Int
  PROVE  /\ RemoteHits(rows, k) \in HitSeqs /\ Bare(RemoteHits(rows, k)) \in HitSeqs
         /\ \A j \in Int : Len(rows) <= AtLeastOne(j) /\ Len(rows) <= AtLeastOne(k) =>
              RemoteHits(rows, j) = RemoteHits(rows, k)
<1>1. Scored(rows) \in HitSeqs /\ Len(Scored(rows)) = Len(rows)
  BY ScoredIs
<1>2. Ranked(Scored(rows)) \in HitSeqs /\ Len(Ranked(Scored(rows))) = Len(rows)
  BY <1>1, RankedFirst
<1>3. \A j \in Int : /\ RemoteHits(rows, j) \in HitSeqs
                     /\ Len(rows) <= AtLeastOne(j) => RemoteHits(rows, j) = Ranked(Scored(rows))
  BY <1>2, RankedFirst DEF RemoteHits
<1>4. ASSUME NEW hits \in HitSeqs PROVE Bare(hits) \in HitSeqs
  <2> DEFINE bare(h) == [h EXCEPT !.entity = Unset, !.status = Unset, !.sig = Unset]
  <2>1. Len(hits) \in Nat /\ DOMAIN hits = 1..Len(hits) /\ \A n \in 1..Len(hits) : hits[n] \in Hits
    BY DEF HitSeqs
  <2>2. \A h \in Hits : bare(h) \in Hits /\ bare(h).id = h.id
    BY DEF Hits, Values
  <2>3. Bare(hits) = [n \in 1..Len(hits) |-> bare(hits[n])]
    BY <2>1 DEF Bare
  <2> HIDE DEF bare
  <2>4. /\ Bare(hits) \in Seq(Hits) /\ Len(Bare(hits)) = Len(hits)
        /\ \A n \in 1..Len(hits) : Bare(hits)[n].id = hits[n].id
    BY <2>1, <2>2, <2>3
  <2> QED BY <2>1, <2>4 DEF HitSeqs, Distinct
<1> QED BY <1>3, <1>4

\* Code: FaissRetrieval.search.  A position has one vector, and one row at most.
LEMMA FaissFinds ==
  ASSUME NEW index \in Seq(Texts), NEW rows \in RowSeqs, NEW k \in Int, NEW mode
  PROVE  /\ FaissHits(index, rows, k, mode) \in HitSeqs
         /\ \A j \in Int : Len(index) <= AtLeastOne(j) /\ Len(index) <= AtLeastOne(k) =>
              FaissHits(index, rows, j, mode) = FaissHits(index, rows, k, mode)
<1> DEFINE V == [at : 1..Len(index), score : Int]
           vectors == [n \in DOMAIN index |-> [at |-> n, score |-> Score[index[n]]]]
           near(j) == First(Ranked(vectors), j)
           known(j) == Kept(near(j), {n \in DOMAIN near(j) : near(j)[n].at <= Len(rows)})
           score(v) == v.score + IF mode = "vector" THEN 0 ELSE Words[rows[v.at].text]
           hits(j) == [n \in DOMAIN known(j) |-> Hit(rows[known(j)[n].at], score(known(j)[n]))]
<1>1. /\ Len(index) \in Nat /\ DOMAIN index = 1..Len(index)
      /\ \A n \in 1..Len(index) : Score[index[n]] \in Int
  BY SearchAssumption
<1>2. /\ Len(rows) \in Nat /\ \A n \in 1..Len(rows) : rows[n] \in Rows
      /\ Distinct(rows, "id")
  BY DEF RowSeqs
<1>3. /\ vectors \in Seq(V) /\ Len(vectors) = Len(index) /\ Distinct(vectors, "at")
      /\ \A v \in V : v.at \in Int /\ v.score \in Int
  BY <1>1 DEF Distinct
<1>4. \A j : FaissHits(index, rows, j, mode) =
        IF rows = <<>> THEN <<>> ELSE IF mode = "vector" THEN hits(j) ELSE Ranked(hits(j))
  BY DEF FaissHits
<1> HIDE DEF vectors, V
<1>5. Ranked(vectors) \in Seq(V) /\ Len(Ranked(vectors)) = Len(index)
      /\ Distinct(Ranked(vectors), "at")
  <2>1. \A i \in DOMAIN vectors : vectors[i].score \in Int
    BY <1>3
  <2> QED BY <1>3, <2>1, RankedHits
<1>6. ASSUME NEW j \in Int
      PROVE  /\ near(j) \in Seq(V) /\ Distinct(near(j), "at")
             /\ Len(index) <= AtLeastOne(j) => near(j) = Ranked(vectors)
  BY <1>5, <1>6, FirstIs, FirstHits
<1>7. ASSUME NEW j \in Int
      PROVE  /\ known(j) \in Seq(V) /\ Distinct(known(j), "at")
             /\ \A n \in 1..Len(known(j)) : known(j)[n].at \in 1..Len(rows)
  <2> DEFINE P == {n \in DOMAIN near(j) : near(j)[n].at <= Len(rows)}
  <2>1. near(j) \in Seq(V) /\ Distinct(near(j), "at")
    BY <1>6, <1>7
  <2> HIDE DEF near
  <2>2. \A i \in P : near(j)[i] \in V /\ near(j)[i].at <= Len(rows)
    BY <2>1
  <2>3. P \in SUBSET DOMAIN near(j) /\ known(j) = Kept(near(j), P)
    OBVIOUS
  <2> HIDE DEF P, known
  <2>4. /\ known(j) \in Seq(V) /\ Distinct(known(j), "at")
        /\ \A n \in 1..Len(known(j)) : \E i \in P : known(j)[n] = near(j)[i]
    BY <2>1, <2>3, KeptHits
  <2>5. \A v \in V : v.at <= Len(rows) => v.at \in 1..Len(rows)
    BY <1>1, <1>2 DEF V
  <2> QED BY <2>2, <2>4, <2>5
<1> HIDE DEF known
<1>8. ASSUME NEW j \in Int
      PROVE  hits(j) \in HitSeqs
  <2>1. hits(j) = [n \in 1..Len(known(j)) |-> Hit(rows[known(j)[n].at], score(known(j)[n]))]
    BY <1>7, <1>8
  <2>2. ASSUME NEW n \in 1..Len(known(j))
        PROVE  /\ Hit(rows[known(j)[n].at], score(known(j)[n])) \in Hits
               /\ Hit(rows[known(j)[n].at], score(known(j)[n])).id = rows[known(j)[n].at].id
    <3>1. known(j)[n] \in V /\ known(j)[n].at \in 1..Len(rows)
      BY <1>7, <1>8
    <3>2. rows[known(j)[n].at] \in Rows /\ known(j)[n].score \in Int
      BY <1>2, <1>3, <3>1
    <3>3. score(known(j)[n]) \in Int
      BY <3>2, TextNumbers
    <3> QED BY <3>2, <3>3, HitIs
  <2> HIDE DEF hits, score
  <2>3. /\ hits(j) \in Seq(Hits) /\ Len(hits(j)) = Len(known(j))
        /\ \A n \in 1..Len(known(j)) : hits(j)[n].id = rows[known(j)[n].at].id
    <3>1. Len(known(j)) \in Nat
      BY <1>7, <1>8
    <3> QED BY <2>1, <2>2, <3>1
  <2>4. ASSUME NEW m \in 1..Len(known(j)), NEW n \in 1..Len(known(j)),
               hits(j)[m].id = hits(j)[n].id
        PROVE  m = n
    <3>1. known(j)[m].at \in 1..Len(rows) /\ known(j)[n].at \in 1..Len(rows)
      BY <1>7, <1>8
    <3>2. rows[known(j)[m].at].id = rows[known(j)[n].at].id
      BY <2>3, <2>4
    <3>3. known(j)[m].at = known(j)[n].at
      BY <1>2, <3>1, <3>2 DEF Distinct
    <3> QED BY <1>7, <1>8, <3>3 DEF Distinct
  <2> QED BY <2>3, <2>4 DEF HitSeqs, Distinct
<1>9. \A j \in Int : Len(index) <= AtLeastOne(j) /\ Len(index) <= AtLeastOne(k) =>
        hits(j) = hits(k)
  <2>1. ASSUME NEW j \in Int, Len(index) <= AtLeastOne(j) /\ Len(index) <= AtLeastOne(k)
        PROVE  near(j) = near(k)
    BY <1>6, <2>1
  <2> HIDE DEF near
  <2> QED BY <2>1 DEF known
<1> HIDE DEF hits
<1>10. /\ <<>> \in HitSeqs
       /\ \A j \in Int : hits(j) \in HitSeqs /\ Ranked(hits(j)) \in HitSeqs
  <2>1. <<>> \in HitSeqs
    BY DEF HitSeqs, Distinct
  <2> QED BY <1>8, <2>1, RankedFirst
<1> QED BY <1>4, <1>9, <1>10
-----------------------------------------------------------------------------
(* The pipeline of search_corpus, step by step. *)

LEMMA HitsOf ==
  ASSUME NEW hits \in HitSeqs
  PROVE  /\ hits \in Seq(Hits) /\ Len(hits) \in Nat /\ DOMAIN hits = 1..Len(hits)
         /\ \A n \in 1..Len(hits) : hits[n] \in Hits
         /\ \A m, n \in 1..Len(hits) : hits[m].id = hits[n].id => m = n
  BY DEF HitSeqs, Distinct

\* Code: filter_hits_by_metadata.
LEMMA FilteredIs ==
  ASSUME NEW hits \in HitSeqs, NEW o \in Options
  PROVE  /\ Filtered(hits, o) \in HitSeqs /\ Within(Filtered(hits, o), hits)
         /\ o.entity # Unset =>
              \A n \in 1..Len(Filtered(hits, o)) : Filtered(hits, o)[n].entity = o.entity
         /\ \A m \in 1..Len(hits) : o.entity = Unset \/ hits[m].entity = o.entity =>
              \E n \in 1..Len(Filtered(hits, o)) : Filtered(hits, o)[n] = hits[m]
<1>1. hits \in Seq(Hits) /\ Distinct(hits, "id") /\ DOMAIN hits = 1..Len(hits)
  BY HitsOf DEF HitSeqs
<1>2. CASE o.entity = Unset
  BY <1>1, <1>2 DEF Filtered, Within
<1>3. CASE o.entity # Unset
  <2> DEFINE P == {n \in DOMAIN hits : hits[n].entity = o.entity}
  <2>1. Filtered(hits, o) = Kept(hits, P)
    BY <1>3 DEF Filtered
  <2>2. \A i \in DOMAIN hits : i \in P <=> hits[i].entity = o.entity
    OBVIOUS
  <2>3. P \in SUBSET DOMAIN hits
    OBVIOUS
  <2> HIDE DEF P
  <2>4. /\ Kept(hits, P) \in HitSeqs
        /\ \A n \in 1..Len(Kept(hits, P)) : \E i \in P : Kept(hits, P)[n] = hits[i]
        /\ \A i \in P : \E n \in 1..Len(Kept(hits, P)) : Kept(hits, P)[n] = hits[i]
    BY <1>1, <2>3, KeptHits DEF HitSeqs
  <2>5. Within(Kept(hits, P), hits)
    BY <1>1, <2>3, <2>4 DEF Within
  <2>6. \A n \in 1..Len(Kept(hits, P)) : Kept(hits, P)[n].entity = o.entity
    BY <2>2, <2>3, <2>4
  <2>7. \A m \in 1..Len(hits) : hits[m].entity = o.entity =>
          \E n \in 1..Len(Kept(hits, P)) : Kept(hits, P)[n] = hits[m]
    BY <1>1, <2>2, <2>4
  <2> QED BY <1>3, <2>1, <2>4, <2>5, <2>6, <2>7
<1> QED BY <1>2, <1>3

\* Hits of different ids are all the best of their id.
LEMMA BestByIdIs ==
  ASSUME NEW hits \in HitSeqs
  PROVE  BestById(hits) = hits
<1> DEFINE Of(n) == {m \in DOMAIN hits : hits[m].id = hits[n].id}
           best == [n \in DOMAIN hits |->
                      hits[CHOOSE m \in Of(n) : \A l \in Of(n) \ {m} : <<m, l>> \in Ranking(hits)]]
           P == {n \in DOMAIN hits : \A m \in Of(n) : n <= m}
<1>1. /\ hits \in Seq(Hits) /\ Len(hits) \in Nat /\ DOMAIN hits = 1..Len(hits)
      /\ \A m, n \in 1..Len(hits) : hits[m].id = hits[n].id => m = n
  BY HitsOf
<1>2. \A n \in DOMAIN hits : Of(n) = {n}
  BY <1>1
<1>3. BestById(hits) = Kept(best, P)
  BY DEF BestById
<1> HIDE DEF Of
<1>4. best = hits
  <2>1. ASSUME NEW n \in DOMAIN hits PROVE best[n] = hits[n]
    <3>1. \A m \in Of(n) : m = n /\ Of(n) \ {m} = {}
      BY <1>2, <2>1
    <3>2. n \in Of(n)
      BY <1>2, <2>1
    <3>3. (CHOOSE m \in Of(n) : \A l \in Of(n) \ {m} : <<m, l>> \in Ranking(hits)) \in Of(n)
      BY <3>1, <3>2
    <3>4. (CHOOSE m \in Of(n) : \A l \in Of(n) \ {m} : <<m, l>> \in Ranking(hits)) = n
      BY <3>1, <3>3
    <3> QED BY <2>1, <3>4
  <2>2. best = [n \in DOMAIN hits |-> best[n]] /\ hits = [n \in DOMAIN hits |-> hits[n]]
    BY <1>1
  <2> HIDE DEF best
  <2> QED BY <2>1, <2>2
<1>5. P = DOMAIN hits
  BY <1>1, <1>2
<1> HIDE DEF P, best
<1> QED BY <1>1, <1>3, <1>4, <1>5, KeptHits

Alike(h, g) == h.id = g.id /\ h.text = g.text /\ h.entity = g.entity /\ h.sig = g.sig

LEMMA AlikeSignature == ASSUME NEW h, NEW g, Alike(h, g) PROVE Signature(h) = Signature(g)
  BY DEF Alike, Signature

\* What is kept of the hits found: each one of theirs, with the number of them that have
\* its action, and no action twice.
Carried(hits, found, o) ==
  /\ hits \in HitSeqs
  /\ \A n \in 1..Len(hits) : \E m \in 1..Len(found) :
       /\ Alike(hits[n], found[m])
       /\ o.dedupe => hits[n].occurrences = Cardinality(Same(found, m))
  /\ o.dedupe => \A m, n \in 1..Len(hits) : Signature(hits[m]) = Signature(hits[n]) => m = n
Complete(hits, found, o) ==
  o.dedupe => \A m \in 1..Len(found) : \E n \in 1..Len(hits) :
                Signature(hits[n]) = Signature(found[m])

LEMMA CarriedWithin ==
  ASSUME NEW found, NEW o, NEW hits, NEW kept \in HitSeqs, Carried(hits, found, o),
         Within(kept, hits)
  PROVE  /\ Carried(kept, found, o)
         /\ Complete(hits, found, o) /\ Within(hits, kept) => Complete(kept, found, o)
<1>1. \A m, n \in 1..Len(kept) : kept[m] = kept[n] => m = n
  BY HitsOf
<1>2. \A n \in 1..Len(kept) : \E m \in 1..Len(found) :
        /\ Alike(kept[n], found[m])
        /\ o.dedupe => kept[n].occurrences = Cardinality(Same(found, m))
  BY DEF Carried, Within
<1>3. ASSUME o.dedupe, NEW m \in 1..Len(kept), NEW n \in 1..Len(kept),
             Signature(kept[m]) = Signature(kept[n])
      PROVE  m = n
  <2>1. PICK i \in 1..Len(hits) : kept[m] = hits[i]
    BY DEF Within
  <2>2. PICK j \in 1..Len(hits) : kept[n] = hits[j]
    BY DEF Within
  <2>3. i = j
    BY <1>3, <2>1, <2>2 DEF Carried
  <2> QED BY <1>1, <2>1, <2>2, <2>3
<1>4. ASSUME Complete(hits, found, o), Within(hits, kept) PROVE Complete(kept, found, o)
  <2>1. \A i \in 1..Len(hits) : \E n \in 1..Len(kept) : kept[n] = hits[i]
    BY <1>4 DEF Within
  <2>2. SUFFICES ASSUME o.dedupe, NEW m \in 1..Len(found)
                 PROVE  \E n \in 1..Len(kept) : Signature(kept[n]) = Signature(found[m])
    BY DEF Complete
  <2>3. PICK i \in 1..Len(hits) : Signature(hits[i]) = Signature(found[m])
    BY <1>4, <2>2 DEF Complete
  <2>4. PICK n \in 1..Len(kept) : kept[n] = hits[i]
    BY <2>1
  <2> QED BY <2>3, <2>4
<1> QED BY <1>2, <1>3, <1>4 DEF Carried

\* Code: dedupe_retrieval_hits, by action.
LEMMA FirstByActionIs ==
  ASSUME NEW hits \in HitSeqs, NEW o
  PROVE  Carried(FirstByAction(hits), hits, o) /\ Complete(FirstByAction(hits), hits, o)
<1> DEFINE entry(n) ==
             [hits[n] EXCEPT
                !.occurrences = Cardinality(Same(hits, n)),
                !.others = {hits[m].entity : m \in Same(hits, n) \ {n}} \ {Unset}]
           counted == [n \in DOMAIN hits |-> entry(n)]
           P == {n \in DOMAIN hits : \A m \in Same(hits, n) : n <= m}
           firsts == FirstByAction(hits)
<1>1. /\ hits \in Seq(Hits) /\ Len(hits) \in Nat /\ DOMAIN hits = 1..Len(hits)
      /\ \A n \in 1..Len(hits) : hits[n] \in Hits
      /\ \A m, n \in 1..Len(hits) : hits[m].id = hits[n].id => m = n
  BY HitsOf
<1>2. \A m, n \in 1..Len(hits) : m \in Same(hits, n) <=> Signature(hits[m]) = Signature(hits[n])
  BY <1>1 DEF Same
<1>3. \A n : Same(hits, n) \in SUBSET (1..Len(hits))
  BY <1>1 DEF Same
<1>4. firsts = Kept(counted, P)
  BY DEF FirstByAction
<1>5. ASSUME NEW n \in 1..Len(hits)
      PROVE  /\ entry(n) \in Hits /\ Alike(entry(n), hits[n])
             /\ entry(n).occurrences = Cardinality(Same(hits, n))
  <2>1. Cardinality(Same(hits, n)) \in Nat
    <3>1. IsFiniteSet(1..Len(hits))
      BY <1>1, UpTo
    <3>2. IsFiniteSet(Same(hits, n))
      BY <1>3, <3>1, FS_Subset
    <3> QED BY <3>2, FS_CardinalityType
  <2> DEFINE others == {hits[m].entity : m \in Same(hits, n) \ {n}} \ {Unset}
  <2>2. others \in SUBSET Values("entity")
    BY <1>1, <1>3 DEF Hits
  <2>3. entry(n) = [hits[n] EXCEPT !.occurrences = Cardinality(Same(hits, n)), !.others = others]
    OBVIOUS
  <2> HIDE DEF others, entry
  <2> QED BY <1>1, <2>1, <2>2, <2>3 DEF Hits, Alike
<1> HIDE DEF entry
<1>6. /\ counted \in Seq(Hits) /\ Len(counted) = Len(hits)
      /\ \A n \in 1..Len(hits) : counted[n] = entry(n)
  BY <1>1, <1>5
<1>7. Distinct(counted, "id")
  <2>1. \A n \in 1..Len(hits) : counted[n].id = hits[n].id
    BY <1>5, <1>6 DEF Alike
  <2> QED BY <1>1, <1>6, <2>1 DEF Distinct
<1>8. /\ P \in SUBSET (1..Len(hits))
      /\ \A i \in 1..Len(hits) : i \in P <=> \A m \in Same(hits, i) : i <= m
  BY <1>1
<1>9. P \in SUBSET DOMAIN counted
  BY <1>1
<1> HIDE DEF counted, P, firsts
<1>10. /\ firsts \in HitSeqs
       /\ \A n \in 1..Len(firsts) : \E i \in P : firsts[n] = entry(i)
       /\ \A i \in P : \E n \in 1..Len(firsts) : firsts[n] = entry(i)
  <2>1. /\ firsts \in HitSeqs
        /\ \A n \in 1..Len(firsts) : \E i \in P : firsts[n] = counted[i]
        /\ \A i \in P : \E n \in 1..Len(firsts) : firsts[n] = counted[i]
    BY <1>4, <1>6, <1>7, <1>9, KeptHits DEF HitSeqs
  <2> QED BY <1>6, <1>8, <2>1
<1>11. \A n \in 1..Len(hits) : Signature(entry(n)) = Signature(hits[n])
  BY <1>5, AlikeSignature
<1>12. \A i, j \in P : Signature(hits[i]) = Signature(hits[j]) => i = j
  <2>1. \A i, j \in P : Signature(hits[i]) = Signature(hits[j]) => i <= j /\ j <= i
    BY <1>2, <1>8
  <2>2. \A i \in P : i \in Int
    BY <1>1, <1>8
  <2> QED BY <2>1, <2>2
<1>13. ASSUME NEW m \in 1..Len(firsts), NEW n \in 1..Len(firsts),
              Signature(firsts[m]) = Signature(firsts[n])
       PROVE  m = n
  <2>1. PICK i \in P : firsts[m] = entry(i)
    BY <1>10
  <2>2. PICK j \in P : firsts[n] = entry(j)
    BY <1>10
  <2>3. i = j
    BY <1>8, <1>11, <1>12, <1>13, <2>1, <2>2
  <2> QED BY <1>10, <2>1, <2>2, <2>3, HitsOf
<1>14. \A n \in 1..Len(firsts) : \E m \in 1..Len(hits) :
         Alike(firsts[n], hits[m]) /\ firsts[n].occurrences = Cardinality(Same(hits, m))
  BY <1>5, <1>8, <1>10
<1>15. ASSUME NEW m \in 1..Len(hits)
       PROVE  \E n \in 1..Len(firsts) : Signature(firsts[n]) = Signature(hits[m])
  <2>1. m \in Same(hits, m) /\ Same(hits, m) \in SUBSET Nat
    BY <1>1, <1>2, <1>3
  <2>2. PICK i \in Same(hits, m) : \A k \in Same(hits, m) : i <= k
    BY <2>1, LeastNat
  <2>3. i \in 1..Len(hits) /\ Signature(hits[i]) = Signature(hits[m])
    BY <1>2, <1>3, <2>2
  <2>4. \A k \in Same(hits, i) : k \in Same(hits, m)
    BY <1>2, <1>3, <2>3
  <2>5. i \in P
    BY <1>8, <2>2, <2>3, <2>4
  <2>6. PICK n \in 1..Len(firsts) : firsts[n] = entry(i)
    BY <1>10, <2>5
  <2> QED BY <1>11, <2>3, <2>6
<1>16. Carried(firsts, hits, o)
  BY <1>10, <1>13, <1>14 DEF Carried
<1>17. Complete(firsts, hits, o)
  BY <1>15 DEF Complete
<1> QED BY <1>16, <1>17 DEF firsts

LEMMA DedupedIs ==
  ASSUME NEW hits \in HitSeqs, NEW o
  PROVE  Carried(Deduped(hits, o), hits, o) /\ Complete(Deduped(hits, o), hits, o)
<1>1. CASE o.dedupe
  <2>1. Deduped(hits, o) = FirstByAction(hits)
    BY <1>1, BestByIdIs DEF Deduped
  <2> QED BY <2>1, FirstByActionIs
<1>2. CASE ~o.dedupe
  BY <1>2 DEF Deduped, Carried, Complete, Alike
<1> QED BY <1>1, <1>2

\* Code: apply_status_boost.
LEMMA BoostedIs ==
  ASSUME NEW hits, NEW found, NEW o, Carried(hits, found, o), Complete(hits, found, o)
  PROVE  /\ Carried(Boosted(hits, o), found, o) /\ Complete(Boosted(hits, o), found, o)
         /\ o.boost => \A m, n \in 1..Len(Boosted(hits, o)) :
              m <= n => Boosted(hits, o)[m].score >= Boosted(hits, o)[n].score
<1>1. CASE ~o.boost
  BY <1>1 DEF Boosted
<1>2. CASE o.boost
  <2> DEFINE entry(h) == [h EXCEPT !.score = @ + StatusBoost(h.status)]
             raised == [n \in DOMAIN hits |-> entry(hits[n])]
  <2>1. /\ hits \in HitSeqs /\ Len(hits) \in Nat /\ DOMAIN hits = 1..Len(hits)
        /\ \A n \in 1..Len(hits) : hits[n] \in Hits
        /\ \A m, n \in 1..Len(hits) : hits[m].id = hits[n].id => m = n
    BY HitsOf DEF Carried
  <2>2. ASSUME NEW h \in Hits
        PROVE  /\ entry(h) \in Hits /\ Alike(entry(h), h)
               /\ entry(h).occurrences = h.occurrences
    <3>1. StatusBoost(h.status) \in Int
      BY DEF StatusBoost
    <3> QED BY <3>1 DEF Hits, Alike
  <2> HIDE DEF entry
  <2>3. /\ raised \in Seq(Hits) /\ Len(raised) = Len(hits)
        /\ \A n \in 1..Len(hits) : raised[n] = entry(hits[n])
    BY <2>1, <2>2
  <2>4. Boosted(hits, o) = Ranked(raised)
    BY <1>2 DEF Boosted, entry
  <2> HIDE DEF raised
  <2>5. /\ \A n \in 1..Len(hits) : /\ Alike(raised[n], hits[n])
                                   /\ raised[n].occurrences = hits[n].occurrences
                                   /\ Signature(raised[n]) = Signature(hits[n])
    BY <2>1, <2>2, <2>3, AlikeSignature
  <2>6. Distinct(raised, "id")
    BY <2>1, <2>3, <2>5 DEF Distinct, Alike
  <2>7. Carried(raised, found, o)
    <3>1. raised \in HitSeqs
      BY <2>3, <2>6 DEF HitSeqs
    <3>2. \A n \in 1..Len(raised) : \E m \in 1..Len(found) :
            /\ Alike(raised[n], found[m])
            /\ o.dedupe => raised[n].occurrences = Cardinality(Same(found, m))
      BY <2>3, <2>5 DEF Carried, Alike
    <3>3. o.dedupe => \A m, n \in 1..Len(raised) :
            Signature(raised[m]) = Signature(raised[n]) => m = n
      BY <2>3, <2>5 DEF Carried
    <3> QED BY <3>1, <3>2, <3>3 DEF Carried
  <2>8. Complete(raised, found, o)
    BY <2>3, <2>5 DEF Complete
  <2>9. /\ Ranked(raised) \in HitSeqs /\ Len(Ranked(raised)) = Len(raised)
        /\ Within(Ranked(raised), raised) /\ Within(raised, Ranked(raised))
        /\ \A m, n \in 1..Len(raised) : m <= n => Ranked(raised)[m].score >= Ranked(raised)[n].score
    <3>1. \A i \in DOMAIN raised : raised[i].score \in Int
      BY <2>3, HitScores
    <3> QED BY <2>3, <2>6, <3>1, RankedHits DEF HitSeqs
  <2> QED BY <2>4, <2>7, <2>8, <2>9, CarriedWithin
<1> QED BY <1>1, <1>2

\* Code: search_corpus, after the back end.
LEMMA AnswerIs ==
  ASSUME NEW hits \in HitSeqs, NEW o \in Options
  PROVE  /\ Carried(Answer(hits, o), Filtered(hits, o), o)
         /\ Len(Answer(hits, o)) <= AtLeastOne(o.k)
         /\ Len(Answer(hits, o)) < AtLeastOne(o.k) => Complete(Answer(hits, o), Filtered(hits, o), o)
         /\ o.boost => \A m, n \in 1..Len(Answer(hits, o)) :
              m <= n => Answer(hits, o)[m].score >= Answer(hits, o)[n].score
<1> DEFINE found == Filtered(hits, o)
           all == Boosted(Deduped(found, o), o)
<1>1. found \in HitSeqs /\ o.k \in Int
  BY FilteredIs, SearchAssumption
<1> HIDE DEF found
<1>2. Carried(Deduped(found, o), found, o) /\ Complete(Deduped(found, o), found, o)
  BY <1>1, DedupedIs
<1>3. /\ Carried(all, found, o) /\ Complete(all, found, o)
      /\ o.boost => \A m, n \in 1..Len(all) : m <= n => all[m].score >= all[n].score
  BY <1>2, BoostedIs
<1>4. Answer(hits, o) = First(all, o.k)
  BY DEF Answer, found
<1> HIDE DEF all
<1>5. all \in HitSeqs /\ all \in Seq(Hits) /\ Len(all) \in Nat
  BY <1>3 DEF Carried, HitSeqs
<1>6. /\ First(all, o.k) \in HitSeqs /\ Within(First(all, o.k), all)
      /\ Len(First(all, o.k)) <= AtLeastOne(o.k) /\ Len(First(all, o.k)) <= Len(all)
      /\ \A n \in 1..Len(First(all, o.k)) : First(all, o.k)[n] = all[n]
      /\ Len(First(all, o.k)) < AtLeastOne(o.k) => First(all, o.k) = all
  BY <1>1, <1>5, FirstIs, FirstHits, RankedFirst
<1>7. Carried(First(all, o.k), found, o)
  BY <1>3, <1>6, CarriedWithin
<1>8. Len(First(all, o.k)) < AtLeastOne(o.k) => Complete(First(all, o.k), found, o)
  BY <1>3, <1>6
<1>9. ASSUME o.boost, NEW m \in 1..Len(First(all, o.k)), NEW n \in 1..Len(First(all, o.k)), m <= n
      PROVE  First(all, o.k)[m].score >= First(all, o.k)[n].score
  <2>1. Len(First(all, o.k)) \in Nat
    BY <1>6 DEF HitSeqs
  <2>2. m \in 1..Len(all) /\ n \in 1..Len(all)
    BY <1>5, <1>6, <2>1
  <2> QED BY <1>3, <1>6, <1>9, <2>2
<1> QED BY <1>4, <1>6, <1>7, <1>8, <1>9 DEF found

\* The ids of the wanted ones of the hits that have the action of h.
WithAction(hits, o, h) ==
  LET wanted == {n \in DOMAIN hits : o.entity = Unset \/ hits[n].entity = o.entity}
  IN  {hits[n].id : n \in {m \in wanted : Signature(hits[m]) = Signature(h)}}

\* How often an action is counted is how many ids of the rows found have it.
LEMMA CountedIs ==
  ASSUME NEW hits \in HitSeqs, NEW o \in Options, NEW h, NEW m \in 1..Len(Filtered(hits, o)),
         Alike(h, Filtered(hits, o)[m])
  PROVE  Cardinality(WithAction(hits, o, h)) = Cardinality(Same(Filtered(hits, o), m))
<1> DEFINE found == Filtered(hits, o)
           Of == WithAction(hits, o, h)
           same == Same(found, m)
           idOf == [n \in same |-> found[n].id]
<1>1. /\ Len(hits) \in Nat /\ DOMAIN hits = 1..Len(hits)
      /\ \A i, j \in 1..Len(hits) : hits[i].id = hits[j].id => i = j
  BY HitsOf
<1>2. /\ found \in HitSeqs /\ \A n \in 1..Len(found) : \E i \in 1..Len(hits) : found[n] = hits[i]
      /\ o.entity # Unset => \A n \in 1..Len(found) : found[n].entity = o.entity
      /\ \A i \in 1..Len(hits) : o.entity = Unset \/ hits[i].entity = o.entity =>
           \E n \in 1..Len(found) : found[n] = hits[i]
  BY FilteredIs DEF Within
<1>3. Signature(h) = Signature(found[m])
  BY AlikeSignature
<1>4. \A id : id \in Of <=> \E n \in 1..Len(hits) :
        /\ o.entity = Unset \/ hits[n].entity = o.entity
        /\ Signature(hits[n]) = Signature(h) /\ hits[n].id = id
  BY <1>1 DEF WithAction
<1> HIDE DEF found, Of
<1>5. /\ Len(found) \in Nat /\ DOMAIN found = 1..Len(found)
      /\ \A i, j \in 1..Len(found) : found[i].id = found[j].id => i = j
  BY <1>2, HitsOf
<1>6. \A n : n \in same <=> n \in 1..Len(found) /\ Signature(found[n]) = Signature(h)
  BY <1>3, <1>5 DEF Same
<1> HIDE DEF same
<1>7. \A n \in same : found[n].id \in Of
  <2>1. SUFFICES ASSUME NEW n \in same PROVE found[n].id \in Of
    OBVIOUS
  <2>2. PICK i \in 1..Len(hits) : found[n] = hits[i]
    BY <1>2, <1>6
  <2>3. /\ o.entity = Unset \/ hits[i].entity = o.entity
        /\ Signature(hits[i]) = Signature(h) /\ hits[i].id = found[n].id
    BY <1>2, <1>6, <2>2
  <2> QED BY <1>4, <2>3
<1>8. \A id \in Of : \E n \in same : found[n].id = id
  <2>1. SUFFICES ASSUME NEW id \in Of PROVE \E n \in same : found[n].id = id
    OBVIOUS
  <2>2. PICK i \in 1..Len(hits) :
          /\ o.entity = Unset \/ hits[i].entity = o.entity
          /\ Signature(hits[i]) = Signature(h) /\ hits[i].id = id
    BY <1>4
  <2>3. PICK n \in 1..Len(found) : found[n] = hits[i]
    BY <1>2, <2>2
  <2> QED BY <1>6, <2>2, <2>3
<1>9. idOf \in Bijection(same, Of)
  <2>1. idOf \in [same -> Of] /\ \A n \in same : idOf[n] = found[n].id
    BY <1>7
  <2>2. \A i, j \in same : idOf[i] = idOf[j] => i = j
    BY <1>5, <1>6, <2>1
  <2>3. \A id \in Of : \E n \in same : idOf[n] = id
    BY <1>8, <2>1
  <2> HIDE DEF idOf
  <2> QED BY <2>1, <2>2, <2>3 DEF Bijection, Injection, Surjection, IsInjective
<1>10. IsFiniteSet(same)
  <2>1. IsFiniteSet(1..Len(found)) /\ same \in SUBSET (1..Len(found))
    BY <1>5, <1>6, UpTo
  <2> QED BY <2>1, FS_Subset
<1>11. Cardinality(Of) = Cardinality(same)
  BY <1>9, <1>10, FS_Bijection DEF ExistsBijection
<1> QED BY <1>11 DEF found, same, Of

\* Code: format_hits_as_context, which stops before a hit that does not fit.
LEMMA ContextFits ==
  ASSUME NEW hits \in Seq(Hits)
  PROVE  Used(ContextOf(hits)) <= MaxChars
<1> DEFINE fit == {n \in 0..Len(hits) : Used(SubSeq(hits, 1, n)) <= MaxChars}
<1>1. Len(hits) \in Nat /\ MaxChars \in Nat
  BY SearchAssumption
<1>2. 0 \in fit
  <2>1. SubSeq(hits, 1, 0) = <<>>
    OBVIOUS
  <2>2. Used(<<>>) = 0
    <3> DEFINE made(f) == [n \in 0..0 |-> IF n = 0 THEN 0 ELSE f[n - 1] + Size[<<>>[n].text]]
               used == CHOOSE f : f = made(f)
    <3>1. \E f : f = made(f)
      <4>1. [n \in 0..0 |-> 0] = made([n \in 0..0 |-> 0])
        OBVIOUS
      <4> QED BY <4>1
    <3>2. used = made(used)
      BY <3>1
    <3> HIDE DEF used
    <3>3. used[0] = 0
      BY <3>2
    <3>4. Len(<<>>) = 0
      OBVIOUS
    <3>5. Used(<<>>) = used[0]
      BY <3>4 DEF Used, used
    <3> QED BY <3>3, <3>5
  <2>3. Used(SubSeq(hits, 1, 0)) = 0
    BY <2>1, <2>2, Zenon
  <2>4. 0 \in 0..Len(hits) /\ Used(SubSeq(hits, 1, 0)) <= MaxChars
    BY <1>1, <2>3
  <2> QED BY <2>4
<1>3. \E n \in fit : \A m \in fit : m <= n
  <2> DEFINE T == {Len(hits) - n : n \in fit}
  <2>1. T \in SUBSET Nat /\ T # {}
    BY <1>1, <1>2
  <2>2. \A n \in fit : n \in Int /\ Len(hits) - n \in T
    BY <1>1
  <2>3. \A t \in T : \E n \in fit : t = Len(hits) - n
    OBVIOUS
  <2> HIDE DEF T, fit
  <2>4. PICK t \in T : \A k \in T : t <= k
    BY <2>1, LeastNat
  <2>5. PICK n \in fit : t = Len(hits) - n
    BY <2>3
  <2>6. \A m \in fit : m <= n
    BY <1>1, <2>2, <2>4, <2>5
  <2> QED BY <2>6
<1> DEFINE last == CHOOSE n \in fit : \A m \in fit : m <= n
<1>4. last \in fit
  BY <1>3
<1>5. ContextOf(hits) = SubSeq(hits, 1, last)
  BY DEF ContextOf
<1> HIDE DEF last
<1> QED BY <1>4, <1>5
-----------------------------------------------------------------------------
(* The rows of every place have different ids: an upsert replaces the row of its id.    *)

FoundFiles == [index : Seq(Texts) \cup {Bad, Unset}, meta : RowSeqs \cup {Bad, Unset}]
RowsInv ==
  /\ \A place \in DOMAIN docs : docs[place] \in RowSeqs
  /\ \A place \in DOMAIN files : files[place] \in FoundFiles
  /\ DOMAIN job = Writers
  /\ \A w \in Writers : job[w] # Idle =>
       /\ DOMAIN job[w] = {"place", "index", "meta", "rebuilt", "at"}
       /\ job[w].index \in Seq(Texts) /\ job[w].meta \in RowSeqs
  /\ default.kind \in BackEnds \cup {"refused"}

LEMMA RowsOf ==
  ASSUME NEW rows \in RowSeqs
  PROVE  /\ rows \in Seq(Rows) /\ Len(rows) \in Nat /\ DOMAIN rows = 1..Len(rows)
         /\ \A n \in 1..Len(rows) : rows[n] \in Rows
         /\ \A m, n \in 1..Len(rows) : rows[m].id = rows[n].id => m = n
  BY DEF RowSeqs, Distinct

LEMMA NoRows == <<>> \in RowSeqs
  BY DEF RowSeqs, Distinct

LEMMA AppendRows ==
  ASSUME NEW rows \in RowSeqs, NEW row \in Rows, \A n \in 1..Len(rows) : rows[n].id # row.id
  PROVE  Append(rows, row) \in RowSeqs
<1> DEFINE longer == Append(rows, row)
<1>1. /\ longer \in Seq(Rows) /\ Len(longer) = Len(rows) + 1 /\ Len(rows) \in Nat
      /\ \A n \in 1..Len(longer) : longer[n] = IF n = Len(rows) + 1 THEN row ELSE rows[n]
  BY RowsOf
<1> HIDE DEF longer
<1>2. ASSUME NEW m \in 1..Len(longer), NEW n \in 1..Len(longer), longer[m].id = longer[n].id
      PROVE  m = n
  <2>1. \A i \in 1..Len(longer) : i # Len(rows) + 1 =>
          i \in 1..Len(rows) /\ longer[i].id = rows[i].id
    BY <1>1
  <2>2. \A i \in 1..Len(longer) : i = Len(rows) + 1 => longer[i].id = row.id
    BY <1>1
  <2>3. CASE m = Len(rows) + 1 \/ n = Len(rows) + 1
    BY <1>2, <2>1, <2>2, <2>3
  <2>4. CASE m # Len(rows) + 1 /\ n # Len(rows) + 1
    BY <1>2, <2>1, <2>4, RowsOf
  <2> QED BY <2>3, <2>4
<1> QED BY <1>1, <1>2 DEF RowSeqs, Distinct, longer

\* Code: upsert of a bag or a service.
LEMMA PutRows ==
  ASSUME NEW rows \in RowSeqs, NEW row \in Rows
  PROVE  Put(rows, row) \in RowSeqs
<1>1. /\ rows \in Seq(Rows) /\ Len(rows) \in Nat /\ DOMAIN rows = 1..Len(rows)
      /\ \A n \in 1..Len(rows) : rows[n] \in Rows
      /\ \A m, n \in 1..Len(rows) : rows[m].id = rows[n].id => m = n
  BY RowsOf
<1>2. CASE \E n \in DOMAIN rows : rows[n].id = row.id
  <2>1. Put(rows, row) = [n \in 1..Len(rows) |-> IF rows[n].id = row.id THEN row ELSE rows[n]]
    BY <1>1, <1>2 DEF Put
  <2>2. Put(rows, row) \in Seq(Rows) /\ Len(Put(rows, row)) = Len(rows)
    BY <1>1, <2>1
  <2>3. \A n \in 1..Len(rows) : Put(rows, row)[n].id = rows[n].id
    BY <2>1
  <2> QED BY <1>1, <2>2, <2>3 DEF RowSeqs, Distinct
<1>3. CASE ~\E n \in DOMAIN rows : rows[n].id = row.id
  BY <1>1, <1>3, AppendRows DEF Put
<1> QED BY <1>2, <1>3

\* Code: the list comprehension over the rows of other ids; it leaves all only when no
\* row has the id.
LEMMA WithoutRows ==
  ASSUME NEW rows \in Seq(Rows), NEW id
  PROVE  /\ Without(rows, id) \in Seq(Rows)
         /\ rows \in RowSeqs => Without(rows, id) \in RowSeqs
         /\ Len(Without(rows, id)) = Len(rows) => \A n \in 1..Len(rows) : rows[n].id # id
<1> DEFINE P == {n \in DOMAIN rows : rows[n].id # id}
<1>1. Without(rows, id) = Kept(rows, P)
  BY DEF Without
<1>2. Len(rows) \in Nat /\ P \in SUBSET (1..Len(rows)) /\ P \in SUBSET DOMAIN rows
  OBVIOUS
<1>3. \A n \in P : rows[n].id # id
  OBVIOUS
<1> HIDE DEF P
<1>4. Kept(rows, P) \in Seq(Rows) /\ (Distinct(rows, "id") => Distinct(Kept(rows, P), "id"))
  BY <1>2, KeptHits
<1>5. ASSUME Len(Kept(rows, P)) = Len(rows) PROVE P = 1..Len(rows)
  <2>1. PICK at \in [1..Cardinality(P) -> P] :
          Cardinality(P) \in Nat /\ Kept(rows, P) = [n \in 1..Cardinality(P) |-> rows[at[n]]]
    BY <1>2, KeptIs
  <2>2. Cardinality(P) = Len(rows)
    <3>1. DOMAIN Kept(rows, P) = 1..Cardinality(P) /\ DOMAIN Kept(rows, P) = 1..Len(rows)
      BY <1>4, <1>5, <2>1
    <3>2. Cardinality(1..Cardinality(P)) = Cardinality(P) /\ Cardinality(1..Len(rows)) = Len(rows)
      BY <1>2, <2>1, UpTo
    <3> QED BY <3>1, <3>2
  <2>3. IsFiniteSet(1..Len(rows)) /\ Cardinality(1..Len(rows)) = Len(rows)
    BY <1>2, UpTo
  <2> QED BY <1>2, <2>2, <2>3, FS_Subset
<1> QED BY <1>1, <1>3, <1>4, <1>5 DEF RowSeqs

\* What a search reads, whatever writers do at the place.
LEMMA RowsRead ==
  ASSUME RowsInv, NEW place
  PROVE  /\ RowsAt(place) \in RowSeqs
         /\ Readable(place) => Load(place).index \in Seq(Texts) /\ Load(place).meta \in RowSeqs
<1>1. RowsAt(place) \in RowSeqs
  BY NoRows DEF RowsInv, RowsAt
<1>2. ASSUME Readable(place) PROVE Load(place).index \in Seq(Texts) /\ Load(place).meta \in RowSeqs
  <2>1. CASE Unset \in {FilesAt(place).index, FilesAt(place).meta}
    BY <2>1, NoRows DEF Load
  <2>2. CASE Unset \notin {FilesAt(place).index, FilesAt(place).meta}
    <3>1. place \in DOMAIN files
      BY <2>2 DEF FilesAt
    <3>2. Load(place) = files[place] /\ FilesAt(place) = files[place] /\ files[place] \in FoundFiles
      BY <2>2, <3>1 DEF Load, FilesAt, RowsInv
    <3> QED BY <1>2, <2>2, <3>2 DEF Readable, FoundFiles
  <2> QED BY <2>1, <2>2
<1> QED BY <1>1, <1>2

LEMMA VectorsOf ==
  ASSUME NEW rows \in Seq(Rows)
  PROVE  /\ Vectors(rows) \in Seq(Texts)
         /\ \A row \in Rows : Vectors(Append(rows, row)) = Append(Vectors(rows), row.text)
<1>1. Len(rows) \in Nat /\ DOMAIN rows = 1..Len(rows) /\ \A n \in 1..Len(rows) : rows[n] \in Rows
  OBVIOUS
<1>2. Vectors(rows) = [n \in 1..Len(rows) |-> rows[n].text]
  BY <1>1 DEF Vectors
<1>3. Vectors(rows) \in Seq(Texts) /\ Len(Vectors(rows)) = Len(rows)
  BY <1>1, <1>2 DEF Texts
<1>4. ASSUME NEW row \in Rows
      PROVE  Vectors(Append(rows, row)) = Append(Vectors(rows), row.text)
  <2> DEFINE longer == Append(rows, row)
             other == Append(Vectors(rows), row.text)
  <2>1. /\ longer \in Seq(Rows) /\ DOMAIN longer = 1..(Len(rows) + 1)
        /\ \A n \in 1..(Len(rows) + 1) :
             longer[n] = IF n = Len(rows) + 1 THEN row ELSE rows[n]
    BY <1>1
  <2>2. row.text \in Texts
    BY DEF Texts
  <2> HIDE DEF longer
  <2>3. Vectors(longer) = [n \in 1..(Len(rows) + 1) |-> longer[n].text]
    BY <2>1 DEF Vectors
  <2>4. /\ other \in Seq(Texts) /\ DOMAIN other = 1..(Len(rows) + 1)
        /\ \A n \in 1..(Len(rows) + 1) :
             other[n] = IF n = Len(rows) + 1 THEN row.text ELSE Vectors(rows)[n]
    BY <1>1, <1>3, <2>2
  <2> HIDE DEF other
  <2>5. ASSUME NEW n \in 1..(Len(rows) + 1) PROVE other[n] = longer[n].text
    <3>1. CASE n = Len(rows) + 1
      BY <2>1, <2>4, <3>1
    <3>2. CASE n # Len(rows) + 1
      <4>1. n \in 1..Len(rows)
        BY <1>1, <3>2
      <4>2. Vectors(rows)[n] = rows[n].text
        BY <1>2, <4>1
      <4>3. other[n] = Vectors(rows)[n] /\ longer[n] = rows[n]
        BY <2>1, <2>4, <3>2
      <4> QED BY <4>2, <4>3
    <3> QED BY <3>1, <3>2
  <2>6. other = [n \in 1..(Len(rows) + 1) |-> other[n]]
    BY <2>4
  <2>7. Vectors(longer) = other
    BY <2>3, <2>5, <2>6
  <2> QED BY <2>7 DEF longer, other
<1> QED BY <1>3, <1>4

LEMMA BeginRows ==
  ASSUME RowsInv, NEW w \in Writers, NEW place, NEW index \in Seq(Texts), NEW rows \in RowSeqs,
         NEW rebuilt, Begin(w, place, index, rows, rebuilt), UNCHANGED default
  PROVE  RowsInv'
<1>1. /\ UNCHANGED <<docs, files>> /\ DOMAIN job' = Writers
      /\ \A u \in Writers : u # w => job'[u] = job[u]
      /\ job'[w] = [place |-> place, index |-> index, meta |-> rows,
                    rebuilt |-> rebuilt, at |-> "index"]
  BY DEF Begin, RowsInv
<1>2. ASSUME NEW u \in Writers, job'[u] # Idle
      PROVE  /\ DOMAIN job'[u] = {"place", "index", "meta", "rebuilt", "at"}
             /\ job'[u].index \in Seq(Texts) /\ job'[u].meta \in RowSeqs
  <2>1. CASE u = w
    BY <1>1, <2>1
  <2>2. CASE u # w
    BY <1>1, <1>2, <2>2 DEF RowsInv
  <2> QED BY <2>1, <2>2
<1> QED BY <1>1, <1>2 DEF RowsInv

LEMMA ChangeRows ==
  ASSUME RowsInv, NEW w \in Writers, NEW place, NEW row \in Rows, UNCHANGED default,
         FaissUpsert(w, place, row) \/ FaissDelete(w, place, row.id)
  PROVE  RowsInv'
<1> DEFINE old == Load(place)
           kept == Without(old.meta, row.id)
           again == Len(kept) # Len(old.meta)
           rows == IF again THEN kept ELSE old.meta
           base == IF again THEN Rebuild(old.index, kept) ELSE old.index
<1>1. old.index \in Seq(Texts) /\ old.meta \in RowSeqs
  BY RowsRead DEF FaissUpsert, FaissDelete
<1>2. /\ kept \in RowSeqs
      /\ ~again => \A n \in 1..Len(old.meta) : old.meta[n].id # row.id
  <2>1. old.meta \in Seq(Rows)
    BY <1>1 DEF RowSeqs
  <2> HIDE DEF old
  <2> QED BY <1>1, <2>1, WithoutRows
<1>3. again => \A n \in 1..Len(kept) : kept[n].id # row.id
  <2> HIDE DEF old
  <2>1. old.meta \in Seq(Rows)
    BY <1>1 DEF RowSeqs
  <2> DEFINE P == {n \in DOMAIN old.meta : old.meta[n].id # row.id}
  <2>2. kept = Kept(old.meta, P) /\ P \in SUBSET DOMAIN old.meta
    BY DEF Without
  <2>3. \A i \in P : old.meta[i].id # row.id
    OBVIOUS
  <2> HIDE DEF P, kept
  <2>4. \A n \in 1..Len(kept) : \E i \in P : kept[n] = old.meta[i]
    BY <2>1, <2>2, KeptHits
  <2> QED BY <2>3, <2>4
<1>4. Vectors(kept) \in Seq(Texts)
  BY <1>2, VectorsOf DEF RowSeqs
<1> HIDE DEF old
<1>5. CASE FaissUpsert(w, place, row)
  <2>1. Begin(w, place, Append(base, row.text), Append(rows, row), again)
    BY <1>5 DEF FaissUpsert, old
  <2> HIDE DEF kept, again
  <2>2. rows \in RowSeqs /\ base \in Seq(Texts) /\ \A n \in 1..Len(rows) : rows[n].id # row.id
    BY <1>1, <1>2, <1>3, <1>4 DEF Rebuild
  <2> HIDE DEF rows, base
  <2>3. row.text \in Texts
    BY DEF Texts
  <2>4. Append(base, row.text) \in Seq(Texts) /\ Append(rows, row) \in RowSeqs
    BY <2>2, <2>3, AppendRows
  <2> QED BY <2>1, <2>4, BeginRows
<1>6. CASE FaissDelete(w, place, row.id)
  <2>1. Begin(w, place, Vectors(kept), kept, TRUE)
    BY <1>6 DEF FaissDelete, Rebuild, old
  <2> HIDE DEF kept
  <2> QED BY <1>2, <1>4, <2>1, BeginRows
<1> QED BY <1>5, <1>6

LEMMA SaveRows ==
  ASSUME RowsInv, NEW w \in Writers, Save(w)
  PROVE  RowsInv'
<1>1. PICK place : place = job[w].place
  OBVIOUS
<1>2. /\ job[w] # Idle /\ DOMAIN job = Writers /\ UNCHANGED <<docs, default>>
      /\ DOMAIN job[w] = {"place", "index", "meta", "rebuilt", "at"}
      /\ job[w].index \in Seq(Texts) /\ job[w].meta \in RowSeqs
  BY DEF Save, RowsInv, registry
<1>3. FilesAt(place) \in FoundFiles
  BY DEF RowsInv, FilesAt, FoundFiles
<1>4. PICK value : \E file \in {"index", "meta"} :
        /\ files' = With(files, place, [FilesAt(place) EXCEPT ![file] = value])
        /\ file = "index" => value \in Seq(Texts) \cup {Bad}
        /\ file = "meta" => value \in RowSeqs \cup {Bad}
  BY <1>1, <1>2 DEF Save
<1>5. PICK new \in FoundFiles : files' = With(files, place, new)
  <2>1. PICK file \in {"index", "meta"} :
          /\ files' = With(files, place, [FilesAt(place) EXCEPT ![file] = value])
          /\ file = "index" => value \in Seq(Texts) \cup {Bad}
          /\ file = "meta" => value \in RowSeqs \cup {Bad}
    BY <1>4
  <2>2. [FilesAt(place) EXCEPT ![file] = value] \in FoundFiles
    BY <1>3, <2>1 DEF FoundFiles
  <2> QED BY <2>1, <2>2
<1>6. \A p \in DOMAIN files' : files'[p] \in FoundFiles
  BY <1>5 DEF With, RowsInv
<1>7. \/ job' = [job EXCEPT ![w] = Idle]
      \/ \E next : job' = [job EXCEPT ![w].at = next]
  BY DEF Save
<1>8. ASSUME NEW u \in Writers, job'[u] # Idle
      PROVE  /\ DOMAIN job'[u] = {"place", "index", "meta", "rebuilt", "at"}
             /\ job'[u].index \in Seq(Texts) /\ job'[u].meta \in RowSeqs
  <2>1. CASE u = w
    BY <1>2, <1>7, <1>8, <2>1
  <2>2. CASE u # w
    BY <1>2, <1>7, <1>8, <2>2 DEF RowsInv
  <2> QED BY <2>1, <2>2
<1>9. DOMAIN job' = Writers
  BY <1>2, <1>7
<1> QED BY <1>2, <1>6, <1>8, <1>9 DEF RowsInv

LEMMA CreateKind ==
  ASSUME NEW kind, NEW at, NEW owner
  PROVE  Create(kind, at, owner).kind \in BackEnds \cup {"refused"}
  BY SearchAssumption DEF Create, Refused

LEMMA InitRows == Init => RowsInv
  BY CreateKind DEF Init, RowsInv

\* Every step keeps the rows of every place apart.
LEMMA RowsStep == RowsInv /\ [Next]_vars => RowsInv'
<1> SUFFICES ASSUME RowsInv, [Next]_vars PROVE RowsInv'
  OBVIOUS
<1>1. ASSUME UNCHANGED <<files, job, default>>, \A p \in DOMAIN docs' : docs'[p] \in RowSeqs
      PROVE  RowsInv'
  BY <1>1 DEF RowsInv
<1>2. CASE UNCHANGED <<docs, files, job, default>>
  BY <1>1, <1>2 DEF RowsInv
<1>3. ASSUME NEW owners PROVE \A p \in DOMAIN NoBag(owners) : NoBag(owners)[p] \in RowSeqs
  BY DEF NoBag, RowsInv
<1>4. ASSUME NEW place, NEW rows \in RowSeqs
      PROVE  \A p \in DOMAIN With(docs, place, rows) : With(docs, place, rows)[p] \in RowSeqs
  BY DEF With, RowsInv
<1>5. ASSUME NEW c \in Corpora,
             \/ \E config \in Configs \cup {Unset} : RegisterCorpus(c, config)
             \/ Search(c)
      PROVE  RowsInv'
  BY <1>2, <1>5 DEF RegisterCorpus, Search
<1>6. ASSUME NEW c \in Corpora, NEW row \in Rows, Upsert(c, row) \/ Delete(c, row.id)
      PROVE  RowsInv'
  <2>1. RowsAt(WritePlace(c)) \in RowSeqs /\ RowsAt(WritePlace(c)) \in Seq(Rows)
    BY RowsRead DEF RowSeqs
  <2>2. PICK rows \in RowSeqs : Write(c, rows)
    BY <1>6, <2>1, PutRows, WithoutRows DEF Upsert, Delete
  <2> QED BY <1>1, <1>4, <2>2 DEF Write
<1>7. ASSUME NEW c \in Corpora, NEW w \in Writers,
             InProcess(w, c) \/ \E row \in Rows : Build(w, c, row)
      PROVE  RowsInv'
  BY <1>7, ChangeRows DEF InProcess, Build, registry
<1>8. CASE ClearProvider \/ \E kind \in Kinds : SetProvider(kind)
  <2>1. UNCHANGED <<files, job>> /\ \E owners : docs' = NoBag(owners)
    BY <1>8 DEF ClearProvider, SetProvider
  <2>2. default'.kind \in BackEnds \cup {"refused"}
    BY <1>8, CreateKind DEF ClearProvider, SetProvider
  <2> QED BY <1>3, <2>1, <2>2 DEF RowsInv
<1>9. ASSUME NEW row \in Rows, OthersWrite(row)
      PROVE  RowsInv'
  BY <1>1, <1>4, <1>9, RowsRead, PutRows DEF OthersWrite, registry
<1>10. ASSUME NEW w \in Writers, Save(w)
       PROVE  RowsInv'
  BY <1>10, SaveRows
<1>11. ASSUME NEW w \in Writers, CutOff(w)
       PROVE  RowsInv'
  BY <1>11 DEF CutOff, RowsInv, registry
<1>12. CASE UNCHANGED vars
  BY <1>2, <1>12 DEF vars
<1> QED
  BY <1>5, <1>6, <1>7, <1>8, <1>9, <1>10, <1>11, <1>12 DEF Next
-----------------------------------------------------------------------------
(* AnswersUsable: a search reads rows of different ids, and keeps hits of different ids. *)

\* Code: create_retrieval_provider raises for any back end but the five.
LEMMA SearchKind ==
  ASSUME RowsInv, CacheInv, NEW c \in Corpora, NEW o, Answers(c, o)
  PROVE  SearchPlace(c, o).kind \in BackEnds
<1>1. ProviderFor(c).kind \in BackEnds \cup {"refused"}
  BY CreateKind DEF ProviderFor, RowsInv, CacheInv
<1>2. ProviderForSearch(c, o).kind \in BackEnds \cup {"refused"}
  BY <1>1 DEF ProviderForSearch, Refused, BackEnds
<1>3. \A p : Place(p, c).kind = p.kind /\ \A key : [Place(p, c) EXCEPT !.key = key].kind = p.kind
  BY DEF Place
<1>4. SearchPlace(c, o).kind = ProviderForSearch(c, o).kind
  BY <1>3 DEF SearchPlace
<1> QED BY <1>2, <1>4 DEF Answers

\* A back end's hits are of rows of different ids, and are all of them where the place
\* holds no more than is fetched.
LEMMA BackendFinds ==
  ASSUME RowsInv, NEW place, Readable(place), place.kind \in BackEnds, NEW k \in Int, NEW mode
  PROVE  /\ BackendHits(place, k, mode) \in HitSeqs
         /\ \A j \in Int : Held(place) <= AtLeastOne(j) /\ Held(place) <= AtLeastOne(k) =>
              BackendHits(place, j, mode) = BackendHits(place, k, mode)
<1>1. /\ RowsAt(place) \in RowSeqs
      /\ Load(place).index \in Seq(Texts) /\ Load(place).meta \in RowSeqs
  BY RowsRead
<1>2. CASE place.kind = "none"
  <2>1. \A j : BackendHits(place, j, mode) = <<>>
    BY <1>2 DEF BackendHits
  <2>2. <<>> \in HitSeqs
    BY DEF HitSeqs, Distinct
  <2> QED BY <2>1, <2>2
<1>3. CASE place.kind = "memory"
  <2>1. /\ \A j : BackendHits(place, j, mode) = MemoryHits(RowsAt(place), j)
        /\ Held(place) = Len(RowsAt(place))
    BY <1>3 DEF BackendHits, Held
  <2> QED BY <1>1, <2>1, MemoryFinds
<1>4. CASE place.kind = "faiss"
  <2>1. /\ \A j : BackendHits(place, j, mode) = FaissHits(Load(place).index, Load(place).meta, j, mode)
        /\ Held(place) = Len(Load(place).index)
    BY <1>4 DEF BackendHits, Held
  <2> QED BY <1>1, <2>1, FaissFinds
<1>5. CASE place.kind = "azure_ai_search"
  <2>1. /\ \A j : BackendHits(place, j, mode) = RemoteHits(RowsAt(place), j)
        /\ Held(place) = Len(RowsAt(place))
    BY <1>5 DEF BackendHits, Held
  <2> QED BY <1>1, <2>1, RemoteFinds
<1>6. CASE place.kind = "databricks_vector"
  <2>1. /\ \A j : BackendHits(place, j, mode) = Bare(RemoteHits(RowsAt(place), j))
        /\ Held(place) = Len(RowsAt(place))
    BY <1>6 DEF BackendHits, Held
  <2> QED BY <1>1, <2>1, RemoteFinds
<1> QED BY <1>2, <1>3, <1>4, <1>5, <1>6 DEF BackEnds

\* Code: fetch_k of search_corpus, when duplicates are dropped.
LEMMA FetchReaches ==
  ASSUME NEW o \in Options, NEW held \in Nat
  PROVE  /\ FetchK(o) \in Int
         /\ o.dedupe /\ held <= AtLeastOne(o.k) + 5 /\ held <= 50 => held <= AtLeastOne(FetchK(o))
         /\ held <= AtLeastOne(held)
<1>1. o.k \in Int
  BY SearchAssumption
<1> QED BY <1>1 DEF FetchK, AtLeastOne

LEMMA SearchUsable == RowsInv /\ CacheInv => AnswersUsable
<1> SUFFICES ASSUME RowsInv, CacheInv PROVE AnswersUsable
  OBVIOUS
<1> SUFFICES ASSUME NEW c \in Corpora, NEW o \in Options, Answers(c, o)
    PROVE  LET place == SearchPlace(c, o)
               hits == SearchCorpus(c, o)
               all == BackendHits(place, Held(place), o.mode)
               wanted == {n \in DOMAIN all : o.entity = Unset \/ all[n].entity = o.entity}
               Of(h) == {all[n].id : n \in {m \in wanted : Signature(all[m]) = Signature(h)}}
               whole == Held(place) <= AtLeastOne(o.k) + 5 /\ Held(place) <= 50
           IN  /\ Len(hits) <= AtLeastOne(o.k)
               /\ \A n \in DOMAIN hits :
                    /\ o.entity # Unset => hits[n].entity = o.entity
                    /\ o.boost => \A m \in 1..n : hits[m].score >= hits[n].score
                    /\ o.dedupe => \A m \in 1..(n - 1) :
                         hits[m].id # hits[n].id /\ Signature(hits[m]) # Signature(hits[n])
                    /\ o.dedupe /\ whole => hits[n].occurrences = Cardinality(Of(hits[n]))
               /\ Len(hits) < AtLeastOne(o.k) /\ o.dedupe /\ whole =>
                    \A n \in wanted : \E m \in DOMAIN hits : Signature(hits[m]) = Signature(all[n])
               /\ Used(ContextOf(hits)) <= MaxChars
  BY DEF AnswersUsable
<1> DEFINE place == SearchPlace(c, o)
           raw == BackendHits(place, FetchK(o), o.mode)
           hits == SearchCorpus(c, o)
           all == BackendHits(place, Held(place), o.mode)
           wanted == {n \in DOMAIN all : o.entity = Unset \/ all[n].entity = o.entity}
           Of(h) == {all[n].id : n \in {m \in wanted : Signature(all[m]) = Signature(h)}}
           whole == Held(place) <= AtLeastOne(o.k) + 5 /\ Held(place) <= 50
           found == Filtered(raw, o)
<1>1. place.kind \in BackEnds /\ Readable(place)
  BY SearchKind DEF Answers
<1>2. Held(place) \in Nat
  <2>1. RowsAt(place) \in RowSeqs /\ Load(place).index \in Seq(Texts)
    BY <1>1, RowsRead
  <2> QED BY <2>1 DEF Held, RowSeqs
<1>3. hits = Answer(raw, o)
  BY DEF SearchCorpus
<1> HIDE DEF place
<1>4. /\ FetchK(o) \in Int
      /\ o.dedupe /\ whole => Held(place) <= AtLeastOne(FetchK(o))
      /\ Held(place) <= AtLeastOne(Held(place))
  BY <1>2, FetchReaches
<1>5. /\ raw \in HitSeqs /\ all \in HitSeqs
      /\ o.dedupe /\ whole => all = raw
  BY <1>1, <1>2, <1>4, BackendFinds
<1> HIDE DEF raw, all, whole, hits
<1>6. /\ found \in HitSeqs /\ Within(found, raw)
      /\ o.entity # Unset => \A n \in 1..Len(found) : found[n].entity = o.entity
      /\ \A m \in 1..Len(raw) : o.entity = Unset \/ raw[m].entity = o.entity =>
           \E n \in 1..Len(found) : found[n] = raw[m]
  BY <1>5, FilteredIs
<1>7. /\ Carried(hits, found, o) /\ Len(hits) <= AtLeastOne(o.k)
      /\ Len(hits) < AtLeastOne(o.k) => Complete(hits, found, o)
      /\ o.boost => \A m, n \in 1..Len(hits) : m <= n => hits[m].score >= hits[n].score
  BY <1>3, <1>5, AnswerIs
<1>8. /\ hits \in Seq(Hits) /\ Len(hits) \in Nat /\ DOMAIN hits = 1..Len(hits)
      /\ \A m, n \in 1..Len(hits) : hits[m].id = hits[n].id => m = n
  BY <1>7, HitsOf DEF Carried
<1>9. ASSUME NEW n \in DOMAIN hits
      PROVE  /\ o.entity # Unset => hits[n].entity = o.entity
             /\ o.boost => \A m \in 1..n : hits[m].score >= hits[n].score
             /\ o.dedupe => \A m \in 1..(n - 1) :
                  hits[m].id # hits[n].id /\ Signature(hits[m]) # Signature(hits[n])
             /\ o.dedupe /\ whole => hits[n].occurrences = Cardinality(Of(hits[n]))
  <2>1. PICK m \in 1..Len(found) :
          /\ Alike(hits[n], found[m])
          /\ o.dedupe => hits[n].occurrences = Cardinality(Same(found, m))
    BY <1>7, <1>8, <1>9 DEF Carried
  <2>2. o.entity # Unset => hits[n].entity = o.entity
    BY <1>6, <2>1 DEF Alike
  <2>3. \A i \in 1..n : i \in 1..Len(hits) /\ i <= n
    BY <1>8, <1>9
  <2>4. o.boost => \A i \in 1..n : hits[i].score >= hits[n].score
    BY <1>7, <1>8, <1>9, <2>3
  <2>5. ASSUME o.dedupe, NEW i \in 1..(n - 1)
        PROVE  hits[i].id # hits[n].id /\ Signature(hits[i]) # Signature(hits[n])
    <3>1. i \in 1..Len(hits) /\ n \in 1..Len(hits) /\ i # n
      BY <1>8, <1>9, <2>5
    <3> QED BY <1>7, <1>8, <2>5, <3>1 DEF Carried
  <2>6. ASSUME o.dedupe, whole PROVE hits[n].occurrences = Cardinality(Of(hits[n]))
    <3>1. found = Filtered(all, o)
      BY <1>5, <2>6
    <3> HIDE DEF found
    <3>2. m \in 1..Len(Filtered(all, o)) /\ Alike(hits[n], Filtered(all, o)[m])
      BY <2>1, <3>1
    <3>3. Cardinality(WithAction(all, o, hits[n])) = Cardinality(Same(Filtered(all, o), m))
      BY <1>5, <3>2, CountedIs
    <3>4. Of(hits[n]) = WithAction(all, o, hits[n])
      BY DEF WithAction
    <3> HIDE DEF Of
    <3> QED BY <2>1, <2>6, <3>1, <3>3, <3>4
  <2> QED BY <2>2, <2>4, <2>5, <2>6
<1>10. ASSUME Len(hits) < AtLeastOne(o.k), o.dedupe, whole, NEW n \in wanted
       PROVE  \E m \in DOMAIN hits : Signature(hits[m]) = Signature(all[n])
  <2>1. all = raw /\ DOMAIN raw = 1..Len(raw)
    BY <1>5, <1>10, HitsOf
  <2>2. n \in 1..Len(raw) /\ (o.entity = Unset \/ raw[n].entity = o.entity)
    BY <1>10, <2>1
  <2>3. PICK i \in 1..Len(found) : found[i] = raw[n]
    BY <1>6, <2>2
  <2>4. PICK m \in 1..Len(hits) : Signature(hits[m]) = Signature(found[i])
    BY <1>7, <1>10 DEF Complete
  <2> QED BY <1>8, <2>1, <2>3, <2>4
<1>11. Used(ContextOf(hits)) <= MaxChars
  BY <1>8, ContextFits
<1> HIDE DEF wanted, Of
<1>12. /\ Len(hits) <= AtLeastOne(o.k)
       /\ \A n \in DOMAIN hits :
            /\ o.entity # Unset => hits[n].entity = o.entity
            /\ o.boost => \A m \in 1..n : hits[m].score >= hits[n].score
            /\ o.dedupe => \A m \in 1..(n - 1) :
                 hits[m].id # hits[n].id /\ Signature(hits[m]) # Signature(hits[n])
            /\ o.dedupe /\ whole => hits[n].occurrences = Cardinality(Of(hits[n]))
       /\ Len(hits) < AtLeastOne(o.k) /\ o.dedupe /\ whole =>
            \A n \in wanted : \E m \in DOMAIN hits : Signature(hits[m]) = Signature(all[n])
       /\ Used(ContextOf(hits)) <= MaxChars
  BY <1>7, <1>9, <1>10, <1>11
<1> QED BY <1>12 DEF place, hits, all, wanted, Of, whole

\* What a search gives a prompt is usable, over any back end, rows, options and cuts: no
\* more hits than asked for, of the entity asked for, no id and no action twice, best
\* first; and where the place holds no more than the over-fetch reaches, every action is
\* counted and none is missing.  It holds whatever FAISS writers do to the files.  Code:
\* search_corpus, the search of each back end, dedupe_retrieval_hits, apply_status_boost.
THEOREM AnswersUsableCorrect == Spec => []AnswersUsable
<1> QED BY InitCache, CacheStep, InitRows, RowsStep, SearchUsable, PTL DEF Spec
-----------------------------------------------------------------------------
(* VectorsMatchRows, when no two writers are in the files of one place: a job carries *)
(* an index that was made of its rows, unless it goes on from files that a write left *)
(* half done; and from the third file operation on, the index file is its own.        *)

Busy(place) == \E w \in Writers : job[w] # Idle /\ job[w].place = place
NoOverlap ==
  \A w, u \in Writers :
    job[w] # Idle /\ job[u] # Idle /\ job[w].place = job[u].place => w = u

Faithful(place) == Readable(place) /\ Load(place).index = Vectors(Load(place).meta)
FileSet == [index : Seq(Texts) \cup {Bad, Unset}, meta : Seq(Rows) \cup {Bad, Unset}]

JobInv(w) ==
  /\ DOMAIN job[w] = {"place", "index", "meta", "rebuilt", "at"}
  /\ job[w].at \in {"index", "index written", "meta", "meta written"}
  /\ job[w].index \in Seq(Texts) /\ job[w].meta \in Seq(Rows)
  /\ job[w].rebuilt \/ job[w].place \notin broken => job[w].index = Vectors(job[w].meta)
  /\ job[w].at \in {"meta", "meta written"} =>
       job[w].place \in DOMAIN files /\ files[job[w].place].index = job[w].index

VecInv ==
  /\ DOMAIN job = Writers
  /\ \A place \in DOMAIN files : files[place] \in FileSet
  /\ \A place \in DOMAIN files : place \in broken \/ Busy(place) \/ Faithful(place)
  /\ \A w \in Writers : job[w] # Idle => JobInv(w)

\* What is read at a place whose files are whole, and how far it can be trusted.
LEMMA Loaded ==
  ASSUME VecInv, NEW place, Readable(place)
  PROVE  /\ Load(place).index \in Seq(Texts) /\ Load(place).meta \in Seq(Rows)
         /\ place \notin broken /\ ~Busy(place) => Load(place).index = Vectors(Load(place).meta)
<1>1. <<>> \in Seq(Texts) /\ <<>> \in Seq(Rows) /\ Vectors(<<>>) = <<>>
  BY DEF Vectors
<1>2. CASE Unset \in {FilesAt(place).index, FilesAt(place).meta}
  BY <1>1, <1>2 DEF Load
<1>3. CASE Unset \notin {FilesAt(place).index, FilesAt(place).meta}
  <2>1. place \in DOMAIN files
    BY <1>3 DEF FilesAt
  <2>2. FilesAt(place) = files[place] /\ Load(place) = files[place] /\ files[place] \in FileSet
    BY <1>3, <2>1 DEF FilesAt, Load, VecInv
  <2>3. files[place].index \notin {Bad, Unset} /\ files[place].meta \notin {Bad, Unset}
    BY <1>3, <2>2 DEF Readable
  <2>4. Load(place).index \in Seq(Texts) /\ Load(place).meta \in Seq(Rows)
    BY <2>2, <2>3 DEF FileSet
  <2>5. place \notin broken /\ ~Busy(place) => Load(place).index = Vectors(Load(place).meta)
    BY <2>1 DEF VecInv, Faithful
  <2> QED BY <2>4, <2>5
<1> QED BY <1>2, <1>3

\* A job that begins with an index made of its rows, if its place is to be trusted.
LEMMA BeginVec ==
  ASSUME VecInv, NEW w \in Writers, NEW place, NEW index \in Seq(Texts),
         NEW rows \in Seq(Rows), NEW rebuilt \in BOOLEAN, Begin(w, place, index, rows, rebuilt),
         rebuilt \/ place \notin broken => index = Vectors(rows)
  PROVE  VecInv'
<1>1. /\ job[w] = Idle /\ UNCHANGED <<files, broken>>
      /\ job' = [job EXCEPT ![w] = [place |-> place, index |-> index, meta |-> rows,
                                    rebuilt |-> rebuilt, at |-> "index"]]
  BY DEF Begin
<1>2. /\ DOMAIN job' = Writers /\ \A u \in Writers : u # w => job'[u] = job[u]
      /\ job'[w] = [place |-> place, index |-> index, meta |-> rows,
                    rebuilt |-> rebuilt, at |-> "index"]
  BY <1>1 DEF VecInv
<1>3. \A p \in DOMAIN files : files[p] \in FileSet
  BY DEF VecInv
<1>4. ASSUME NEW p \in DOMAIN files' PROVE p \in broken' \/ Busy(p)' \/ Faithful(p)'
  <2>1. Busy(p) => Busy(p)'
    BY <1>1, <1>2 DEF Busy
  <2>2. Faithful(p) => Faithful(p)'
    BY <1>1 DEF Faithful, Readable, Load, FilesAt
  <2> QED BY <1>1, <1>4, <2>1, <2>2 DEF VecInv
<1>5. ASSUME NEW u \in Writers, job'[u] # Idle PROVE JobInv(u)'
  <2>1. CASE u # w
    BY <1>1, <1>2, <1>5, <2>1 DEF VecInv, JobInv
  <2>2. CASE u = w
    BY <1>1, <1>2, <2>2 DEF JobInv
  <2> QED BY <2>1, <2>2
<1> QED BY <1>1, <1>2, <1>3, <1>4, <1>5 DEF VecInv

\* A writer that begins has the place for itself.
LEMMA BeginsAlone ==
  ASSUME VecInv, NoOverlap', NEW w \in Writers, NEW place, NEW index, NEW rows, NEW rebuilt,
         Begin(w, place, index, rows, rebuilt)
  PROVE  ~Busy(place)
<1> SUFFICES ASSUME NEW u \in Writers, job[u] # Idle, job[u].place = place PROVE FALSE
  BY DEF Busy
<1>1. /\ u # w /\ job'[u] = job[u]
      /\ job'[w] = [place |-> place, index |-> index, meta |-> rows,
                    rebuilt |-> rebuilt, at |-> "index"]
  BY DEF Begin, VecInv
<1>2. job'[w] # Idle /\ job'[w].place = place
  BY <1>1 DEF Idle
<1> QED BY <1>1, <1>2 DEF NoOverlap

\* Code: upsert and delete, up to the saving of the files.
LEMMA ChangeVec ==
  ASSUME VecInv, NoOverlap', NEW w \in Writers, NEW place, NEW row \in Rows,
         FaissUpsert(w, place, row) \/ FaissDelete(w, place, row.id)
  PROVE  VecInv'
<1> DEFINE old == Load(place)
           kept == Without(old.meta, row.id)
           again == Len(kept) # Len(old.meta)
           rows == IF again THEN kept ELSE old.meta
           base == IF again THEN Rebuild(old.index, kept) ELSE old.index
<1>1. Readable(place)
  BY DEF FaissUpsert, FaissDelete
<1>2. /\ old.index \in Seq(Texts) /\ old.meta \in Seq(Rows)
      /\ place \notin broken /\ ~Busy(place) => old.index = Vectors(old.meta)
  BY <1>1, Loaded
<1> HIDE DEF old
<1>3. kept \in Seq(Rows)
  BY <1>2, WithoutRows
<1> HIDE DEF kept
<1>4. Vectors(kept) \in Seq(Texts)
  BY <1>3, VectorsOf
<1>5. CASE FaissUpsert(w, place, row)
  <2>1. Begin(w, place, Append(base, row.text), Append(rows, row), again)
    BY <1>5 DEF FaissUpsert, old, kept
  <2>2. ~Busy(place)
    BY <2>1, BeginsAlone
  <2>3. rows \in Seq(Rows) /\ base \in Seq(Texts) /\ again \in BOOLEAN
    BY <1>2, <1>3, <1>4 DEF Rebuild
  <2>4. again \/ place \notin broken => base = Vectors(rows)
    BY <1>2, <2>2 DEF Rebuild
  <2> HIDE DEF rows, base, again
  <2>5. row.text \in Texts
    BY DEF Texts
  <2>6. Append(base, row.text) \in Seq(Texts) /\ Append(rows, row) \in Seq(Rows)
    BY <2>3, <2>5
  <2>7. again \/ place \notin broken => Append(base, row.text) = Vectors(Append(rows, row))
    BY <2>3, <2>4, VectorsOf
  <2> QED BY <2>1, <2>3, <2>6, <2>7, BeginVec
<1>6. CASE FaissDelete(w, place, row.id)
  <2>1. Begin(w, place, Vectors(kept), kept, TRUE)
    BY <1>6 DEF FaissDelete, Rebuild, old, kept
  <2> QED BY <1>3, <1>4, <2>1, BeginVec
<1> QED BY <1>5, <1>6

\* A job at a place whose files stay as they are.
LEMMA OtherJob ==
  ASSUME NEW u, JobInv(u), job'[u] = job[u],
         job[u].place \notin broken' => job[u].place \notin broken,
         job[u].place \in DOMAIN files => /\ job[u].place \in DOMAIN files'
                                         /\ files'[job[u].place] = files[job[u].place]
  PROVE  JobInv(u)'
<1>1. /\ job[u].rebuilt \/ job[u].place \notin broken' => job[u].index = Vectors(job[u].meta)
      /\ job[u].at \in {"meta", "meta written"} =>
           job[u].place \in DOMAIN files' /\ files'[job[u].place].index = job[u].index
  BY DEF JobInv
<1>2. /\ DOMAIN job[u] = {"place", "index", "meta", "rebuilt", "at"}
      /\ job[u].at \in {"index", "index written", "meta", "meta written"}
      /\ job[u].index \in Seq(Texts) /\ job[u].meta \in Seq(Rows)
  BY DEF JobInv
<1> QED BY <1>1, <1>2 DEF JobInv

\* Code: _save, one file operation after the other.
LEMMA SaveVec ==
  ASSUME VecInv, NoOverlap, NEW w \in Writers, Save(w)
  PROVE  VecInv'
<1>1. PICK place : place = job[w].place
  OBVIOUS
<1>2. /\ job[w] # Idle /\ JobInv(w) /\ DOMAIN job = Writers
      /\ FilesAt(place) \in FileSet
      /\ FilesAt(place).index = IF place \in DOMAIN files THEN files[place].index ELSE Unset
  BY DEF Save, VecInv, FilesAt, FileSet
<1>3. \A u \in Writers : u # w /\ job[u] # Idle => job[u].place # place
  BY <1>1, <1>2 DEF NoOverlap
<1>4. ASSUME NEW file \in {"index", "meta"}, NEW value, NEW next,
             files' = With(files, place, [FilesAt(place) EXCEPT ![file] = value]),
             job' = [job EXCEPT ![w].at = next], UNCHANGED broken,
             \/ file = "index" /\ value = Bad /\ next = "index written"
             \/ file = "index" /\ value = job[w].index /\ next = "meta"
             \/ file = "meta" /\ value = Bad /\ next = "meta written" /\ job[w].at = "meta"
      PROVE  VecInv'
  <2>1. /\ DOMAIN job' = Writers /\ \A u \in Writers : u # w => job'[u] = job[u]
        /\ DOMAIN job'[w] = DOMAIN job[w] /\ job'[w].at = next
        /\ job'[w].place = place /\ job'[w].index = job[w].index
        /\ job'[w].meta = job[w].meta /\ job'[w].rebuilt = job[w].rebuilt
    BY <1>1, <1>2, <1>4 DEF JobInv
  <2>2. /\ files'[place] \in FileSet /\ place \in DOMAIN files'
        /\ next = "meta" => files'[place].index = job[w].index
        /\ next = "meta written" => files'[place].index = FilesAt(place).index
    BY <1>2, <1>4 DEF With, FileSet, JobInv
  <2>3. \A p : p # place => /\ p \in DOMAIN files' <=> p \in DOMAIN files
                            /\ p \in DOMAIN files => files'[p] = files[p]
    BY <1>4 DEF With
  <2>4. job'[w] # Idle
    BY <1>4, <2>1 DEF Idle
  <2>5. \A p \in DOMAIN files' : files'[p] \in FileSet
    BY <2>2, <2>3 DEF VecInv
  <2>6. ASSUME NEW p \in DOMAIN files' PROVE p \in broken' \/ Busy(p)' \/ Faithful(p)'
    <3>1. CASE p = place
      BY <2>1, <2>4, <3>1 DEF Busy
    <3>2. CASE p # place
      <4>1. p \in DOMAIN files /\ files'[p] = files[p]
        BY <2>3, <2>6, <3>2
      <4>2. Busy(p) => Busy(p)'
        BY <1>1, <2>1, <3>2 DEF Busy
      <4>3. Faithful(p) => Faithful(p)'
        BY <2>6, <4>1 DEF Faithful, Readable, Load, FilesAt
      <4> QED BY <1>4, <4>1, <4>2, <4>3 DEF VecInv
    <3> QED BY <3>1, <3>2
  <2>7. JobInv(w)'
    <3>1. job[w].at = "meta" => FilesAt(place).index = job[w].index
      BY <1>1, <1>2 DEF JobInv
    <3>2. next \in {"index written", "meta", "meta written"}
      BY <1>4
    <3>3. next = "meta written" => job[w].at = "meta"
      BY <1>4
    <3> QED BY <1>1, <1>2, <1>4, <2>1, <2>2, <3>1, <3>2, <3>3 DEF JobInv
  <2>8. ASSUME NEW u \in Writers, u # w, job'[u] # Idle PROVE JobInv(u)'
    <3>1. job[u] # Idle /\ job'[u] = job[u] /\ job[u].place # place
      BY <1>3, <2>1, <2>8
    <3>2. JobInv(u) /\ UNCHANGED broken
      BY <1>4, <3>1 DEF VecInv
    <3> QED BY <2>3, <3>1, <3>2, OtherJob
  <2> QED BY <2>1, <2>5, <2>6, <2>7, <2>8 DEF VecInv
<1>5. ASSUME job[w].at = "meta written", job' = [job EXCEPT ![w] = Idle],
             files' = With(files, place, [FilesAt(place) EXCEPT !["meta"] = job[w].meta]),
             broken' = IF job[w].rebuilt THEN broken \ {place} ELSE broken
      PROVE  VecInv'
  <2>1. /\ DOMAIN job' = Writers /\ job'[w] = Idle
        /\ \A u \in Writers : u # w => job'[u] = job[u]
    BY <1>2, <1>5
  <2>2. /\ files'[place] \in FileSet /\ place \in DOMAIN files'
        /\ files'[place].index = job[w].index /\ files'[place].meta = job[w].meta
    BY <1>1, <1>2, <1>5 DEF With, FileSet, JobInv
  <2>3. \A p : p # place => /\ p \in DOMAIN files' <=> p \in DOMAIN files
                            /\ p \in DOMAIN files => files'[p] = files[p]
    BY <1>5 DEF With
  <2>4. \A p \in DOMAIN files' : files'[p] \in FileSet
    BY <2>2, <2>3 DEF VecInv
  <2>5. place \in broken' \/ Faithful(place)'
    <3>1. SUFFICES ASSUME place \notin broken' PROVE Faithful(place)'
      OBVIOUS
    <3>2. job[w].index = Vectors(job[w].meta)
      BY <1>1, <1>2, <1>5, <3>1 DEF JobInv
    <3>3. job[w].index # Bad /\ job[w].meta # Bad
      BY <1>2, RetrievalAssumption DEF JobInv
    <3>4. Readable(place)'
      BY <2>2, <3>3 DEF Readable, FilesAt
    <3>5. Vectors(<<>>) = <<>>
      BY DEF Vectors
    <3>6. (Load(place).index = Vectors(Load(place).meta))'
      BY <2>2, <3>2, <3>5 DEF Load, FilesAt
    <3> QED BY <3>4, <3>6 DEF Faithful
  <2>6. ASSUME NEW p \in DOMAIN files', p # place PROVE p \in broken' \/ Busy(p)' \/ Faithful(p)'
    <3>1. p \in DOMAIN files /\ files'[p] = files[p]
      BY <2>3, <2>6
    <3>2. Busy(p) => Busy(p)'
      BY <1>1, <2>1, <2>6 DEF Busy
    <3>3. Faithful(p) => Faithful(p)'
      BY <2>6, <3>1 DEF Faithful, Readable, Load, FilesAt
    <3>4. p \in broken => p \in broken'
      BY <1>5, <2>6
    <3> QED BY <3>1, <3>2, <3>3, <3>4 DEF VecInv
  <2>7. ASSUME NEW u \in Writers, job'[u] # Idle PROVE JobInv(u)'
    <3>1. u # w /\ job[u] # Idle /\ job'[u] = job[u] /\ job[u].place # place
      BY <1>3, <2>1, <2>7
    <3>2. JobInv(u)
      BY <3>1 DEF VecInv
    <3>3. job[u].place \notin broken' => job[u].place \notin broken
      BY <1>5, <3>1
    <3> QED BY <2>3, <3>1, <3>2, <3>3, OtherJob
  <2>8. \A p \in DOMAIN files' : p \in broken' \/ Busy(p)' \/ Faithful(p)'
    BY <2>5, <2>6
  <2> QED BY <2>1, <2>4, <2>7, <2>8 DEF VecInv
<1> QED BY <1>1, <1>4, <1>5 DEF Save

LEMMA CutOffVec ==
  ASSUME VecInv, NEW w \in Writers, CutOff(w)
  PROVE  VecInv'
<1>1. /\ job' = [job EXCEPT ![w] = Idle] /\ broken' = broken \cup {job[w].place}
      /\ UNCHANGED files
  BY DEF CutOff
<1>2. /\ DOMAIN job' = Writers /\ job'[w] = Idle
      /\ \A u \in Writers : u # w => job'[u] = job[u]
  BY <1>1 DEF VecInv
<1>3. ASSUME NEW p \in DOMAIN files' PROVE p \in broken' \/ Busy(p)' \/ Faithful(p)'
  <2>1. Busy(p) => p \in broken' \/ Busy(p)'
    BY <1>1, <1>2 DEF Busy
  <2>2. Faithful(p) => Faithful(p)'
    BY <1>1 DEF Faithful, Readable, Load, FilesAt
  <2> QED BY <1>1, <1>3, <2>1, <2>2 DEF VecInv
<1>4. \A u \in Writers : job'[u] # Idle => JobInv(u)'
  BY <1>1, <1>2 DEF VecInv, JobInv
<1>5. \A p \in DOMAIN files' : files'[p] \in FileSet
  BY <1>1 DEF VecInv
<1> QED BY <1>2, <1>3, <1>4, <1>5 DEF VecInv

LEMMA VecStep == VecInv /\ NoOverlap /\ NoOverlap' /\ [Next]_vars => VecInv'
<1> SUFFICES ASSUME VecInv, NoOverlap, NoOverlap', [Next]_vars PROVE VecInv'
  OBVIOUS
<1>1. CASE UNCHANGED <<files, job, broken>>
  BY <1>1 DEF VecInv, JobInv, Faithful, Busy, Readable, Load, FilesAt
<1>2. ASSUME NEW c \in Corpora,
             \/ \E config \in Configs \cup {Unset} : RegisterCorpus(c, config)
             \/ Search(c)
             \/ \E row \in Rows : Upsert(c, row) \/ Delete(c, row.id)
      PROVE  VecInv'
  BY <1>1, <1>2 DEF RegisterCorpus, Search, Upsert, Delete, Write
<1>3. ASSUME NEW c \in Corpora, NEW w \in Writers,
             InProcess(w, c) \/ \E row \in Rows : Build(w, c, row)
      PROVE  VecInv'
  BY <1>3, ChangeVec DEF InProcess, Build
<1>4. CASE ClearProvider \/ (\E kind \in Kinds : SetProvider(kind))
           \/ (\E row \in Rows : OthersWrite(row))
  BY <1>1, <1>4 DEF ClearProvider, SetProvider, OthersWrite
<1>5. ASSUME NEW w \in Writers, Save(w) \/ CutOff(w)
      PROVE  VecInv'
  BY <1>5, SaveVec, CutOffVec
<1>6. CASE UNCHANGED vars
  BY <1>1, <1>6 DEF vars
<1> QED BY <1>2, <1>3, <1>4, <1>5, <1>6 DEF Next

\* A hit shows the text its vector was made of, when no two writers are in the files of
\* one place at a time; a write that was cut off is repaired by a later one that removes
\* a row.  Code: FaissRetrieval, whose upsert and delete read two files, and whose _save
\* writes one after the other.
THEOREM VectorsMatchRowsCorrect == Spec /\ []NoOverlap => []VectorsMatchRows
<1>1. VecInv => VectorsMatchRows
  BY DEF VecInv, VectorsMatchRows, Busy, Faithful
<1>2. Init => VecInv
  BY DEF Init, VecInv
<1> QED BY <1>1, <1>2, VecStep, PTL DEF Spec
=============================================================================
