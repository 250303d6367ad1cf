--------------------------- MODULE RetrievalProofs --------------------------
(***************************************************************************)
(* What SopRetriever.retrieve returns, for any answers of the knowledge    *)
(* base and any failing S3 read: the invariant its two properties rest on  *)
(* is kept by every step of SopRetrieval, for the modules that compose it. *)
(***************************************************************************)
EXTENDS SopRetrieval, Induction

-----------------------------------------------------------------------------
(* Sorted sequences *)

\* Put in that order, the sequence is a sequence of all of the set.
LEMMA SortedHoldsAll ==
    ASSUME NEW S, IsFiniteSet(S), NEW key \in [S -> Nat],
           NEW s \in [1..Cardinality(S) -> S],
           \A i, j \in DOMAIN s : i < j => key[s[i]] < key[s[j]]
    PROVE  s \in Seq(S) /\ Range(s) = S
<1>1. Cardinality(S) \in Nat /\ IsFiniteSet(1..Cardinality(S))
      /\ Cardinality(1..Cardinality(S)) = Cardinality(S)
  BY FS_CardinalityType, FS_Interval
<1>2. ASSUME NEW i \in 1..Cardinality(S), NEW j \in 1..Cardinality(S), s[i] = s[j]
      PROVE  i = j
  <2>1. ~(i < j) /\ ~(j < i)
    BY <1>1, <1>2
  <2>2. QED
    BY <1>1, <2>1
<1>3. s \in Injection(1..Cardinality(S), S)
  BY <1>2 DEF Injection, IsInjective
<1>4. s \in Surjection(1..Cardinality(S), S)
  BY <1>1, <1>3, FS_Injection
<1>5. Range(s) = S
  BY <1>4 DEF Surjection, Range
<1>6. QED
  BY <1>1, <1>5

LEMMA ArticlesAreFinite == IsFiniteSet(SopArticles) /\ SopArticles \subseteq Nat
<1>1. IsFiniteSet(1..7)
  BY FS_Interval, 1 \in Int, 7 \in Int
<1>2. QED
  BY <1>1 DEF SopArticles

LEMMA InOrderSorts ==
    ASSUME NEW S \in SUBSET SopArticles, NEW s, s = InOrder(S)
    PROVE  /\ s \in Seq(SopArticles) /\ Range(s) = S
           /\ \A i, j \in DOMAIN s : i < j => s[i] < s[j]
<1>1. IsFiniteSet(S) /\ S \subseteq Nat
  BY ArticlesAreFinite, FS_Subset
<1> DEFINE key == [x \in S |-> x]
<1>2. key \in [S -> Nat] /\ \A x, y \in S : key[x] = key[y] => x = y
  BY <1>1
<1>3. \E t \in [1..Cardinality(S) -> S] :
          \A i, j \in DOMAIN t : i < j => key[t[i]] < key[t[j]]
  BY <1>1, <1>2, SortedExists
<1>4. ASSUME NEW t \in [1..Cardinality(S) -> S], NEW i \in DOMAIN t
      PROVE  key[t[i]] = t[i]
  OBVIOUS
<1>5. \E t \in [1..Cardinality(S) -> S] : \A i, j \in DOMAIN t : i < j => t[i] < t[j]
  BY <1>3, <1>4
<1>6. s \in [1..Cardinality(S) -> S] /\ \A i, j \in DOMAIN s : i < j => s[i] < s[j]
  BY <1>5 DEF InOrder, Sorted
<1>7. s \in Seq(S) /\ Range(s) = S
  BY <1>1, <1>2, <1>4, <1>6, SortedHoldsAll
<1>8. QED
  BY <1>6, <1>7

LEMMA OrderSorts ==
    ASSUME NEW C, \A c \in C : c.article \in SopArticles,
           \A c, d \in C : c.article = d.article => c = d,
           NEW s, s = orderByArticleSet(C)
    PROVE  /\ s \in Seq(C) /\ Range(s) = C
           /\ \A i, j \in DOMAIN s : i < j => s[i].article < s[j].article
<1> DEFINE key == [c \in C |-> c.article]
<1>1. key \in Injection(C, SopArticles)
  BY DEF Injection, IsInjective
<1>2. IsFiniteSet(C)
  BY <1>1, ArticlesAreFinite, FS_Injection
<1>3. key \in [C -> Nat] /\ \A x, y \in C : key[x] = key[y] => x = y
  BY ArticlesAreFinite
<1>4. \E t \in [1..Cardinality(C) -> C] :
          \A i, j \in DOMAIN t : i < j => key[t[i]] < key[t[j]]
  BY <1>2, <1>3, SortedExists
<1>5. ASSUME NEW t \in [1..Cardinality(C) -> C], NEW i \in DOMAIN t
      PROVE  key[t[i]] = t[i].article
  OBVIOUS
<1>6. \E t \in [1..Cardinality(C) -> C] :
          \A i, j \in DOMAIN t : i < j => t[i].article < t[j].article
  BY <1>4, <1>5
<1>7. /\ s \in [1..Cardinality(C) -> C]
      /\ \A i, j \in DOMAIN s : i < j => s[i].article < s[j].article
  BY <1>6 DEF orderByArticleSet, Sorted
<1>8. s \in Seq(C) /\ Range(s) = C
  BY <1>2, <1>3, <1>5, <1>7, SortedHoldsAll
<1>9. QED
  BY <1>7, <1>8

-----------------------------------------------------------------------------
(* What is kept of the chunks of an answer *)

\* Of the chunks up to n, the one kept for an article is one of its own, and
\* the best of them; none is kept only when there is none.
Best(results, n, a, i) ==
    /\ i \in 0..n
    /\ i # 0 => extractArticleNo(results[i]) = a
    /\ \A j \in 1..n : extractArticleNo(results[j]) = a =>
           i # 0 /\ results[j].score <= results[i].score

LEMMA BestIsKept ==
    ASSUME NEW results \in Seq(Chunk), NEW articles
    PROVE  /\ DOMAIN mapKbResults(results, articles) = articles
           /\ \A a \in articles :
                  Best(results, Len(results), a, mapKbResults(results, articles)[a])
<1> DEFINE N == Len(results)
           V == [articles -> 0..N]
           none == [a \in articles |-> 0]
           Keep(before, n) ==
               LET art == extractArticleNo(results[n])
                   beaten == before[art] = 0 \/ results[n].score > results[before[art]].score
               IN  IF art \in articles /\ beaten THEN [before EXCEPT ![art] = n] ELSE before
           keep == [p \in V \X (1..N) |-> Keep(p[1], p[2])]
<1>1. N \in Nat /\ \A i \in 1..N : results[i] \in Chunk
  OBVIOUS
<1>a. \A i \in 1..N : results[i].score \in Nat
  BY <1>1 DEF Chunk
<1>2. none \in V
  BY <1>1
<1>3. ASSUME NEW before \in V, NEW n \in 1..N PROVE Keep(before, n) \in V
  BY <1>1
<1>4. keep \in [V \X (1..N) -> V]
  BY <1>3
<1>5. PICK g : Along(g, N, V, none, keep)
  <2> HIDE DEF N, V, none, keep
  <2>1. QED
    BY <1>1, <1>2, <1>4, DefinedAlong
<1>6. ASSUME NEW n \in 1..N PROVE g[n] = Keep(g[n - 1], n)
  <2>1. <<g[n - 1], n>> \in V \X (1..N)
    <3> HIDE DEF N, V, none, keep
    <3>1. g \in [0..N -> V] /\ n - 1 \in 0..N
      BY <1>1, <1>5 DEF Along
    <3>2. QED
      BY <3>1
  <2>2. QED
    BY <1>5, <2>1 DEF Along
<1>7. g = [n \in 0..N |-> IF n = 0 THEN none ELSE Keep(g[n - 1], n)]
  <2> HIDE DEF Keep
  <2>1. ASSUME NEW n \in 0..N PROVE g[n] = IF n = 0 THEN none ELSE Keep(g[n - 1], n)
    BY <1>1, <1>5, <1>6 DEF Along
  <2>2. QED
    BY <1>5, <2>1 DEF Along
<1> DEFINE best == CHOOSE f : f = [n \in 0..N |-> IF n = 0 THEN none ELSE Keep(f[n - 1], n)]
<1>8. best = [n \in 0..N |-> IF n = 0 THEN none ELSE Keep(best[n - 1], n)]
  BY <1>7
<1>9. mapKbResults(results, articles) = best[N]
  BY DEF mapKbResults
<1> HIDE DEF best
<1> DEFINE Holds(n) == best[n] \in V /\ \A a \in articles : Best(results, n, a, best[n][a])
           S == {n \in Nat : n <= N => Holds(n)}
<1>10. 0 \in S
  <2>1. best[0] = none
    BY <1>1, <1>8
  <2>2. QED
    BY <1>2, <2>1 DEF Best
<1>11. ASSUME NEW n \in Nat, n \in S PROVE n + 1 \in S
  <2>1. SUFFICES ASSUME n + 1 <= N PROVE Holds(n + 1)
    OBVIOUS
  <2>2. Holds(n) /\ n + 1 \in 1..N /\ n \in 0..N /\ n + 1 \in 0..N
    BY <1>1, <1>11, <2>1
  <2>3. best[n + 1] = Keep(best[n], n + 1)
    <3>1. n + 1 # 0 /\ (n + 1) - 1 = n
      OBVIOUS
    <3> HIDE DEF Keep
    <3>2. QED
      BY <1>8, <2>2, <3>1
  <2>4. best[n + 1] \in V
    BY <1>3, <2>2, <2>3
  <2>5. ASSUME NEW a \in articles PROVE Best(results, n + 1, a, best[n + 1][a])
    <3> DEFINE c == results[n + 1]
               i == best[n][a]
    <3>1. i \in 0..n /\ c.score \in Nat /\ (i # 0 => results[i].score \in Nat)
      BY <1>a, <2>2 DEF Best
    <3>2. ASSUME NEW j \in 1..n PROVE results[j].score \in Nat
      BY <1>a, <2>2
    <3>3. CASE extractArticleNo(c) = a /\ (i = 0 \/ c.score > results[i].score)
      <4>1. best[n + 1][a] = n + 1
        BY <2>2, <2>3, <3>3
      <4>2. ASSUME NEW j \in 1..(n + 1), extractArticleNo(results[j]) = a
            PROVE  results[j].score <= c.score
        <5>1. CASE j = n + 1
          BY <3>1, <5>1
        <5>2. CASE j \in 1..n
          BY <2>2, <3>1, <3>2, <3>3, <4>2, <5>2 DEF Best
        <5>3. QED
          BY <5>1, <5>2
      <4>3. QED
        BY <3>3, <4>1, <4>2 DEF Best
    <3>4. CASE ~(extractArticleNo(c) = a /\ (i = 0 \/ c.score > results[i].score))
      <4>1. best[n + 1][a] = i
        BY <2>2, <2>3, <3>4
      <4>2. ASSUME NEW j \in 1..(n + 1), extractArticleNo(results[j]) = a
            PROVE  i # 0 /\ results[j].score <= results[i].score
        <5>1. CASE j = n + 1
          BY <3>1, <3>4, <4>2, <5>1
        <5>2. CASE j \in 1..n
          BY <2>2, <4>2, <5>2 DEF Best
        <5>3. QED
          BY <5>1, <5>2
      <4>3. QED
        BY <2>2, <3>1, <4>1, <4>2 DEF Best
    <3>5. QED
      BY <3>3, <3>4
  <2>6. QED
    BY <2>4, <2>5
<1>12. N \in S
  BY <1>1, <1>10, <1>11, EveryNumber
<1>13. Holds(N)
  BY <1>1, <1>12
<1>14. QED
  BY <1>9, <1>13

-----------------------------------------------------------------------------
(* The invariant of the retrieval *)

CitedArticles == {citations[i].article : i \in DOMAIN citations}

CitationType == [article: SopArticles, source: {"kb", "s3_fallback"}, chunk: Nat]

\* Every article of the set is cited, still to be read, or given up: one of
\* the three, and once.
EachArticleOnce ==
    /\ \A i, j \in DOMAIN citations : i < j => citations[i].article < citations[j].article
    /\ \A i, j \in DOMAIN toFetch : i < j => toFetch[i] < toFetch[j]
    /\ kb # "pending" => /\ wanted = CitedArticles \cup Range(toFetch) \cup failed
                         /\ CitedArticles \cap Range(toFetch) = {}
                         /\ CitedArticles \cap failed = {}
                         /\ Range(toFetch) \cap failed = {}

\* Nothing happened before the answer of the knowledge base, and the
\* retrieval is over when nothing is left to be read.
OverWhenRead ==
    /\ kb = "pending" => /\ chunks = <<>> /\ citations = <<>> /\ toFetch = <<>> /\ failed = {}
                         /\ outcome = "pending" \/ (outcome = "kb" /\ wanted = {})
    /\ outcome = "pending" /\ kb # "pending" => toFetch # <<>>
    /\ RetrievalDone => toFetch = <<>>

\* What the outcome says of the two stores.
OutcomeTells ==
    /\ RetrievalDone => (outcome = "both_failed" <=> failed # {})
    /\ outcome = "kb" => \A i \in DOMAIN citations : citations[i].source = "kb"
    /\ outcome = "s3_fallback" => kb = "failed"
    /\ kb # "answered" => \A i \in DOMAIN citations : citations[i].source = "s3_fallback"

QuotesTheBest ==
    \A i \in DOMAIN citations : citations[i].source = "kb" =>
        /\ citations[i].chunk \in DOMAIN chunks
        /\ Best(chunks, Len(chunks), citations[i].article, citations[i].chunk)

RetrievalInv ==
    RetrievalTypeOK /\ EachArticleOnce /\ OverWhenRead /\ OutcomeTells /\ QuotesTheBest

\* The invariant contains both properties.
LEMMA RetrievalInvAccounts == RetrievalInv => CitationsAccountedFor
<1>1. SUFFICES ASSUME RetrievalInv, RetrievalDone PROVE CitationsAccountedFor
  BY DEF CitationsAccountedFor
<1>2. Range([i \in DOMAIN citations |-> citations[i].article]) = CitedArticles
  BY DEF Range, CitedArticles
<1>3. toFetch = <<>> /\ Range(toFetch) = {}
  BY <1>1 DEF RetrievalInv, OverWhenRead, Range
<1>4. CitedArticles = wanted \ failed
  <2>1. CASE kb = "pending"
    <3>1. citations = <<>> /\ failed = {} /\ wanted = {}
      BY <1>1, <2>1 DEF RetrievalInv, OverWhenRead, RetrievalDone
    <3>2. QED
      BY <3>1 DEF CitedArticles
  <2>2. CASE kb # "pending"
    BY <1>1, <1>3, <2>2 DEF RetrievalInv, EachArticleOnce
  <2>3. QED
    BY <2>1, <2>2
<1>5. QED
  BY <1>1, <1>2, <1>4
     DEF RetrievalInv, EachArticleOnce, OutcomeTells, CitationsAccountedFor

LEMMA RetrievalInvQuotes == RetrievalInv => CitationIsBestOfItsArticle
<1>1. SUFFICES ASSUME RetrievalInv, NEW i \in DOMAIN citations, citations[i].source = "kb"
               PROVE  /\ extractArticleNo(chunks[citations[i].chunk]) = citations[i].article
                      /\ \A j \in DOMAIN chunks :
                             extractArticleNo(chunks[j]) = citations[i].article =>
                                 chunks[j].score <= chunks[citations[i].chunk].score
  BY DEF CitationIsBestOfItsArticle
<1>2. /\ citations[i].chunk \in DOMAIN chunks
      /\ Best(chunks, Len(chunks), citations[i].article, citations[i].chunk)
  BY <1>1 DEF RetrievalInv, QuotesTheBest
<1>3. DOMAIN chunks = 1..Len(chunks)
  BY <1>1 DEF RetrievalInv, RetrievalTypeOK
<1>4. citations[i].chunk # 0
  BY <1>2, <1>3
<1>5. QED
  BY <1>2, <1>3, <1>4 DEF Best

\* It holds where a retrieval starts, and is kept while the set is chosen.
LEMMA RetrievalInvStarts ==
    ASSUME NEW articles \in SUBSET SopArticles, RetrievalInit(articles)
    PROVE  RetrievalInv
<1>1. RetrievalTypeOK
  BY DEF RetrievalInit, RetrievalTypeOK
<1>2. Range(toFetch) = {} /\ CitedArticles = {}
  BY DEF RetrievalInit, Range, CitedArticles
<1>3. QED
  BY <1>1, <1>2 DEF RetrievalInit, RetrievalInv, EachArticleOnce, OverWhenRead, OutcomeTells,
                    QuotesTheBest, RetrievalDone

LEMMA RetrievalInvWanted ==
    ASSUME RetrievalInv, kb = "pending", outcome = "pending", wanted' \in SUBSET SopArticles,
           UNCHANGED <<kb, chunks, citations, toFetch, failed, outcome>>
    PROVE  RetrievalInv'
  BY DEF RetrievalInv, RetrievalTypeOK, EachArticleOnce, OverWhenRead, OutcomeTells,
         QuotesTheBest, RetrievalDone, CitedArticles

LEMMA RetrievalInvStutters ==
    ASSUME RetrievalInv, UNCHANGED retrievalVars
    PROVE  RetrievalInv'
  BY DEF RetrievalInv, RetrievalTypeOK, EachArticleOnce, OverWhenRead, OutcomeTells,
         QuotesTheBest, RetrievalDone, CitedArticles, retrievalVars

-----------------------------------------------------------------------------
(* Every step of the retrieval keeps it *)

LEMMA EmptyRange ==
    ASSUME NEW S, NEW s \in Seq(S)
    PROVE  Range(s) = {} <=> s = <<>>
  BY DEF Range

LEMMA TailIsTheRest ==
    ASSUME NEW s \in Seq(SopArticles), s # <<>>,
           \A i, j \in DOMAIN s : i < j => s[i] < s[j]
    PROVE  /\ Head(s) \in SopArticles /\ Tail(s) \in Seq(SopArticles)
           /\ \A i, j \in DOMAIN Tail(s) : i < j => Tail(s)[i] < Tail(s)[j]
           /\ Range(s) = {Head(s)} \cup Range(Tail(s)) /\ Head(s) \notin Range(Tail(s))
           /\ Tail(s) = <<>> <=> ~(Len(s) > 1)
<1>1. /\ Len(s) \in Nat \ {0} /\ DOMAIN s = 1..Len(s) /\ Head(s) = s[1]
      /\ Tail(s) \in Seq(SopArticles) /\ Len(Tail(s)) = Len(s) - 1
      /\ DOMAIN Tail(s) = 1..(Len(s) - 1)
      /\ \A i \in 1..(Len(s) - 1) : Tail(s)[i] = s[i + 1]
  OBVIOUS
<1>2. ASSUME NEW i \in 1..Len(s) PROVE s[i] \in SopArticles /\ s[i] \in Nat
  <2>1. s[i] \in SopArticles
    OBVIOUS
  <2>2. QED
    BY <2>1, ArticlesAreFinite
<1>3. \A i, j \in DOMAIN Tail(s) : i < j => Tail(s)[i] < Tail(s)[j]
  BY <1>1
<1>4. Head(s) \notin Range(Tail(s))
  <2>1. SUFFICES ASSUME NEW i \in 1..(Len(s) - 1), s[i + 1] = s[1] PROVE FALSE
    BY <1>1 DEF Range
  <2>2. 1 \in DOMAIN s /\ i + 1 \in DOMAIN s /\ 1 < i + 1
    BY <1>1
  <2>3. QED
    BY <1>1, <1>2, <2>1, <2>2
<1>5. Range(s) = {Head(s)} \cup Range(Tail(s))
  <2>1. ASSUME NEW i \in 1..Len(s) PROVE s[i] \in {Head(s)} \cup Range(Tail(s))
    <3>1. CASE i = 1
      BY <1>1, <3>1
    <3>2. CASE i # 1
      <4>1. i - 1 \in 1..(Len(s) - 1) /\ (i - 1) + 1 = i
        BY <1>1, <3>2
      <4>2. QED
        BY <1>1, <4>1 DEF Range
    <3>3. QED
      BY <3>1, <3>2
  <2>2. ASSUME NEW i \in 1..(Len(s) - 1) PROVE Tail(s)[i] \in Range(s)
    BY <1>1, i + 1 \in 1..Len(s) DEF Range
  <2>3. QED
    BY <1>1, <2>1, <2>2 DEF Range
<1>6. QED
  BY <1>1, <1>2, <1>3, <1>4, <1>5

\* What there is to show of a state whose citations are C, in order.
LEMMA CitationsInOrder ==
    ASSUME NEW C \in SUBSET CitationType,
           \A c, d \in C : c.article = d.article => c = d,
           citations' = orderByArticleSet(C)
    PROVE  /\ citations' \in Seq(CitationType)
           /\ CitedArticles' = {c.article : c \in C}
           /\ \A i, j \in DOMAIN citations' : i < j => citations'[i].article < citations'[j].article
           /\ \A i \in DOMAIN citations' : citations'[i] \in C
<1>1. \A c \in C : c.article \in SopArticles
  BY DEF CitationType
<1>2. /\ citations' \in Seq(C) /\ Range(citations') = C
      /\ \A i, j \in DOMAIN citations' : i < j => citations'[i].article < citations'[j].article
  BY <1>1, OrderSorts
<1>3. citations' \in Seq(CitationType)
  BY <1>2
<1>4. CitedArticles' = {c.article : c \in C}
  BY <1>2 DEF CitedArticles, Range
<1>5. QED
  BY <1>2, <1>3, <1>4

LEMMA RetrievalInvNothing ==
    ASSUME RetrievalInv, NothingToCite PROVE RetrievalInv'
  BY DEF RetrievalInv, RetrievalTypeOK, EachArticleOnce, OverWhenRead, OutcomeTells,
         QuotesTheBest, RetrievalDone, CitedArticles, NothingToCite

LEMMA RetrievalInvThrows ==
    ASSUME RetrievalInv, KbThrows PROVE RetrievalInv'
<1>1. /\ wanted \in SUBSET SopArticles /\ wanted # {} /\ toFetch' = InOrder(wanted)
      /\ citations = <<>> /\ failed = {} /\ outcome = "pending" /\ kb' = "failed"
      /\ UNCHANGED <<wanted, chunks, citations, failed, outcome>>
  BY DEF RetrievalInv, RetrievalTypeOK, OverWhenRead, KbThrows
<1>2. /\ toFetch' \in Seq(SopArticles) /\ Range(toFetch') = wanted
      /\ \A i, j \in DOMAIN toFetch' : i < j => toFetch'[i] < toFetch'[j]
  BY <1>1, InOrderSorts
<1>3. toFetch' # <<>> /\ CitedArticles' = {}
  BY <1>1, <1>2, EmptyRange DEF CitedArticles
<1>4. RetrievalTypeOK'
  BY <1>1, <1>2 DEF RetrievalInv, RetrievalTypeOK
<1>5. EachArticleOnce'
  BY <1>1, <1>2, <1>3 DEF EachArticleOnce
<1>6. QED
  BY <1>1, <1>3, <1>4, <1>5
     DEF RetrievalInv, OverWhenRead, OutcomeTells, QuotesTheBest, RetrievalDone

LEMMA RetrievalInvAnswer ==
    ASSUME RetrievalInv, NEW results \in KbAnswers, KbAnswer(results) PROVE RetrievalInv'
<1> DEFINE best == mapKbResults(results, wanted)
           covered == {a \in wanted : best[a] # 0}
           C == {KbCitation(a, best[a]) : a \in covered}
<1>1. /\ wanted \in SUBSET SopArticles /\ outcome = "pending"
      /\ kb' = "answered" /\ chunks' = results /\ failed = {} /\ UNCHANGED <<wanted, failed>>
      /\ citations' = orderByArticleSet(C) /\ toFetch' = InOrder(wanted \ covered)
      /\ outcome' = IF covered = wanted THEN "kb" ELSE "pending"
  BY DEF RetrievalInv, RetrievalTypeOK, OverWhenRead, KbAnswer
<1>2. results \in Seq(Chunk)
  BY KbAnswersAssumption
<1>3. \A a \in wanted : Best(results, Len(results), a, best[a])
  BY <1>2, BestIsKept
<1> HIDE DEF best
<1>4. ASSUME NEW a \in covered
      PROVE  /\ KbCitation(a, best[a]) \in CitationType
             /\ KbCitation(a, best[a]).article = a
             /\ best[a] \in DOMAIN results
  BY <1>1, <1>2, <1>3 DEF KbCitation, CitationType, Best
<1>5. C \in SUBSET CitationType /\ \A c, d \in C : c.article = d.article => c = d
  BY <1>4
<1>6. {c.article : c \in C} = covered
  BY <1>4
<1>7. /\ citations' \in Seq(CitationType) /\ CitedArticles' = covered
      /\ \A i, j \in DOMAIN citations' : i < j => citations'[i].article < citations'[j].article
      /\ \A i \in DOMAIN citations' : citations'[i] \in C
  BY <1>1, <1>5, <1>6, CitationsInOrder
<1>8. /\ toFetch' \in Seq(SopArticles) /\ Range(toFetch') = wanted \ covered
      /\ \A i, j \in DOMAIN toFetch' : i < j => toFetch'[i] < toFetch'[j]
  BY <1>1, InOrderSorts
<1>9. toFetch' = <<>> <=> covered = wanted
  BY <1>8, EmptyRange
<1>10. RetrievalTypeOK'
  BY <1>1, <1>2, <1>7, <1>8 DEF RetrievalInv, RetrievalTypeOK, CitationType
<1>11. EachArticleOnce'
  BY <1>1, <1>7, <1>8 DEF EachArticleOnce
<1>12. OverWhenRead' /\ OutcomeTells'
  <2>1. \A i \in DOMAIN citations' : citations'[i].source = "kb"
    BY <1>7 DEF KbCitation
  <2>2. QED
    BY <1>1, <1>9, <2>1 DEF OverWhenRead, OutcomeTells, RetrievalDone
<1>13. QuotesTheBest'
  <2>1. ASSUME NEW i \in DOMAIN citations'
        PROVE  /\ citations'[i].chunk \in DOMAIN results
               /\ Best(results, Len(results), citations'[i].article, citations'[i].chunk)
    <3>1. PICK a \in covered : citations'[i] = KbCitation(a, best[a])
      BY <1>7
    <3>2. citations'[i].article = a /\ citations'[i].chunk = best[a]
      BY <3>1 DEF KbCitation
    <3>3. QED
      BY <1>3, <1>4, <3>2
  <2>2. QED
    BY <1>1, <2>1 DEF QuotesTheBest
<1>14. QED
  BY <1>10, <1>11, <1>12, <1>13 DEF RetrievalInv

\* The facts of the two S3 steps that do not depend on what was read.
LEMMA NextToFetch ==
    ASSUME RetrievalInv, outcome = "pending", toFetch # <<>>, toFetch' = Tail(toFetch)
    PROVE  /\ Head(toFetch) \in SopArticles
           /\ Head(toFetch) \notin CitedArticles /\ Head(toFetch) \notin failed
           /\ toFetch' \in Seq(SopArticles)
           /\ \A i, j \in DOMAIN toFetch' : i < j => toFetch'[i] < toFetch'[j]
           /\ kb # "pending"
           /\ wanted = CitedArticles \cup {Head(toFetch)} \cup Range(toFetch') \cup failed
           /\ Head(toFetch) \notin Range(toFetch')
           /\ CitedArticles \cap Range(toFetch') = {} /\ Range(toFetch') \cap failed = {}
           /\ toFetch' = <<>> <=> ~(Len(toFetch) > 1)
<1>1. /\ toFetch \in Seq(SopArticles)
      /\ \A i, j \in DOMAIN toFetch : i < j => toFetch[i] < toFetch[j]
  BY DEF RetrievalInv, RetrievalTypeOK, EachArticleOnce
<1>2. /\ Head(toFetch) \in SopArticles /\ toFetch' \in Seq(SopArticles)
      /\ \A i, j \in DOMAIN toFetch' : i < j => toFetch'[i] < toFetch'[j]
      /\ Range(toFetch) = {Head(toFetch)} \cup Range(toFetch')
      /\ Head(toFetch) \notin Range(toFetch')
      /\ toFetch' = <<>> <=> ~(Len(toFetch) > 1)
  BY <1>1, TailIsTheRest
<1>3. kb # "pending"
  BY DEF RetrievalInv, OverWhenRead
<1>4. /\ wanted = CitedArticles \cup Range(toFetch) \cup failed
      /\ CitedArticles \cap Range(toFetch) = {} /\ Range(toFetch) \cap failed = {}
  BY <1>3 DEF RetrievalInv, EachArticleOnce
<1>5. QED
  BY <1>2, <1>3, <1>4

LEMMA RetrievalInvFetched ==
    ASSUME RetrievalInv, S3Fetched PROVE RetrievalInv'
<1> DEFINE h == Head(toFetch)
           C == Range(citations) \cup {S3Citation(h)}
<1>1. /\ outcome = "pending" /\ toFetch # <<>> /\ toFetch' = Tail(toFetch)
      /\ citations' = orderByArticleSet(C) /\ outcome' = Conclusion(failed)
      /\ UNCHANGED <<wanted, kb, chunks, failed>>
  BY DEF S3Fetched
<1>2. /\ h \in SopArticles /\ h \notin CitedArticles /\ h \notin failed /\ kb # "pending"
      /\ toFetch' \in Seq(SopArticles)
      /\ \A i, j \in DOMAIN toFetch' : i < j => toFetch'[i] < toFetch'[j]
      /\ wanted = CitedArticles \cup {h} \cup Range(toFetch') \cup failed
      /\ h \notin Range(toFetch')
      /\ CitedArticles \cap Range(toFetch') = {} /\ Range(toFetch') \cap failed = {}
      /\ toFetch' = <<>> <=> ~(Len(toFetch) > 1)
  BY <1>1, NextToFetch
<1> HIDE DEF h
<1>3. /\ citations \in Seq(CitationType) /\ DOMAIN citations = 1..Len(citations)
      /\ \A i, j \in DOMAIN citations : i < j => citations[i].article < citations[j].article
      /\ CitedArticles \cap failed = {}
  BY <1>2 DEF RetrievalInv, RetrievalTypeOK, EachArticleOnce, CitationType
<1>4. S3Citation(h) \in CitationType /\ S3Citation(h).article = h
  BY <1>2 DEF S3Citation, CitationType
<1>5. ASSUME NEW i \in DOMAIN citations PROVE citations[i] \in CitationType
  BY <1>3
<1>6. C \in SUBSET CitationType
  BY <1>4, <1>5 DEF Range
<1>7. ASSUME NEW i \in DOMAIN citations, NEW j \in DOMAIN citations,
             citations[i].article = citations[j].article
      PROVE  i = j
  <2>1. citations[i].article \in Nat /\ citations[j].article \in Nat
    BY <1>5, ArticlesAreFinite DEF CitationType
  <2>2. ~(i < j) /\ ~(j < i)
    BY <1>3, <1>7, <2>1
  <2>3. QED
    BY <1>3, <2>2
<1>8. ASSUME NEW i \in DOMAIN citations PROVE citations[i].article # h
  BY <1>2 DEF CitedArticles
<1>9. ASSUME NEW c \in C, NEW d \in C, c.article = d.article PROVE c = d
  BY <1>4, <1>7, <1>8, <1>9 DEF Range
<1>10. {c.article : c \in C} = CitedArticles \cup {h}
  BY <1>4 DEF CitedArticles, Range
<1>11. /\ citations' \in Seq(CitationType) /\ CitedArticles' = CitedArticles \cup {h}
       /\ \A i, j \in DOMAIN citations' : i < j => citations'[i].article < citations'[j].article
       /\ \A i \in DOMAIN citations' : citations'[i] \in C
  BY <1>1, <1>6, <1>9, <1>10, CitationsInOrder
<1>12. ASSUME NEW i \in DOMAIN citations'
       PROVE  \/ citations'[i].source = "s3_fallback"
              \/ \E j \in DOMAIN citations : citations'[i] = citations[j]
  BY <1>11 DEF Range, S3Citation
<1>13. RetrievalTypeOK'
  BY <1>1, <1>2, <1>11 DEF RetrievalInv, RetrievalTypeOK, CitationType, Conclusion
<1>14. EachArticleOnce'
  BY <1>1, <1>2, <1>3, <1>11 DEF EachArticleOnce
<1>15. OverWhenRead'
  BY <1>1, <1>2 DEF OverWhenRead, RetrievalDone, Conclusion
<1>16. OutcomeTells'
  BY <1>1, <1>2, <1>12 DEF RetrievalInv, RetrievalTypeOK, OutcomeTells, RetrievalDone, Conclusion
<1>17. QuotesTheBest'
  <2>1. ASSUME NEW i \in DOMAIN citations', citations'[i].source = "kb"
        PROVE  /\ citations'[i].chunk \in DOMAIN chunks
               /\ Best(chunks, Len(chunks), citations'[i].article, citations'[i].chunk)
    BY <1>12, <2>1 DEF RetrievalInv, QuotesTheBest
  <2>2. QED
    BY <1>1, <2>1 DEF QuotesTheBest
<1>18. QED
  BY <1>13, <1>14, <1>15, <1>16, <1>17 DEF RetrievalInv

LEMMA RetrievalInvFailed ==
    ASSUME RetrievalInv, S3Failed PROVE RetrievalInv'
<1> DEFINE h == Head(toFetch)
<1>1. /\ outcome = "pending" /\ toFetch # <<>> /\ toFetch' = Tail(toFetch)
      /\ failed' = failed \cup {h} /\ outcome' = Conclusion(failed')
      /\ UNCHANGED <<wanted, kb, chunks, citations>>
  BY DEF S3Failed
<1>2. /\ h \in SopArticles /\ h \notin CitedArticles /\ kb # "pending"
      /\ toFetch' \in Seq(SopArticles)
      /\ \A i, j \in DOMAIN toFetch' : i < j => toFetch'[i] < toFetch'[j]
      /\ wanted = CitedArticles \cup {h} \cup Range(toFetch') \cup failed
      /\ h \notin Range(toFetch')
      /\ CitedArticles \cap Range(toFetch') = {} /\ Range(toFetch') \cap failed = {}
      /\ toFetch' = <<>> <=> ~(Len(toFetch) > 1)
  BY <1>1, NextToFetch
<1> HIDE DEF h
<1>3. CitedArticles' = CitedArticles /\ CitedArticles \cap failed = {}
  BY <1>1, <1>2 DEF CitedArticles, RetrievalInv, EachArticleOnce
<1>4. RetrievalTypeOK'
  BY <1>1, <1>2 DEF RetrievalInv, RetrievalTypeOK, Conclusion
<1>5. EachArticleOnce'
  BY <1>1, <1>2, <1>3 DEF RetrievalInv, EachArticleOnce
<1>6. OverWhenRead'
  BY <1>1, <1>2 DEF OverWhenRead, RetrievalDone, Conclusion
<1>7. OutcomeTells'
  BY <1>1, <1>2 DEF RetrievalInv, OutcomeTells, RetrievalDone, Conclusion
<1>8. QuotesTheBest'
  BY <1>1 DEF RetrievalInv, QuotesTheBest
<1>9. QED
  BY <1>4, <1>5, <1>6, <1>7, <1>8 DEF RetrievalInv

\* Retrieve, whatever the two stores do.
LEMMA RetrievalInvKept ==
    ASSUME RetrievalInv, Retrieve PROVE RetrievalInv'
  BY RetrievalInvNothing, RetrievalInvAnswer, RetrievalInvThrows, RetrievalInvFetched,
     RetrievalInvFailed DEF Retrieve
=============================================================================
