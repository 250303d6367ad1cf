---------------------------- MODULE SopRetrieval ----------------------------
(***************************************************************************)
(* SopRetriever.retrieve: one knowledge-base query for the whole citation  *)
(* set, then, for the articles it did not cover, one S3 read each, in      *)
(* order.  The knowledge base answers with any ranking of chunks, wrongly  *)
(* labelled and repeated ones included, or throws; every S3 read may fail, *)
(* and so does one whose object declares another article.                  *)
(***************************************************************************)
EXTENDS Naturals, Sequences, FiniteSets, SequencesExt

CONSTANTS
    KbAnswers,  \* the sequences of chunks the knowledge base may return
    NoArticle   \* an article number that cannot be inferred

\* How a chunk tells its article: a number in its metadata is taken as it is;
\* a string, or the fragment of its URI, only when it is an article.
SopArticles == 1..7
Chunk == [metadata: {"number", "string", "absent"}, declared: Nat, uri: Nat, score: Nat]

ASSUME KbAnswersAssumption == KbAnswers \subseteq Seq(Chunk)

VARIABLES
    wanted,     \* citation_article_set
    kb,         \* what the query answered: "pending", "failed" or "answered"
    chunks,     \* the chunks it returned
    citations,  \* the citations so far, in order
    toFetch,    \* the articles still to be read from S3
    failed,     \* the articles neither store returned
    outcome     \* "pending", "kb", "kb_partial_s3_fallback", "s3_fallback", "both_failed"

retrievalVars == <<wanted, kb, chunks, citations, toFetch, failed, outcome>>

extractArticleNo(c) ==
    IF c.metadata = "number" THEN c.declared
    ELSE IF c.metadata = "string" /\ c.declared \in SopArticles THEN c.declared
    ELSE IF c.uri \in SopArticles THEN c.uri
    ELSE NoArticle

\* For each wanted article the index of its best chunk, 0 when there is none:
\* the first of those with the highest score.  best[n] is after n chunks.
mapKbResults_LastWins(results, articles) ==
    LET best[n \in 0..Len(results)] ==
            IF n = 0 THEN [a \in articles |-> 0]
            ELSE [best[n - 1] EXCEPT ![extractArticleNo(results[n])] = n]
    IN  best[Len(results)]

mapKbResults(results, articles) ==
    LET best[n \in 0..Len(results)] ==
            IF n = 0 THEN [a \in articles |-> 0]
            ELSE LET before == best[n - 1]
                     art == extractArticleNo(results[n])
                     beaten == before[art] = 0 \/ results[n].score > results[before[art]].score
                 IN  IF art \in articles /\ beaten THEN [before EXCEPT ![art] = n] ELSE before
    IN  best[Len(results)]

KbCitation(a, i) == [article |-> a, source |-> "kb", chunk |-> i]
S3Citation(a) == [article |-> a, source |-> "s3_fallback", chunk |-> 0]

\* The elements of a set by increasing number, which tells them apart.
Sorted(set, Number(_)) ==
    CHOOSE s \in [1..Cardinality(set) -> set] :
        \A i, j \in DOMAIN s : i < j => Number(s[i]) < Number(s[j])

\* The citation set is sorted, so its order is the order of the numbers.
orderByArticleSet(set) == Sorted(set, LAMBDA c : c.article)

InOrder(articles) == Sorted(articles, LAMBDA a : a)

buildCitationArticleSet(triggered, formula) == triggered \cup formula

RetrievalInit(articles) ==
    /\ wanted = articles
    /\ kb = "pending" /\ chunks = <<>>
    /\ citations = <<>> /\ toFetch = <<>> /\ failed = {}
    /\ outcome = "pending"

\* An empty citation set asks nobody.
NothingToCite ==
    /\ outcome = "pending" /\ kb = "pending" /\ wanted = {}
    /\ outcome' = "kb"
    /\ UNCHANGED <<wanted, kb, chunks, citations, toFetch, failed>>

KbAnswer(results) ==
    /\ outcome = "pending" /\ kb = "pending" /\ wanted # {}
    /\ kb' = "answered" /\ chunks' = results
    /\ LET best == mapKbResults(results, wanted)
           covered == {a \in wanted : best[a] # 0}
       IN  /\ citations' = orderByArticleSet({KbCitation(a, best[a]) : a \in covered})
           /\ toFetch' = InOrder(wanted \ covered)
           /\ outcome' = IF covered = wanted THEN "kb" ELSE "pending"
    /\ UNCHANGED <<wanted, failed>>

KbThrows ==
    /\ outcome = "pending" /\ kb = "pending" /\ wanted # {}
    /\ kb' = "failed" /\ toFetch' = InOrder(wanted)
    /\ UNCHANGED <<wanted, chunks, citations, failed, outcome>>

\* After the last S3 read: any article without a citation makes it a failure.
Conclusion(failures) ==
    IF Len(toFetch) > 1 THEN "pending"
    ELSE IF failures # {} THEN "both_failed"
    ELSE IF kb = "answered" THEN "kb_partial_s3_fallback" ELSE "s3_fallback"

S3Fetched ==
    /\ outcome = "pending" /\ toFetch # <<>>
    /\ citations' = orderByArticleSet(Range(citations) \cup {S3Citation(Head(toFetch))})
    /\ toFetch' = Tail(toFetch)
    /\ outcome' = Conclusion(failed)
    /\ UNCHANGED <<wanted, kb, chunks, failed>>

S3Failed_Skips ==
    /\ outcome = "pending" /\ toFetch # <<>>
    /\ toFetch' = Tail(toFetch)
    /\ outcome' = Conclusion(failed)
    /\ UNCHANGED <<wanted, kb, chunks, citations, failed>>

S3Failed ==
    /\ outcome = "pending" /\ toFetch # <<>>
    /\ failed' = failed \cup {Head(toFetch)}
    /\ toFetch' = Tail(toFetch)
    /\ outcome' = Conclusion(failed')
    /\ UNCHANGED <<wanted, kb, chunks, citations>>

Retrieve ==
    \/ NothingToCite
    \/ \E results \in KbAnswers : KbAnswer(results)
    \/ KbThrows
    \/ S3Fetched
    \/ S3Failed

RetrievalDone == outcome # "pending"

-----------------------------------------------------------------------------
RetrievalTypeOK ==
    /\ wanted \subseteq SopArticles
    /\ kb \in {"pending", "answered", "failed"}
    /\ chunks \in Seq(Chunk)
    /\ citations \in Seq([article: SopArticles, source: {"kb", "s3_fallback"}, chunk: Nat])
    /\ toFetch \in Seq(SopArticles) /\ failed \subseteq SopArticles
    /\ outcome \in {"pending", "kb", "kb_partial_s3_fallback", "s3_fallback", "both_failed"}

\* However the two stores fail, in the end every article of the set is either
\* cited once or reported as a gap, in the order of the set, and the outcome
\* tells which (retrieve, tryS3Fallback and orderByArticleSet).
CitationsAccountedFor ==
    RetrievalDone =>
        /\ Range([i \in DOMAIN citations |-> citations[i].article]) = wanted \ failed
        /\ \A i, j \in DOMAIN citations : i < j => citations[i].article < citations[j].article
        /\ (outcome = "both_failed") <=> failed # {}
        /\ outcome = "kb" => \A i \in DOMAIN citations : citations[i].source = "kb"
        /\ outcome = "s3_fallback" => \A i \in DOMAIN citations : citations[i].source = "s3_fallback"

\* A citation taken from the knowledge base quotes a chunk of its own article,
\* and none of that article's chunks scores higher (mapKbResultsToCitations
\* keeps the best while it walks the ranking).
CitationIsBestOfItsArticle ==
    \A i \in DOMAIN citations : citations[i].source = "kb" =>
        LET c == chunks[citations[i].chunk] IN
        /\ extractArticleNo(c) = citations[i].article
        /\ \A j \in DOMAIN chunks :
               extractArticleNo(chunks[j]) = citations[i].article => chunks[j].score <= c.score
=============================================================================
