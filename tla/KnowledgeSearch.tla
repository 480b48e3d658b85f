----------------------------- MODULE KnowledgeSearch -----------------------------
(***************************************************************************)
(* Reading a knowledge base: SearchGetHandler and SearchService, await by  *)
(* await, over an index that changes meanwhile, and DocumentsGetHandler.   *)
(*                                                                         *)
(* A document has one chunk here.  How well a chunk answers the question   *)
(* is given: the order full-text and the vectors would rank all chunks in. *)
(* Who may read what comes from the caller's roles and is any set.         *)
(***************************************************************************)
EXTENDS Naturals, Sequences, FiniteSets, SequencesExt

CONSTANTS KnowledgeBases, Paths,
          Stripped,      \* path -> path without what follows its last "#", or the path itself
          Embedded,      \* knowledge bases with a model: kb.models[0], one and the same
          TextOrder,     \* documents that full-text finds, best first
          VectorOrder,   \* all documents, nearest first
          Superseded,    \* documents details marks as demoted
          Weights,       \* pairs <<vector, fullText>>
          Metadata,      \* document -> its pairs <<key, value>>, a scalar or an element of a list
          Filters,       \* the filters a caller may ask for, each a set of pairs
          Candidates, Limit, RrfK, Scale,   \* Scale: a multiple of every RrfK + rank
          MaxChanges     \* bound: changes of the index

Documents == KnowledgeBases \X Paths

VARIABLES stored,     \* the index: documents in it
          vectors,    \* those whose chunk has a vector
          query,      \* the request being answered
          steady,     \* history: documents stored ever since the request came
          late,       \* history: documents that got their vector since then
          changes

vars == <<stored, vectors, query, steady, late, changes>>

NoQuery == [at |-> "idle", kbs |-> {}, filter |-> {}, weights |-> <<0, 0>>, rankings |-> <<>>, models |-> FALSE,
            text |-> FALSE, covered |-> {}, hits |-> <<>>, mode |-> "none", found |-> {}]

Init ==
  /\ stored \in SUBSET Documents
  /\ vectors \in SUBSET {d \in stored : d[1] \in Embedded}
  /\ query = NoQuery /\ steady = {} /\ late = {} /\ changes = 0

----------------------------------------------------------------------------
(* The index *)

\* The indexer stores a document, deletes one, or stores a vector.
IndexChanges ==
  /\ changes < MaxChanges
  /\ changes' = changes + 1
  /\ \E d \in Documents :
       \/ /\ d \notin stored
          /\ stored' = stored \cup {d}
          /\ UNCHANGED <<vectors, steady, late>>
       \/ /\ d \in stored
          /\ stored' = stored \ {d} /\ vectors' = vectors \ {d} /\ steady' = steady \ {d}
          /\ UNCHANGED late
       \/ /\ d \in stored \ vectors /\ d[1] \in Embedded
          /\ vectors' = vectors \cup {d} /\ late' = late \cup {d}
          /\ UNCHANGED <<stored, steady>>
  /\ UNCHANGED query

\* The elements of a set in an order given as pairs: the n-th has n - 1 before it.
Ranked(S, order) == [n \in 1 .. Cardinality(S) |-> CHOOSE d \in S : Cardinality({e \in S : <<e, d>> \in order}) = n - 1]

At(ids, d) == CHOOSE n \in DOMAIN ids : ids[n] = d

\* slice, LIMIT
Cut(ids, limit) == SubSeq(ids, 1, IF Len(ids) < limit THEN Len(ids) ELSE limit)

Best(order, among) ==
  LET ids == ToSet(order) \cap among
  IN  Cut(Ranked(ids, {p \in ids \X ids : At(order, p[1]) < At(order, p[2])}), Candidates)

Of(kbs) == {d \in stored : d[1] \in kbs}

\* metadataFilterSql: values of one key are alternatives, keys must all match.
Matches(d, filter) == \A pair \in filter : \E other \in filter : other[1] = pair[1] /\ other \in Metadata[d]

Matching(kbs) == {d \in Of(kbs) : Matches(d, query.filter)}

\* SearchRepository.fullText, over all chunks or those without a vector.
FullText(kbs, without) == Best(TextOrder, Matching(kbs) \ (IF without THEN vectors ELSE {}))

\* SearchRepository.vector
Nearest(kbs) == Best(VectorOrder, Matching(kbs) \cap vectors)

----------------------------------------------------------------------------
(* Fusion *)

Share(ranking, d) ==
  IF d \in ToSet(ranking.ids) THEN ranking.weight * (Scale \div (RrfK + At(ranking.ids, d))) ELSE 0

\* RankFusionService.fuse: the sum of what each list gives, then the best rank, then the first seen.
Score(rankings, d) ==
  LET sum[i \in 0 .. Len(rankings)] == IF i = 0 THEN 0 ELSE sum[i - 1] + Share(rankings[i], d)
  IN  sum[Len(rankings)]

Having(rankings, d) == {i \in DOMAIN rankings : d \in ToSet(rankings[i].ids)}
Smallest(S) == CHOOSE n \in S : \A m \in S : n <= m
First(rankings, d) == Smallest(Having(rankings, d))
BestRank(rankings, d) == Smallest({At(rankings[i].ids, d) : i \in Having(rankings, d)})

Precedes(rankings, a, b) ==
  \/ Score(rankings, a) > Score(rankings, b)
  \/ /\ Score(rankings, a) = Score(rankings, b)
     /\ \/ BestRank(rankings, a) < BestRank(rankings, b)
        \/ /\ BestRank(rankings, a) = BestRank(rankings, b)
           /\ \/ First(rankings, a) < First(rankings, b)
              \/ /\ First(rankings, a) = First(rankings, b)
                 /\ At(rankings[First(rankings, a)].ids, a) < At(rankings[First(rankings, a)].ids, b)

Fuse(rankings) ==
  LET found == UNION {ToSet(rankings[i].ids) : i \in DOMAIN rankings}
  IN  Ranked(found, {p \in found \X found : Precedes(rankings, p[1], p[2])})

----------------------------------------------------------------------------
(* A search *)

Ranking(ids, weight) == [ids |-> ids, weight |-> weight]

\* MUTANT: the group counts as covered before its question is embedded.
EmbedCovering(kbs) ==
  /\ query.at = "embedding"
  /\ \/ query' = [query EXCEPT !.at = "nearest"]
     \/ query' = [query EXCEPT !.at = "fulltext", !.covered = kbs]
  /\ UNCHANGED <<stored, vectors, steady, late, changes>>

\* The knowledge bases asked that have a vector leg: byModel.
Group == query.kbs \cap Embedded

\* What the caller asked for, or all he may read; {} as well for a name he may not read, which is a
\* 404 exactly as one that does not exist.
Resolve(readable, requested) ==
  IF requested = {} THEN readable ELSE IF requested \subseteq readable THEN requested ELSE {}

\* SearchService.search: nothing to read is answered at once.
Started(kbs, filter, weights) ==
  [NoQuery EXCEPT !.kbs = kbs, !.filter = filter, !.weights = weights, !.mode = "FULLTEXT",
     !.at = IF kbs = {} THEN "done"
            ELSE IF weights[1] > 0 /\ kbs \cap Embedded # {} THEN "embedding" ELSE "fulltext"]

\* SearchGetHandler
Ask ==
  /\ query.at \in {"idle", "done"}
  /\ \E readable \in SUBSET KnowledgeBases, requested \in SUBSET KnowledgeBases,
        filter \in Filters, weights \in Weights :
       LET kbs == Resolve(readable, requested)
       IN  query' = IF kbs = {} /\ requested # {} THEN [NoQuery EXCEPT !.at = "done", !.mode = "404"]
                    ELSE Started(kbs, filter, weights)
  /\ steady' = stored /\ late' = {}
  /\ UNCHANGED <<stored, vectors, changes>>

\* embedQuery: a failure is no failure of the search.
Embed(kbs) ==
  /\ query.at = "embedding"
  /\ query' \in {[query EXCEPT !.at = "nearest"], [query EXCEPT !.at = "fulltext"]}
  /\ UNCHANGED <<stored, vectors, steady, late, changes>>

\* The vector leg; without a full-text leg, a look at what has no vector follows.
VectorLeg ==
  /\ query.at = "nearest"
  /\ query' = [query EXCEPT !.at = IF query.weights[2] > 0 THEN "fulltext" ELSE "unembedded",
                            !.rankings = Append(@, Ranking(Nearest(Group), query.weights[1])),
                            !.models = TRUE, !.covered = Group]
  /\ UNCHANGED <<stored, vectors, steady, late, changes>>

Unembedded ==
  /\ query.at = "unembedded"
  /\ LET ids == FullText(Group, TRUE)
     IN  query' = IF ids = <<>> THEN [query EXCEPT !.at = "fulltext"]
                  ELSE [query EXCEPT !.at = "fulltext", !.rankings = Append(@, Ranking(ids, 1)), !.text = TRUE]
  /\ UNCHANGED <<stored, vectors, steady, late, changes>>

\* Full-text over everything when it has a weight, else where no vector leg ran.
TextLeg ==
  /\ query.at = "fulltext"
  /\ LET weighted == query.weights[2] > 0
         kbs == IF weighted THEN query.kbs ELSE query.kbs \ query.covered
     IN  query' = IF kbs = {} THEN [query EXCEPT !.at = "details"]
                  ELSE [query EXCEPT !.at = "details", !.text = TRUE,
                          !.rankings = Append(@, Ranking(FullText(kbs, FALSE), IF weighted THEN query.weights[2] ELSE 1))]
  /\ UNCHANGED <<stored, vectors, steady, late, changes>>

Mode == IF ~query.models THEN "FULLTEXT" ELSE IF query.text THEN "HYBRID" ELSE "VECTOR"

\* SearchRepository.details: what has gone since has none; superseded documents go to the end.
Shown(cut) ==
  LET there == ToSet(cut) \cap stored
      before == {p \in there \X there :
                   IF p[1] \in Superseded <=> p[2] \in Superseded THEN At(cut, p[1]) < At(cut, p[2]) ELSE p[2] \in Superseded}
  IN  Ranked(there, before)

\* MUTANT: demoted before the cut.
DetailsDemotedFirst ==
  /\ query.at = "details"
  /\ LET fused == Fuse(query.rankings)
     IN  query' = [query EXCEPT !.at = "done", !.mode = Mode, !.found = ToSet(fused), !.hits = Cut(Shown(fused), Limit)]
  /\ UNCHANGED <<stored, vectors, steady, late, changes>>

\* Cut to the limit, then demote.
Details ==
  /\ query.at = "details"
  /\ LET fused == Fuse(query.rankings)
     IN  query' = [query EXCEPT !.at = "done", !.mode = Mode, !.found = ToSet(fused), !.hits = Shown(Cut(fused, Limit))]
  /\ UNCHANGED <<stored, vectors, steady, late, changes>>

----------------------------------------------------------------------------
(* One document *)

\* DocumentsGetHandler's find: the id as given, and when nothing has it, without its anchor.
Get ==
  /\ query.at \in {"idle", "done"}
  /\ \E kbs \in SUBSET KnowledgeBases, id \in Paths :
       LET exact == {d \in Of(kbs) : d[2] = id}
       IN  IF exact # {} \/ Stripped[id] = id
             THEN query' = [NoQuery EXCEPT !.at = "got", !.kbs = kbs, !.found = exact]
             ELSE query' = [NoQuery EXCEPT !.at = "finding", !.kbs = kbs, !.hits = <<id>>]
  /\ steady' = {} /\ late' = {}
  /\ UNCHANGED <<stored, vectors, changes>>

FindStripped ==
  /\ query.at = "finding"
  /\ query' = [query EXCEPT !.at = "got", !.found = {d \in Of(query.kbs) : d[2] = Stripped[query.hits[1]]}, !.hits = <<>>]
  /\ UNCHANGED <<stored, vectors, steady, late, changes>>

\* More than one knowledge base may hold the id.
Answer ==
  /\ query.at = "got"
  /\ query' = [NoQuery EXCEPT !.at = "done", !.kbs = query.kbs,
                 !.hits = IF Cardinality(query.found) = 1 THEN SetToSeq(query.found) ELSE <<>>,
                 !.mode = IF query.found = {} THEN "404" ELSE IF Cardinality(query.found) = 1 THEN "200" ELSE "409"]
  /\ UNCHANGED <<stored, vectors, steady, late, changes>>

Next ==
  \/ IndexChanges
  \/ Ask \/ Embed(Group) \/ VectorLeg \/ Unembedded \/ TextLeg \/ Details
  \/ Get \/ FindStripped \/ Answer

Spec == Init /\ [][Next]_vars

----------------------------------------------------------------------------
(* Properties *)

Searched == query.at = "done" /\ query.mode \in {"FULLTEXT", "HYBRID", "VECTOR"}

\* SearchService: "degrades instead of failing": a document that full-text can find, stored all along and
\* within the filter, is among the candidates, whatever becomes of the embedder, unless its vector came
\* between the two legs or one of the legs was full by itself.
NothingMissed ==
  Searched => \A d \in ToSet(TextOrder) : d[1] \in query.kbs /\ Matches(d, query.filter) /\ d \in steady =>
                \/ d \in query.found \cup late
                \/ \E i \in DOMAIN query.rankings : Len(query.rankings[i].ids) >= Candidates

\* What is shown comes from the knowledge bases asked and matches the filter, the superseded behind the others.
ShownRight ==
  query.at = "done" =>
    /\ \A i \in DOMAIN query.hits : query.hits[i][1] \in query.kbs /\ Matches(query.hits[i], query.filter)
    /\ Searched => \A i, j \in DOMAIN query.hits :
         query.hits[i] \in Superseded /\ query.hits[j] \notin Superseded => j < i

\* A hit is before those to which the legs' ranks give less, but for the superseded behind the others; and what
\* they give more than to a hit is shown too, unless it was deleted meanwhile, a superseded one not excepted.
BestFirst ==
  Searched =>
    LET score(d) == Score(query.rankings, d)
    IN  /\ \A i, j \in DOMAIN query.hits : score(query.hits[i]) > score(query.hits[j]) =>
             i < j \/ (query.hits[i] \in Superseded /\ query.hits[j] \notin Superseded)
        /\ \A d \in query.found \cap steady, i \in DOMAIN query.hits :
             score(d) > score(query.hits[i]) => d \in ToSet(query.hits)

\* Reading an index that changes under the search, with the embedder failing, misses nothing and shows
\* nothing else, the best of it first.
AnswersWhole == NothingMissed /\ ShownRight /\ BestFirst
=============================================================================
