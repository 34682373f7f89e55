------------------------------ MODULE Search ------------------------------
(***************************************************************************)
(* Search over the published versions (search/adapters/postgres_search.py):*)
(* the filters, the full-text and the vector ranking, and their fusion.    *)
(* The text and the vectors themselves are left out: which versions match  *)
(* a query, and in which order, is an input of the request.  Scores are    *)
(* integers in units of 10^-6.                                             *)
(***************************************************************************)
EXTENDS Vocabulary, Integers, Sequences, FiniteSets, SequencesExt

CONSTANTS
    Objects,        \* rows of context_objects
    Catalog,        \* what never changes of each version, by version
    None

VARIABLES
    life,           \* context_objects.lifecycle_state
    current         \* context_objects.current_version_id

catalogVars == <<life, current>>

VersionIds == DOMAIN Catalog
ObjectOf(v) == Catalog[v].object

ASSUME CatalogAssumption ==
    /\ IsFiniteSet(VersionIds)
    /\ \A v \in VersionIds : /\ ObjectOf(v) \in Objects
                             /\ IsFiniteSet(DOMAIN Catalog[v].facets)
                             /\ Len(Catalog[v].citations) \in Nat

-----------------------------------------------------------------------------
(* Filters                                                                 *)

\* A filter that is not given is None; a value outside its enumeration is ignored.
\* The cap on difficulty comes with beginner_safe only when no difficulty was asked
\* for, whether the one asked for is tighter or not.
AttributesAllow(c, a) ==
    /\ a.difficulty_max # None => c.difficulty <= a.difficulty_max
    /\ a.stage \in Stages => c.stage = a.stage
    /\ a.risk_band \in DOMAIN RiskRank => RiskRank[c.risk] <= RiskRank[a.risk_band]
    /\ a.beginner_safe =>
         /\ RiskRank[c.risk] <= RiskRank["moderate"]
         /\ a.difficulty_max = None => c.difficulty <= 3
    /\ a.cost_band \in DOMAIN CostRank => CostRank[c.cost] <= CostRank[a.cost_band]
    /\ a.language # None => c.language = a.language

\* Facets of one type are alternatives, of several types all asked for; types that
\* are no FacetType and empty lists are ignored, which an input that has only known
\* types and values stands for.
FacetsAllow(c, wanted) ==
    \A t \in DOMAIN wanted : t \in DOMAIN c.facets /\ c.facets[t] \cap wanted[t] # {}

IsPublished(v) == life[ObjectOf(v)] = "published" /\ current[ObjectOf(v)] = v

Eligible(v, q) == IsPublished(v) /\ FacetsAllow(Catalog[v], q.facets) /\ AttributesAllow(Catalog[v], q.attributes)

\* A hit keeps what the row held when it was read.
Hit(v, score, facets) ==
    [version |-> v, score |-> score, life |-> life[ObjectOf(v)], facets |-> facets]

Take(s, n) == SubSeq(s, 1, IF n < Len(s) THEN n ELSE Len(s))

\* The versions of the order that pass the filters.
Ranked(order, q, n) ==
    LET Kept[i \in 0..Len(order)] ==
            IF i = 0 THEN <<>>
            ELSE IF Eligible(order[i], q) THEN Append(Kept[i - 1], order[i])
            ELSE Kept[i - 1]
    IN  Take(Kept[Len(order)], n)

FacetTypes(v) == DOMAIN Catalog[v].facets

\* search: ts_rank falls along the order the query gives.
TextHits(q, n) ==
    LET found == Ranked(q.text, q, n)
    IN  [i \in DOMAIN found |-> Hit(found[i], q.rank - i, FacetTypes(found[i]))]

\* _vector_search: the best segment of a version stands for it.  The filters are
\* those of the first statement; what became of its versions is read by the next,
\* and their facets, which never change, by a third.
Nearest(q, n) == Ranked(q.vector, q, n)

VectorHits(nearest) ==
    [i \in DOMAIN nearest |-> Hit(nearest[i], 0, FacetTypes(nearest[i]))]

-----------------------------------------------------------------------------
(* Fusion: reciprocal ranks, 0.7 for text and 0.3 for vectors, k = 60      *)

Contribution(hits, v, weight) ==
    LET at == {i \in DOMAIN hits : hits[i].version = v}
    IN  IF at = {} THEN 0 ELSE (weight * 1000000) \div (60 + (CHOOSE i \in at : TRUE))

\* Mutant: the rank is added instead of its reciprocal.
RankSum(text, vector, v) ==
    LET at(hits) == {i \in DOMAIN hits : hits[i].version = v}
        place(hits) == IF at(hits) = {} THEN 0 ELSE CHOOSE i \in at(hits) : TRUE
    IN  700 * place(text) + 300 * place(vector)

\* Units of 10^-9, rounded to six digits.
FusedScore(text, vector, v) == (Contribution(text, v, 700) + Contribution(vector, v, 300) + 500) \div 1000

HitOf(text, vector, v) ==
    LET at == {i \in DOMAIN text : text[i].version = v}
    IN  IF at # {} THEN text[CHOOSE i \in at : TRUE]
        ELSE vector[CHOOSE i \in {j \in DOMAIN vector : vector[j].version = v} : TRUE]

\* The versions of both lists by falling score; equal scores in any order.
Fused(text, vector, n) ==
    LET found == {text[i].version : i \in DOMAIN text} \cup {vector[i].version : i \in DOMAIN vector}
        score == [v \in found |-> FusedScore(text, vector, v)]
        orders == {s \in SetToSeqs(found) : \A i \in 1..Len(s) - 1 : score[s[i]] >= score[s[i + 1]]}
    IN  {[i \in DOMAIN Take(s, n) |-> [HitOf(text, vector, s[i]) EXCEPT !.score = score[s[i]]]] : s \in orders}

\* Without an embedding the text hits stand as they are, and are cut sooner.
Candidates(topK) == topK * 3

-----------------------------------------------------------------------------
(* What editors do meanwhile: publication as far as search can see it      *)

Publish(v) ==
    /\ ~IsPublished(v)
    /\ life' = [life EXCEPT ![ObjectOf(v)] = "published"]
    /\ current' = [current EXCEPT ![ObjectOf(v)] = v]

Deprecate(o) ==
    /\ life[o] # "deprecated"
    /\ life' = [life EXCEPT ![o] = "deprecated"]
    /\ UNCHANGED current

CatalogInit ==
    /\ life = [o \in Objects |-> "published"]
    /\ current \in [Objects -> VersionIds]
    /\ \A o \in Objects : ObjectOf(current[o]) = o
=============================================================================
