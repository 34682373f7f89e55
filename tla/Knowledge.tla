----------------------------- MODULE Knowledge -----------------------------
(***************************************************************************)
(* Entities, their aliases and object links, the edges of the graph and    *)
(* their citations (services/entities.py, services/evidence.py, the entity *)
(* and edge part of services/registry.py), and the walks over the edges    *)
(* (graph/adapters/relational_graph.py).                                   *)
(*                                                                         *)
(* A merge of two entities is one transaction of many statements.  At READ *)
(* COMMITTED each statement sees what other requests have committed before *)
(* it, so every statement is a step: the transaction keeps the rows it has *)
(* deleted and the rows it has written, and sees the database through them.*)
(* No route calls merge_entities: one merge runs at a time, against any    *)
(* requests of the API.  Those requests write one row each; they are       *)
(* single actions, but for the citation of an edge, which looks a row up   *)
(* in one step and inserts it in another.                                  *)
(***************************************************************************)
EXTENDS Vocabulary, Integers, Sequences, FiniteSets

CONSTANTS
    Entities,       \* rows of entities that can exist
    Docs,           \* context object versions
    LinkedDocs,     \* versions clients link to entities
    Assessments,    \* versions of an object of type assessment
    Names,          \* alias texts
    Spans,          \* rows of evidence_spans
    EdgeIds,        \* rows of edges; requests take 1, 2, ... in turn, so none is used twice
    CitedEdges,     \* edges clients cite
    EdgeChoices,    \* <<src, type, dst>> that clients send
    StartRows,      \* rows a behaviour may start from, any subset
    MaxRequests,    \* bound: rows written by requests in a behaviour
    MaxMerges       \* bound: merges begun in a behaviour

Nodes == Entities \cup Docs

ASSUME KnowledgeAssumption ==
    /\ Entities \cap Docs = {} /\ "none" \notin Entities
    /\ Assessments \subseteq Docs /\ LinkedDocs \subseteq Docs
    /\ EdgeChoices \subseteq Nodes \X EdgeTypes \X Nodes
    /\ IsFiniteSet(Entities)
    /\ 1..MaxRequests \subseteq EdgeIds /\ CitedEdges \subseteq EdgeIds
    /\ MaxRequests \in Nat /\ MaxMerges \in Nat

VARIABLES
    status,     \* entities.status; "absent": no such row yet
    rows,       \* the committed rows of the four tables below
    late,       \* history: keys of the rows written to an entity once its merge had begun
    merged,     \* the entity.merged events of the outbox: <<source, target>>
    attached,   \* how many edge.citation_attached events each citation has
    merge,      \* the open merge transaction
    pending,    \* citations looked up, found missing and not inserted yet
    requests    \* rows written by requests so far

knowledgeVars == <<status, rows, late, merged, attached, merge, pending, requests>>

-----------------------------------------------------------------------------
(* The tables, one record per row; nodes stand for kind and id together.   *)

AliasRow == [table : {"alias"}, entity : Entities, name : Names]
LinkRow == [table : {"link"}, entity : Entities, version : Docs]
EdgeRow == [table : {"edge"}, id : EdgeIds, src : Nodes, type : EdgeTypes, dst : Nodes]
CiteRow == [table : {"cite"}, edge : EdgeIds, span : Spans]
Row == AliasRow \cup LinkRow \cup EdgeRow \cup CiteRow

ASSUME StartAssumption ==
    /\ StartRows \subseteq Row
    /\ \A r \in StartRows : r.table = "edge" => r.id \notin 1..MaxRequests

AliasesOf(R, e) == {r \in R : r.table = "alias" /\ r.entity = e}
LinksOf(R, e) == {r \in R : r.table = "link" /\ r.entity = e}
EdgesIn(R) == {r \in R : r.table = "edge"}
OutOf(R, n) == {r \in EdgesIn(R) : r.src = n}
Into(R, n) == {r \in EdgesIn(R) : r.dst = n}
RowsOf(R, e) == AliasesOf(R, e) \cup LinksOf(R, e) \cup OutOf(R, e) \cup Into(R, e)

\* A row's identity: a merge rewrites the ends of an edge, its id stays.
KeyOf(r) == IF r.table = "edge" THEN [table |-> "edge", id |-> r.id] ELSE r

\* The foreign key of edge_evidence_spans deletes a citation with its edge.
WithoutOrphans(R) == {r \in R : r.table = "cite" => \E d \in EdgesIn(R) : d.id = r.edge}

\* The unique constraints of entity_aliases and context_object_entities hold by
\* the shape of the rows: a set has no two equal rows.
NoMerge == [source |-> "none", target |-> "none", step |-> 0, gone |-> {}, put |-> {}]

-----------------------------------------------------------------------------
(* merge_entities                                                          *)

View == WithoutOrphans((rows \ merge.gone) \cup merge.put)

\* What a statement changes: the rows it deletes, or maps to what they become.
Delete(D) == [deleted |-> D, written |-> {}]
Rewrite(new) == [deleted |-> DOMAIN new, written |-> {new[r] : r \in DOMAIN new}]

DuplicateAliases(R, s, t) ==
    {r \in AliasesOf(R, s) : \E q \in AliasesOf(R, t) : q.name = r.name}

DuplicateLinks(R, s, t) ==
    {r \in LinksOf(R, s) : \E q \in LinksOf(R, t) : q.version = r.version}

\* Mutant: only the type is compared.
DuplicateOutByType(R, s, t) == {r \in OutOf(R, s) : \E q \in OutOf(R, t) : q.type = r.type}

\* Three lists that are matched independently of each other: another end (its
\* kind goes with it) and a type of the target's edges, not of one such edge.
DuplicateOut(R, s, t) ==
    {r \in OutOf(R, s) : /\ \E q \in OutOf(R, t) : q.dst = r.dst
                         /\ \E q \in OutOf(R, t) : q.type = r.type}

DuplicateInto(R, s, t) ==
    {r \in Into(R, s) : /\ \E q \in Into(R, t) : q.src = r.src
                        /\ \E q \in Into(R, t) : q.type = r.type}

\* Mutant: incoming edges are deduplicated and never moved.
StatementsWithoutIn == <<"alias_duplicates", "aliases", "link_duplicates", "links",
                         "out_duplicates", "in_duplicates", "out", "loops">>

Statements == <<"alias_duplicates", "aliases", "link_duplicates", "links",
                "out_duplicates", "in_duplicates", "out", "in", "loops">>

Effect(name, R, s, t) ==
    CASE name = "alias_duplicates" -> Delete(DuplicateAliases(R, s, t))
      [] name = "aliases" -> Rewrite([r \in AliasesOf(R, s) |-> [r EXCEPT !.entity = t]])
      [] name = "link_duplicates" -> Delete(DuplicateLinks(R, s, t))
      [] name = "links" -> Rewrite([r \in LinksOf(R, s) |-> [r EXCEPT !.entity = t]])
      [] name = "out_duplicates" -> Delete(DuplicateOut(R, s, t))
      [] name = "in_duplicates" -> Delete(DuplicateInto(R, s, t))
      [] name = "out" -> Rewrite([r \in OutOf(R, s) |-> [r EXCEPT !.src = t]])
      [] name = "in" -> Rewrite([r \in Into(R, s) |-> [r EXCEPT !.dst = t]])
      [] name = "loops" -> Delete(OutOf(R, t) \cap Into(R, t))

\* Mutant: an entity may be merged into itself.
CanMergeAny(s, t) == status[s] = "active" /\ status[t] = "active"

CanMerge(s, t) == s # t /\ status[s] = "active" /\ status[t] = "active"

MergeBegin(s, t) ==
    /\ merge = NoMerge
    /\ Cardinality(merged) < MaxMerges
    /\ CanMerge(s, t)
    /\ merge' = [NoMerge EXCEPT !.source = s, !.target = t, !.step = 1]
    /\ UNCHANGED <<status, rows, late, merged, attached, pending, requests>>

\* A rewrite that meets a row committed since the duplicates were deleted breaks
\* the unique constraint: the request fails and nothing of the merge remains.
MergeStatement ==
    LET effect == Effect(Statements[merge.step], View, merge.source, merge.target)
    IN  /\ merge.step \in 1..Len(Statements)
        /\ merge' = IF effect.written \cap View # {}
                    THEN NoMerge
                    ELSE [merge EXCEPT !.step = @ + 1,
                                       !.gone = @ \cup effect.deleted,
                                       !.put = (@ \ effect.deleted) \cup effect.written]
        /\ UNCHANGED <<status, rows, late, merged, attached, pending, requests>>

\* The mark and the event are written with everything before them in one commit.
MergeCommit ==
    /\ merge.step = Len(Statements) + 1
    /\ rows' = View
    /\ status' = [status EXCEPT ![merge.source] = "merged"]
    /\ merged' = merged \cup {<<merge.source, merge.target>>}
    /\ merge' = NoMerge
    /\ UNCHANGED <<late, attached, pending, requests>>

\* A dropped connection rolls the merge back.
MergeLost ==
    /\ merge # NoMerge
    /\ merge' = NoMerge
    /\ UNCHANGED <<status, rows, late, merged, attached, pending, requests>>

-----------------------------------------------------------------------------
(* Requests of the API.  None of them looks at an entity's status.         *)

\* A row is inserted next to what an open merge has not committed: an equal row
\* of the merge makes the insert wait and fail, so only a fresh one succeeds.
Insert(r) ==
    /\ requests < MaxRequests
    /\ r \notin rows \cup merge.put
    /\ rows' = rows \cup {r}
    /\ late' = late \cup (IF \E e \in Entities : /\ r \in RowsOf({r}, e)
                                                 /\ e = merge.source \/ status[e] = "merged"
                          THEN {KeyOf(r)} ELSE {})
    /\ requests' = requests + 1
    /\ UNCHANGED <<status, merged, attached, merge, pending>>

\* The name is looked up first, and the unique constraint settles a race.
CreateEntity(e) ==
    /\ status[e] = "absent"
    /\ status' = [status EXCEPT ![e] = "active"]
    /\ UNCHANGED <<rows, late, merged, attached, merge, pending, requests>>

AddAlias(e, n) ==
    /\ status[e] # "absent"
    /\ Insert([table |-> "alias", entity |-> e, name |-> n])

\* session.merge: an existing link only has its label and count replaced.
AttachEntities(e, d) ==
    /\ status[e] # "absent"
    /\ Insert([table |-> "link", entity |-> e, version |-> d])

ValidEdge(src, type, dst) ==
    /\ type = "contains" => src \in Docs
    /\ type \in {"requires_tool", "requires_material", "applies_in", "adapted_for"} => dst \in Entities
    /\ type \in {"supersedes", "deprecated_by", "corrected_by", "assessed_by", "translated_from"}
          => {src, dst} \subseteq Docs
    /\ type = "assessed_by" => dst \in Assessments
    /\ type = "translated_from" => (src \in Assessments) = (dst \in Assessments)

NodeExists(n) == n \in Entities => status[n] # "absent"

CreateEdge(src, type, dst) ==
    /\ NodeExists(src) /\ NodeExists(dst)
    /\ ValidEdge(src, type, dst)
    /\ Insert([table |-> "edge", id |-> requests + 1, src |-> src, type |-> type, dst |-> dst])

Cite(id, p) == [table |-> "cite", edge |-> id, span |-> p]

\* attach_span_to_edge returns the citation it finds; a missing one is inserted
\* in a later step, by each of the requests that missed it (at most two here).
AttachLookup(id, p) ==
    /\ Len(pending) < 2
    /\ \E d \in EdgesIn(rows) : d.id = id
    /\ Cite(id, p) \notin rows
    /\ pending' = Append(pending, Cite(id, p))
    /\ UNCHANGED <<status, rows, late, merged, attached, merge, requests>>

\* Mutant: the insert overwrites what is there.
InsertableAlways(c) == \E d \in EdgesIn(View) : d.id = c.edge

\* The primary key refuses a second insert, the foreign key one without its edge.
Insertable(c) == c \notin rows /\ \E d \in EdgesIn(View) : d.id = c.edge

AttachInsert ==
    LET c == Head(pending)
    IN  /\ pending # <<>>
        /\ pending' = Tail(pending)
        /\ IF Insertable(c)
           THEN /\ rows' = rows \cup {c}
                /\ attached' = [attached EXCEPT ![c] = @ + 1]
           ELSE UNCHANGED <<rows, attached>>
        /\ UNCHANGED <<status, late, merged, merge, requests>>

-----------------------------------------------------------------------------
\* Nothing is under way.
KnowledgeAtRest ==
    /\ late = {} /\ merged = {} /\ pending = <<>> /\ requests = 0
    /\ attached = [c \in CiteRow |-> IF c \in rows THEN 1 ELSE 0]
    /\ merge = NoMerge

KnowledgeInit ==
    /\ status \in [Entities -> {"absent", "active"}]
    /\ rows \in {WithoutOrphans(R) : R \in SUBSET StartRows}
    /\ \A e \in Entities : status[e] = "absent" <=> RowsOf(rows, e) = {} /\ RowsOf(StartRows, e) = {}
    /\ KnowledgeAtRest

KnowledgeNext ==
    \/ \E s, t \in Entities : MergeBegin(s, t)
    \/ MergeStatement
    \/ MergeCommit
    \/ MergeLost
    \/ \E e \in Entities : CreateEntity(e)
    \/ \E e \in Entities, n \in Names : AddAlias(e, n)
    \/ \E e \in Entities, d \in LinkedDocs : AttachEntities(e, d)
    \/ \E c \in EdgeChoices : CreateEdge(c[1], c[2], c[3])
    \/ \E id \in CitedEdges, p \in Spans : AttachLookup(id, p)
    \/ AttachInsert

KnowledgeSpec == KnowledgeInit /\ [][KnowledgeNext]_knowledgeVars

KnowledgeTypeOK ==
    /\ status \in [Entities -> {"absent", "active", "merged"}]
    /\ rows \subseteq Row
    /\ late \subseteq AliasRow \cup LinkRow \cup [table : {"edge"}, id : EdgeIds]
    /\ merged \subseteq Entities \X Entities
    /\ attached \in [CiteRow -> Nat]
    /\ merge \in [source : Entities \cup {"none"}, target : Entities \cup {"none"},
                  step : 0..Len(Statements) + 1, gone : SUBSET Row, put : SUBSET Row]
    /\ pending \in Seq(CiteRow)
    /\ requests \in 0..MaxRequests

-----------------------------------------------------------------------------
(* RelationalGraphAdapter                                                  *)

\* Mutant: a round starts from every edge's end, the seen ones never expanded.
NeighboursOfSeeds(seeds, types, depth) ==
    {d \in EdgesIn(rows) : d.src \in seeds /\ (types = {} \/ d.type \in types)}

\* Walk[k]: the frontier, the nodes seen and the edges collected after k rounds.
\* An empty frontier ends the loop; here it stays empty.
Neighbours(seeds, types, depth) ==
    LET Round(w) ==
            LET found == UNION {OutOf(rows, n) : n \in w.frontier}
                edges == {d \in found : types = {} \/ d.type \in types}
                new == {d.dst : d \in edges} \ w.seen
            IN  [frontier |-> new, seen |-> w.seen \cup new, edges |-> w.edges \cup edges]
        Walk[k \in 0..depth] ==
            IF k = 0 THEN [frontier |-> seeds, seen |-> seeds, edges |-> {}]
            ELSE Round(Walk[k - 1])
    IN  Walk[depth].edges

\* paths_between is a breadth-first search: what it returns has as many edges as
\* the first round that meets dst, and is empty (0) when none does.
PathLength(src, dst, types, depth) ==
    LET hits == {k \in 1..depth : \E d \in Neighbours({src}, types, k) : d.dst = dst}
    IN  IF hits = {} THEN 0 ELSE CHOOSE k \in hits : \A j \in hits : k <= j

\* The versions that must be known before each of the given ones.
ReversePrerequisites(versions, prerequisite) ==
    [v \in versions |-> {d.src : d \in {x \in Into(rows, v) : x.type = prerequisite}}]

-----------------------------------------------------------------------------
(* Properties                                                              *)

\* Merging loses nobody's neighbour.  At the commit each alias and link of the
\* source is one of the target's, or was written too late to be moved; and nodes
\* that an edge joined before are joined in that direction after, the target
\* standing for the source, be it by an edge of another type.
MergeKeepsNeighbours ==
    [][merged' # merged =>
        LET s == merge.source
            t == merge.target
            New(n) == IF n = s THEN t ELSE n
        IN  /\ \A r \in AliasesOf(rows, s) \ rows' : \E q \in AliasesOf(rows', t) : q.name = r.name
            /\ \A r \in LinksOf(rows, s) \ rows' : \E q \in LinksOf(rows', t) : q.version = r.version
            /\ \A r \in EdgesIn(rows) : New(r.src) # New(r.dst) =>
                 \E q \in EdgesIn(rows') : New(q.src) = New(r.src) /\ New(q.dst) = New(r.dst)]_knowledgeVars

\* A merged entity keeps no row that was there when its merge began: whoever
\* looks under the old entity finds only what was written to it since.
MergedEntityIsEmpty ==
    \A e \in Entities : status[e] = "merged" => {KeyOf(r) : r \in RowsOf(rows, e)} \subseteq late

\* From a merged entity the entity.merged events lead, hop by hop, to an entity
\* that is still active: merging never leaves a group of names without one.
SurvivorActive ==
    LET Hop[k \in 0..Cardinality(Entities)] == IF k = 0 THEN {e \in Entities : status[e] = "active"}
            ELSE Hop[k - 1] \cup {p[1] : p \in {q \in merged : q[2] \in Hop[k - 1]}}
    IN  \A e \in Entities : status[e] = "merged" => e \in Hop[Cardinality(Entities)]

\* However requests race to cite an edge, each citation is announced once: the
\* loser of the race fails on the primary key and its event rolls back with it.
CitedOnce == \A c \in CiteRow : attached[c] <= 1 /\ (c \in rows => attached[c] = 1)

\* Reference: Reach[k] is the set of nodes at the end of a walk of exactly k edges
\* of these types, seen nodes and all.
Reach(n, types) ==
    LET usable == {d \in EdgesIn(rows) : types = {} \/ d.type \in types}
        Ends[k \in 0..3] == IF k = 0 THEN {n} ELSE {d.dst : d \in {x \in usable : x.src \in Ends[k - 1]}}
    IN  [k \in 0..3 |-> Ends[k]]

\* What the graph adapter collects in k rounds from a node is every edge that a
\* walk of fewer than k edges leads to, cycles included; and the path it returns
\* between two nodes is as short as any walk between them.
WalksAreComplete ==
    merge = NoMerge =>
    \A n \in {d.src : d \in EdgesIn(rows)}, types \in {{}, {"alternative_to"}} :
        LET reach == Reach(n, types)
        IN  /\ \A k \in 1..3 : Neighbours({n}, types, k) =
                 {d \in EdgesIn(rows) : /\ types = {} \/ d.type \in types
                                        /\ \E j \in 0..k - 1 : d.src \in reach[j]}
            /\ \A m \in Nodes :
                 LET len == PathLength(n, m, types, 3)
                 IN  /\ len > 0 => m \in reach[len]
                     /\ \A j \in 1..3 : m \in reach[j] => len \in 1..j
=============================================================================
