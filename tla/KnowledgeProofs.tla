-------------------------- MODULE KnowledgeProofs --------------------------
(***************************************************************************)
(* Proofs about Knowledge, for any entities, rows, requests and merges.    *)
(*                                                                         *)
(* A merge sees the database through the rows it has deleted and written.  *)
(* The first part says what a statement of a merge does to that view; the  *)
(* second follows, from statement to statement, what the merge has already *)
(* taken away from its source, and counts citations; the third follows the *)
(* events from merged entities to active ones; the fourth is about the     *)
(* walks over the edges; the last accounts for every row of the source.    *)
(***************************************************************************)
EXTENDS Knowledge, SequenceTheorems, DataInduction, TLAPS

\* A row belongs to an entity, or is an edge to or from it.
Touches(r, e) ==
    \/ r.table \in {"alias", "link"} /\ r.entity = e
    \/ r.table = "edge" /\ (r.src = e \/ r.dst = e)

\* The four kinds of rows are told apart by their table.
LEMMA Forms ==
    ASSUME NEW r \in Row
    PROVE  /\ r.table \in {"alias", "link", "edge", "cite"}
           /\ r.table = "alias" <=> r \in AliasRow
           /\ r.table = "link" <=> r \in LinkRow
           /\ r.table = "edge" <=> r \in EdgeRow
           /\ r.table = "cite" <=> r \in CiteRow
  BY DEF Row, AliasRow, LinkRow, EdgeRow, CiteRow

\* The rows of an entity are those that touch it.
LEMMA RowsTouch ==
    ASSUME NEW R, NEW e
    PROVE  \A r : r \in RowsOf(R, e) <=> r \in R /\ Touches(r, e)
  BY DEF RowsOf, AliasesOf, LinksOf, OutOf, Into, EdgesIn, Touches

\* Only citations go with their edges: other rows are seen as they are written.
LEMMA Seen ==
    \A r : r.table # "cite" => (r \in View <=> r \in (rows \ merge.gone) \cup merge.put)
  BY DEF View, WithoutOrphans

\* Keys of rows that are not citations.
LEMMA KeysTyped ==
    ASSUME NEW r \in Row, r.table # "cite"
    PROVE  KeyOf(r) \in AliasRow \cup LinkRow \cup [table : {"edge"}, id : EdgeIds]
  <1>1. r.table = "edge" => r.id \in EdgeIds
    BY Forms DEF EdgeRow
  <1> QED  BY <1>1, Forms DEF KeyOf

\* The nine statements by name.
LEMMA StatementNames ==
    /\ Len(Statements) = 9
    /\ Statements[1] = "alias_duplicates" /\ Statements[2] = "aliases"
    /\ Statements[3] = "link_duplicates" /\ Statements[4] = "links"
    /\ Statements[5] = "out_duplicates" /\ Statements[6] = "in_duplicates"
    /\ Statements[7] = "out" /\ Statements[8] = "in" /\ Statements[9] = "loops"
  BY DEF Statements

-----------------------------------------------------------------------------
(* What a statement does.                                                  *)

\* A written row no longer names the source where the n-th statement replaces it,
\* and every other end of an edge is an end of the same edge before.
Faithful(effect, R, s, t, n) ==
    /\ effect.deleted \subseteq {r \in R : r.table # "cite"}
    /\ effect.written \subseteq {r \in Row : r.table # "cite"}
    /\ \A w \in effect.written : w.table \in {"alias", "link"} => w.entity = t
    /\ \A w \in effect.written : w.table = "edge" =>
         \E r \in R : /\ r.table = "edge" /\ r.id = w.id
                      /\ w.src \in {t, r.src} /\ w.dst \in {t, r.dst}
    /\ n = 2 => \A r \in R : r.table = "alias" /\ r.entity = s => r \in effect.deleted
    /\ n = 4 => \A r \in R : r.table = "link" /\ r.entity = s => r \in effect.deleted
    /\ n = 7 => /\ \A r \in R : r.table = "edge" /\ r.src = s => r \in effect.deleted
                /\ \A w \in effect.written : w.src = t
    /\ n = 8 => /\ \A r \in R : r.table = "edge" /\ r.dst = s => r \in effect.deleted
                /\ \A w \in effect.written : w.dst = t

LEMMA EffectFacts ==
    ASSUME NEW R, R \subseteq Row, NEW s \in Entities, NEW t \in Entities, s # t,
           NEW n \in 1..9
    PROVE  Faithful(Effect(Statements[n], R, s, t), R, s, t, n)
  <1> DEFINE effect == Effect(Statements[n], R, s, t)
  <1>1. CASE n \in {1, 3, 5, 6, 9}
    <2>1. effect.written = {} /\ effect.deleted \subseteq {r \in R : r.table # "cite"}
      BY <1>1, StatementNames DEF Effect, Delete, DuplicateAliases, DuplicateLinks, DuplicateOut,
         DuplicateInto, AliasesOf, LinksOf, OutOf, Into, EdgesIn
    <2> QED  BY <1>1, <2>1  DEF Faithful
  <1>2. CASE n = 2
    <2> DEFINE D == AliasesOf(R, s)
    <2>1. effect.deleted = D /\ effect.written = {[r EXCEPT !.entity = t] : r \in D}
      BY <1>2, StatementNames DEF Effect, Rewrite
    <2>2. \A r \in D : r \in AliasRow /\ r \in R
      BY Forms DEF AliasesOf
    <2>3. \A r \in D : [r EXCEPT !.entity = t] \in AliasRow /\ [r EXCEPT !.entity = t].entity = t
      BY <2>2 DEF AliasRow
    <2>4. \A w \in effect.written : w \in AliasRow /\ w.entity = t /\ w.table = "alias"
      BY <2>1, <2>3 DEF AliasRow
    <2> QED  BY <1>2, <2>1, <2>2, <2>4 DEF AliasesOf, Row, AliasRow, Faithful
  <1>3. CASE n = 4
    <2> DEFINE D == LinksOf(R, s)
    <2>1. effect.deleted = D /\ effect.written = {[r EXCEPT !.entity = t] : r \in D}
      BY <1>3, StatementNames DEF Effect, Rewrite
    <2>2. \A r \in D : r \in LinkRow /\ r \in R
      BY Forms DEF LinksOf
    <2>3. \A r \in D : [r EXCEPT !.entity = t] \in LinkRow /\ [r EXCEPT !.entity = t].entity = t
      BY <2>2 DEF LinkRow
    <2>4. \A w \in effect.written : w \in LinkRow /\ w.entity = t /\ w.table = "link"
      BY <2>1, <2>3 DEF LinkRow
    <2> QED  BY <1>3, <2>1, <2>2, <2>4 DEF LinksOf, Row, LinkRow, Faithful
  <1>4. CASE n = 7
    <2> DEFINE D == OutOf(R, s)
    <2>1. effect.deleted = D /\ effect.written = {[r EXCEPT !.src = t] : r \in D}
      BY <1>4, StatementNames DEF Effect, Rewrite
    <2>2. \A r \in D : r \in EdgeRow /\ r \in R
      BY Forms DEF OutOf, EdgesIn
    <2>3. \A r \in D : LET w == [r EXCEPT !.src = t] IN
            /\ w \in EdgeRow /\ w.table = "edge" /\ w.src = t /\ w.dst = r.dst /\ w.id = r.id
      BY <2>2 DEF EdgeRow, Nodes
    <2>4. \A w \in effect.written : /\ w \in EdgeRow /\ w.table = "edge" /\ w.src = t
                                    /\ \E r \in D : w.dst = r.dst /\ w.id = r.id
      BY <2>1, <2>3
    <2> QED  BY <1>4, <2>1, <2>2, <2>4 DEF OutOf, EdgesIn, Row, EdgeRow, Faithful
  <1>5. CASE n = 8
    <2> DEFINE D == Into(R, s)
    <2>1. effect.deleted = D /\ effect.written = {[r EXCEPT !.dst = t] : r \in D}
      BY <1>5, StatementNames DEF Effect, Rewrite
    <2>2. \A r \in D : r \in EdgeRow /\ r \in R
      BY Forms DEF Into, EdgesIn
    <2>3. \A r \in D : LET w == [r EXCEPT !.dst = t] IN
            /\ w \in EdgeRow /\ w.table = "edge" /\ w.dst = t /\ w.src = r.src /\ w.id = r.id
      BY <2>2 DEF EdgeRow, Nodes
    <2>4. \A w \in effect.written : /\ w \in EdgeRow /\ w.table = "edge" /\ w.dst = t
                                    /\ \E r \in D : w.src = r.src /\ w.id = r.id
      BY <2>1, <2>3
    <2> QED  BY <1>5, <2>1, <2>2, <2>4 DEF Into, EdgesIn, Row, EdgeRow, Faithful
  <1> QED  BY <1>1, <1>2, <1>3, <1>4, <1>5

-----------------------------------------------------------------------------
(* Types.                                                                  *)

MergeRow == [source : Entities \cup {"none"}, target : Entities \cup {"none"},
             step : 0..10, gone : SUBSET Row, put : SUBSET Row]

\* The open merge is a record of rows that are there or were written by it.
LEMMA MergeTyped == KnowledgeTypeOK => merge \in MergeRow /\ rows \subseteq Row /\ View \subseteq Row
  <1>1. 0..Len(Statements) + 1 = 0..10
    BY StatementNames
  <1> QED  BY <1>1 DEF KnowledgeTypeOK, MergeRow, View, WithoutOrphans

\* No merge has read or written anything.
LEMMA NoMergeTyped == NoMerge \in MergeRow
  BY DEF NoMerge, MergeRow

\* A statement that breaks no constraint: what it deletes and writes.
LEMMA StatementRuns ==
    ASSUME KnowledgeTypeOK, MergeStatement, merge' # NoMerge,
           NEW s \in Entities, NEW t \in Entities, s # t, merge.source = s, merge.target = t
    PROVE  LET effect == Effect(Statements[merge.step], View, s, t) IN
           /\ merge.step \in 1..9 /\ merge' \in MergeRow
           /\ merge'.source = s /\ merge'.target = t /\ merge'.step = merge.step + 1
           /\ merge'.gone = merge.gone \cup effect.deleted
           /\ merge'.put = (merge.put \ effect.deleted) \cup effect.written
           /\ \A r : r.table # "cite" =>
                (r \in View' <=> (r \in View /\ r \notin effect.deleted) \/ r \in effect.written)
  <1> DEFINE effect == Effect(Statements[merge.step], View, s, t)
  <1>1. merge.step \in 1..9 /\ merge \in MergeRow /\ View \subseteq Row
    BY MergeTyped, StatementNames DEF MergeStatement
  <1>2. effect.deleted \subseteq Row /\ effect.written \subseteq Row
    <2>1. Faithful(effect, View, s, t, merge.step)
      BY <1>1, EffectFacts
    <2> QED  BY <1>1, <2>1 DEF Faithful
  <1>3. merge' = [merge EXCEPT !.step = merge.step + 1, !.gone = merge.gone \cup effect.deleted,
                               !.put = (merge.put \ effect.deleted) \cup effect.written]
    BY <1>1 DEF MergeStatement
  <1> HIDE DEF effect
  <1>4. /\ merge' \in MergeRow
        /\ merge'.source = s /\ merge'.target = t /\ merge'.step = merge.step + 1
        /\ merge'.gone = merge.gone \cup effect.deleted
        /\ merge'.put = (merge.put \ effect.deleted) \cup effect.written
    <2> DEFINE G == merge.gone \cup effect.deleted
               P == (merge.put \ effect.deleted) \cup effect.written
    <2>1. G \in SUBSET Row /\ P \in SUBSET Row
      BY <1>1, <1>2 DEF MergeRow
    <2>2. merge' = [merge EXCEPT !.step = merge.step + 1, !.gone = G, !.put = P]
      BY <1>3
    <2>3. merge.step + 1 \in 0..10
      BY <1>1
    <2> HIDE DEF G, P
    <2>4. /\ merge' \in MergeRow /\ merge'.source = s /\ merge'.target = t
          /\ merge'.step = merge.step + 1 /\ merge'.gone = G /\ merge'.put = P
      BY <1>1, <2>1, <2>2, <2>3 DEF MergeRow
    <2> QED  BY <2>4 DEF G, P
  <1>5. rows' = rows
    BY DEF MergeStatement
  <1>6. \A r : r.table # "cite" => (r \in View' <=> r \in (rows' \ merge'.gone) \cup merge'.put)
    BY DEF View, WithoutOrphans
  <1>7. \A r : r.table # "cite" =>
                (r \in View' <=> (r \in View /\ r \notin effect.deleted) \/ r \in effect.written)
    BY <1>4, <1>5, <1>6, Seen
  <1> QED  BY <1>1, <1>4, <1>7 DEF effect

\* What an insert adds to the rows and to the history.
LEMMA Inserted ==
    ASSUME KnowledgeTypeOK, NEW r \in Row, r.table # "cite", Insert(r)
    PROVE  /\ rows' = rows \cup {r} /\ rows' \subseteq Row
           /\ late \subseteq late' /\ late' \subseteq AliasRow \cup LinkRow \cup [table : {"edge"}, id : EdgeIds]
           /\ \A e \in Entities : Touches(r, e) /\ (e = merge.source \/ status[e] = "merged")
                 => KeyOf(r) \in late'
           /\ requests < MaxRequests /\ requests' = requests + 1 /\ requests' \in 0..MaxRequests
           /\ UNCHANGED <<status, merged, attached, merge, pending>>
  <1>1. requests \in 0..MaxRequests /\ MaxRequests \in Nat
    BY KnowledgeAssumption DEF KnowledgeTypeOK
  <1>2. \A e : r \in RowsOf({r}, e) <=> Touches(r, e)
    BY RowsTouch
  <1>3. KeyOf(r) \in AliasRow \cup LinkRow \cup [table : {"edge"}, id : EdgeIds]
    BY KeysTyped
  <1> DEFINE noted == \E e \in Entities : r \in RowsOf({r}, e) /\ (e = merge.source \/ status[e] = "merged")
  <1>4. late' = late \cup (IF noted THEN {KeyOf(r)} ELSE {})
    BY DEF Insert
  <1>5. late \subseteq late' /\ late' \subseteq late \cup {KeyOf(r)} /\ (noted => KeyOf(r) \in late')
    <2> HIDE DEF noted
    <2> QED  BY <1>4
  <1>6. late' \subseteq AliasRow \cup LinkRow \cup [table : {"edge"}, id : EdgeIds]
    BY <1>3, <1>5 DEF KnowledgeTypeOK
  <1>7. \A e \in Entities : Touches(r, e) /\ (e = merge.source \/ status[e] = "merged") => KeyOf(r) \in late'
    BY <1>2, <1>5
  <1>8. /\ rows' = rows \cup {r} /\ rows' \subseteq Row /\ requests < MaxRequests /\ requests' = requests + 1
        /\ UNCHANGED <<status, merged, attached, merge, pending>>
    BY DEF Insert, KnowledgeTypeOK
  <1> QED  BY <1>1, <1>5, <1>6, <1>7, <1>8

\* The requests that insert a row, and the rows they insert.
Inserts(r) ==
    /\ Insert(r)
    /\ r \in Row /\ r.table # "cite"
    /\ r.table = "edge" => r.id = requests + 1

\* Aliases, links and edges are such rows.
LEMMA RequestsInsert ==
    ASSUME KnowledgeTypeOK,
           \/ \E e \in Entities, n \in Names : AddAlias(e, n)
           \/ \E e \in Entities, d \in LinkedDocs : AttachEntities(e, d)
           \/ \E c \in EdgeChoices : CreateEdge(c[1], c[2], c[3])
    PROVE  \E r : Inserts(r)
  <1>1. ASSUME NEW e \in Entities, NEW n \in Names, AddAlias(e, n) PROVE \E r : Inserts(r)
    <2> DEFINE r == [table |-> "alias", entity |-> e, name |-> n]
    <2>1. Inserts(r)
      BY <1>1 DEF AddAlias, Inserts, Row, AliasRow
    <2> QED  BY <2>1
  <1>2. ASSUME NEW e \in Entities, NEW d \in LinkedDocs, AttachEntities(e, d) PROVE \E r : Inserts(r)
    <2> DEFINE r == [table |-> "link", entity |-> e, version |-> d]
    <2>1. Inserts(r)
      BY <1>2, KnowledgeAssumption DEF AttachEntities, Inserts, Row, LinkRow
    <2> QED  BY <2>1
  <1>3. ASSUME NEW c \in EdgeChoices, CreateEdge(c[1], c[2], c[3]) PROVE \E r : Inserts(r)
    <2> DEFINE r == [table |-> "edge", id |-> requests + 1, src |-> c[1], type |-> c[2], dst |-> c[3]]
    <2>1. c[1] \in Nodes /\ c[2] \in EdgeTypes /\ c[3] \in Nodes
      BY KnowledgeAssumption
    <2>2. Insert(r)
      BY <1>3 DEF CreateEdge
    <2>3. requests + 1 \in EdgeIds
      BY <2>2, KnowledgeAssumption DEF Insert, KnowledgeTypeOK
    <2>4. r \in EdgeRow
      BY <2>1, <2>3 DEF EdgeRow
    <2>5. Inserts(r)
      BY <2>2, <2>4 DEF Inserts, Row
    <2> QED  BY <2>5
  <1> QED  BY <1>1, <1>2, <1>3

\* The types hold at the start.
LEMMA TypesStart == KnowledgeInit => KnowledgeTypeOK
  <1> SUFFICES ASSUME KnowledgeInit PROVE KnowledgeTypeOK
    OBVIOUS
  <1>1. rows \subseteq Row
    BY StartAssumption DEF KnowledgeInit, WithoutOrphans
  <1>2. merge \in MergeRow /\ 0..Len(Statements) + 1 = 0..10
    BY NoMergeTyped, StatementNames DEF KnowledgeInit, KnowledgeAtRest
  <1>3. attached \in [CiteRow -> Nat]
    BY DEF KnowledgeInit, KnowledgeAtRest
  <1>4. status \in [Entities -> {"absent", "active", "merged"}]
    BY DEF KnowledgeInit
  <1>5. late = {} /\ merged = {} /\ pending = <<>> /\ requests = 0
    BY DEF KnowledgeInit, KnowledgeAtRest
  <1> QED  BY <1>1, <1>2, <1>3, <1>4, <1>5, KnowledgeAssumption DEF KnowledgeTypeOK, MergeRow

-----------------------------------------------------------------------------
(***************************************************************************)
(* The inductive invariant.  MergedEntityIsEmpty speaks of the committed   *)
(* rows of merged entities; to hold after the next commit it must hold in  *)
(* the view of the open merge, and from the statement that moves them on,  *)
(* the source's rows of a kind must be gone from that view, but for those  *)
(* written late.  CitedOnce needs to know that an edge's id never returns. *)
(***************************************************************************)

\* The entities of the open merge are what the merge has checked: other requests
\* do not change an entity's status.
MergeOpen ==
    merge.step # 0 =>
        /\ merge.source \in Entities /\ merge.target \in Entities /\ merge.source # merge.target
        /\ status[merge.source] = "active" /\ status[merge.target] = "active"

\* What a merged entity has, committed or about to be, was written to it late.
MergedKeepsLate ==
    \A e \in Entities : status[e] = "merged" =>
        \A r \in rows \cup View : Touches(r, e) => KeyOf(r) \in late

\* What the source still has after the statement that moves this kind of rows.
Progress ==
    merge.step # 0 => \A r \in View : KeyOf(r) \in late \/
        /\ ~(merge.step > 2 /\ r.table = "alias" /\ r.entity = merge.source)
        /\ ~(merge.step > 4 /\ r.table = "link" /\ r.entity = merge.source)
        /\ ~(merge.step > 7 /\ r.table = "edge" /\ r.src = merge.source)
        /\ ~(merge.step > 8 /\ r.table = "edge" /\ r.dst = merge.source)

IdsOf(R) == {d.id : d \in EdgesIn(R)}

\* A citation that is gone is gone with its edge, and ids are not used again.
CitesFollowEdges ==
    /\ \A c \in CiteRow : attached[c] = 1 /\ c \notin rows => c.edge \notin IdsOf(rows)
    /\ \A c \in CiteRow : attached[c] = 1 /\ c.edge \in 1..MaxRequests => c.edge <= requests
    /\ \A id \in IdsOf(rows) : id \in 1..MaxRequests => id <= requests
    /\ IdsOf(View) \subseteq IdsOf(rows)
    /\ \A r \in merge.gone \cup merge.put : r.table # "cite"

KnowledgeInv ==
    /\ KnowledgeTypeOK /\ MergeOpen
    /\ MergedKeepsLate /\ Progress
    /\ CitedOnce /\ CitesFollowEdges

\* The view after a step.
LEMMA SeenNext ==
    \A r : r.table # "cite" => (r \in View' <=> r \in (rows' \ merge'.gone) \cup merge'.put)
  BY DEF View, WithoutOrphans

\* Citations and edges of sets of rows.
LEMMA IdsDef == \A R, id : id \in IdsOf(R) <=> \E d \in R : d.table = "edge" /\ d.id = id
  BY DEF IdsOf, EdgesIn

LEMMA CiteForms == \A c \in CiteRow : c \in Row /\ c.table = "cite" /\ c.edge \in EdgeIds
  BY DEF CiteRow, Row

-----------------------------------------------------------------------------
\* At the start there is no merge, and every citation has its edge and its event.
LEMMA KnowledgeStart == KnowledgeInit => KnowledgeInv
  <1> SUFFICES ASSUME KnowledgeInit PROVE KnowledgeInv
    OBVIOUS
  <1>1. KnowledgeTypeOK
    BY TypesStart
  <1>2. merge = NoMerge /\ merge.step = 0 /\ merge.gone = {} /\ merge.put = {}
    BY DEF KnowledgeInit, KnowledgeAtRest, NoMerge
  <1>3. MergeOpen /\ Progress
    BY <1>2 DEF MergeOpen, Progress
  <1>4. MergedKeepsLate
    BY DEF KnowledgeInit, MergedKeepsLate
  <1>5. PICK R \in SUBSET StartRows : rows = WithoutOrphans(R)
    BY DEF KnowledgeInit
  <1>6. \A c \in CiteRow : attached[c] = IF c \in rows THEN 1 ELSE 0
    BY DEF KnowledgeInit, KnowledgeAtRest
  <1>7. CitedOnce
    BY <1>6 DEF CitedOnce
  <1>8. \A id \in IdsOf(rows) : id \notin 1..MaxRequests
    BY <1>5, StartAssumption, IdsDef DEF WithoutOrphans
  <1>9. \A c \in CiteRow : c \in rows => c.edge \in IdsOf(rows)
    BY <1>5, CiteForms, IdsDef DEF WithoutOrphans, EdgesIn
  <1>10. View \subseteq rows
    BY <1>2 DEF View, WithoutOrphans
  <1>11. CitesFollowEdges
    BY <1>2, <1>6, <1>8, <1>9, <1>10, IdsDef DEF CitesFollowEdges
  <1> QED  BY <1>1, <1>3, <1>4, <1>7, <1>11 DEF KnowledgeInv

\* Without a merge the view is the committed rows.
LEMMA NothingOpen ==
    ASSUME KnowledgeInv, merge' = NoMerge, UNCHANGED <<status, rows, late, merged, attached, pending, requests>>
    PROVE  KnowledgeInv'
  <1>1. merge'.step = 0 /\ merge'.gone = {} /\ merge'.put = {} /\ merge' \in MergeRow
    BY NoMergeTyped DEF NoMerge
  <1>2. 0..Len(Statements) + 1 = 0..10
    BY StatementNames
  <1>3. KnowledgeTypeOK'
    BY <1>1, <1>2 DEF KnowledgeInv, KnowledgeTypeOK, MergeRow
  <1>4. View' \subseteq rows
    BY <1>1 DEF View, WithoutOrphans
  <1>5. (MergeOpen /\ Progress /\ CitedOnce)'
    BY <1>1 DEF KnowledgeInv, MergeOpen, Progress, CitedOnce
  <1>6. MergedKeepsLate'
    BY <1>4 DEF KnowledgeInv, MergedKeepsLate, Touches, KeyOf
  <1>7. CitesFollowEdges'
    BY <1>1, <1>4, IdsDef DEF KnowledgeInv, CitesFollowEdges, IdsOf, EdgesIn
  <1> QED  BY <1>3, <1>5, <1>6, <1>7 DEF KnowledgeInv

\* A merge begins: nothing is deleted or written yet.
LEMMA Begins ==
    ASSUME KnowledgeInv, NEW s \in Entities, NEW t \in Entities, MergeBegin(s, t)
    PROVE  KnowledgeInv'
  <1>1. /\ merge'.source = s /\ merge'.target = t /\ merge'.step = 1
        /\ merge'.gone = {} /\ merge'.put = {} /\ merge' \in MergeRow
    <2>1. merge' = [source |-> s, target |-> t, step |-> 1, gone |-> {}, put |-> {}]
      BY DEF MergeBegin, NoMerge
    <2> QED  BY <2>1 DEF MergeRow
  <1>2. UNCHANGED <<status, rows, late, merged, attached, pending, requests>> /\ CanMerge(s, t)
    BY DEF MergeBegin
  <1>3. 0..Len(Statements) + 1 = 0..10
    BY StatementNames
  <1>4. KnowledgeTypeOK'
    BY <1>1, <1>2, <1>3 DEF KnowledgeInv, KnowledgeTypeOK, MergeRow
  <1>5. View' \subseteq rows
    BY <1>1, <1>2 DEF View, WithoutOrphans
  <1>6. (MergeOpen /\ Progress /\ CitedOnce)'
    BY <1>1, <1>2 DEF KnowledgeInv, MergeOpen, Progress, CitedOnce, CanMerge
  <1>7. MergedKeepsLate'
    BY <1>2, <1>5 DEF KnowledgeInv, MergedKeepsLate, Touches, KeyOf
  <1>8. CitesFollowEdges'
    BY <1>1, <1>2, <1>5, IdsDef DEF KnowledgeInv, CitesFollowEdges, IdsOf, EdgesIn
  <1> QED  BY <1>4, <1>6, <1>7, <1>8 DEF KnowledgeInv

\* A statement takes rows from the source and gives them to the target; what it
\* writes to anyone else was that entity's row before, with the same key.
LEMMA Statement ==
    ASSUME KnowledgeInv, MergeStatement
    PROVE  KnowledgeInv'
  <1> DEFINE s == merge.source
             t == merge.target
             effect == Effect(Statements[merge.step], View, s, t)
             n == merge.step
  <1>1. UNCHANGED <<status, rows, late, merged, attached, pending, requests>> /\ n \in 1..9
    BY StatementNames DEF MergeStatement
  <1>2. CASE merge' = NoMerge
    BY <1>1, <1>2, NothingOpen
  <1>3. CASE merge' # NoMerge
    <2>1. /\ s \in Entities /\ t \in Entities /\ s # t
          /\ status[s] = "active" /\ status[t] = "active"
      BY <1>1 DEF KnowledgeInv, MergeOpen
    <2>2. View \subseteq Row /\ 0..Len(Statements) + 1 = 0..10
      BY MergeTyped, StatementNames DEF KnowledgeInv
    <2>3. /\ merge' \in MergeRow
          /\ merge'.source = s /\ merge'.target = t /\ merge'.step = n + 1
          /\ merge'.gone = merge.gone \cup effect.deleted
          /\ merge'.put = (merge.put \ effect.deleted) \cup effect.written
          /\ \A r : r.table # "cite" =>
               (r \in View' <=> (r \in View /\ r \notin effect.deleted) \/ r \in effect.written)
      BY <1>3, <2>1, StatementRuns DEF KnowledgeInv
    <2>4. /\ effect.deleted \subseteq {r \in View : r.table # "cite"}
          /\ effect.written \subseteq {r \in Row : r.table # "cite"}
          /\ \A w \in effect.written : w.table \in {"alias", "link"} => w.entity = t
          /\ \A w \in effect.written : w.table = "edge" =>
               \E r \in View : /\ r.table = "edge" /\ r.id = w.id
                               /\ w.src \in {t, r.src} /\ w.dst \in {t, r.dst}
          /\ n = 2 => \A r \in View : r.table = "alias" /\ r.entity = s => r \in effect.deleted
          /\ n = 4 => \A r \in View : r.table = "link" /\ r.entity = s => r \in effect.deleted
          /\ n = 7 => /\ \A r \in View : r.table = "edge" /\ r.src = s => r \in effect.deleted
                      /\ \A w \in effect.written : w.src = t
          /\ n = 8 => /\ \A r \in View : r.table = "edge" /\ r.dst = s => r \in effect.deleted
                      /\ \A w \in effect.written : w.dst = t
      <3>1. Faithful(effect, View, s, t, n)
        BY <1>1, <2>1, <2>2, EffectFacts
      <3> HIDE DEF effect
      <3> QED  BY <3>1 DEF Faithful
    <2> HIDE DEF effect
    <2>5. KnowledgeTypeOK'
      BY <1>1, <2>2, <2>3 DEF KnowledgeInv, KnowledgeTypeOK, MergeRow
    <2>6. MergeOpen' /\ CitedOnce'
      BY <1>1, <2>1, <2>3 DEF KnowledgeInv, MergeOpen, CitedOnce
    <2>7. \A r \in View' : r.table = "cite" \/ r \in View \/ r \in effect.written
      BY <2>3
    <2>8. MergedKeepsLate'
      <3> SUFFICES ASSUME NEW e \in Entities, status[e] = "merged", NEW r \in View', Touches(r, e)
                   PROVE  KeyOf(r) \in late
        BY <1>1 DEF KnowledgeInv, MergedKeepsLate, Touches, KeyOf
      <3>1. e # t /\ r.table # "cite"
        BY <2>1 DEF Touches
      <3>2. CASE r \in View
        BY <3>2 DEF KnowledgeInv, MergedKeepsLate
      <3>3. CASE r \in effect.written
        <4>1. r.table = "edge" /\ (r.src = e \/ r.dst = e)
          BY <2>4, <3>1, <3>3 DEF Touches
        <4>2. PICK q \in View : /\ q.table = "edge" /\ q.id = r.id
                                /\ r.src \in {t, q.src} /\ r.dst \in {t, q.dst}
          BY <2>4, <3>3, <4>1
        <4>3. Touches(q, e)
          BY <3>1, <4>1, <4>2 DEF Touches
        <4>4. KeyOf(q) \in late
          BY <4>3 DEF KnowledgeInv, MergedKeepsLate
        <4> QED  BY <4>1, <4>2, <4>4 DEF KeyOf
      <3> QED  BY <2>7, <3>1, <3>2, <3>3
    <2>9. Progress'
      <3> SUFFICES ASSUME NEW r \in View', KeyOf(r) \notin late
                   PROVE  /\ ~(n > 1 /\ r.table = "alias" /\ r.entity = s)
                          /\ ~(n > 3 /\ r.table = "link" /\ r.entity = s)
                          /\ ~(n > 6 /\ r.table = "edge" /\ r.src = s)
                          /\ ~(n > 7 /\ r.table = "edge" /\ r.dst = s)
        BY <1>1, <2>3 DEF Progress
      <3>1. CASE r.table = "cite"
        BY <3>1
      <3>2. CASE r \in View /\ r.table # "cite"
        <4>1. r \notin effect.deleted \/ r \in effect.written
          BY <2>3, <3>2
        <4>2. n # 0
          BY <1>1
        <4>3. /\ ~(n > 2 /\ r.table = "alias" /\ r.entity = s)
              /\ ~(n > 4 /\ r.table = "link" /\ r.entity = s)
              /\ ~(n > 7 /\ r.table = "edge" /\ r.src = s)
              /\ ~(n > 8 /\ r.table = "edge" /\ r.dst = s)
          BY <3>2, <4>2 DEF KnowledgeInv, Progress
        <4> QED  BY <1>1, <2>1, <2>4, <3>2, <4>1, <4>3
      <3>3. CASE r \in effect.written /\ r.table # "cite"
        <4>1. r.table \in {"alias", "link", "edge"}
          BY <2>4, <3>3, Forms
        <4>2. r.table \in {"alias", "link"} => r.entity # s
          BY <2>1, <2>4, <3>3
        <4>3. ASSUME r.table = "edge"
              PROVE  ~(n > 6 /\ r.src = s) /\ ~(n > 7 /\ r.dst = s)
          <5>1. PICK q \in View : /\ q.table = "edge" /\ q.id = r.id
                                  /\ r.src \in {t, q.src} /\ r.dst \in {t, q.dst}
            BY <2>4, <3>3, <4>3
          <5>2. KeyOf(q) \notin late
            BY <4>3, <5>1 DEF KeyOf
          <5>3. ~(n > 7 /\ q.src = s) /\ ~(n > 8 /\ q.dst = s)
            BY <1>1, <5>1, <5>2 DEF KnowledgeInv, Progress
          <5> QED  BY <1>1, <2>1, <2>4, <3>3, <5>1, <5>3
        <4> QED  BY <4>1, <4>2, <4>3
      <3> QED  BY <2>7, <3>1, <3>2, <3>3
    <2>10. CitesFollowEdges'
      <3>1. \A r \in merge'.gone \cup merge'.put : r.table # "cite"
        BY <2>3, <2>4 DEF KnowledgeInv, CitesFollowEdges
      <3>2. IdsOf(View') \subseteq IdsOf(View)
        BY <2>4, <2>7, IdsDef
      <3> QED  BY <1>1, <3>1, <3>2 DEF KnowledgeInv, CitesFollowEdges, IdsOf, EdgesIn
    <2> QED  BY <2>5, <2>6, <2>8, <2>9, <2>10 DEF KnowledgeInv
  <1> QED  BY <1>2, <1>3

\* The commit: what the source still has in the merge's view was written late.
LEMMA Commits ==
    ASSUME KnowledgeInv, MergeCommit
    PROVE  KnowledgeInv'
  <1> DEFINE s == merge.source
             t == merge.target
  <1>1. /\ merge.step = 10 /\ rows' = View /\ merge' = NoMerge
        /\ UNCHANGED <<late, attached, pending, requests>>
    BY StatementNames DEF MergeCommit
  <1>2. s \in Entities /\ t \in Entities /\ s # t
    BY <1>1 DEF KnowledgeInv, MergeOpen
  <1>3. status \in [Entities -> {"absent", "active", "merged"}] /\ View \subseteq Row
    BY MergeTyped DEF KnowledgeInv, KnowledgeTypeOK
  <1>4. /\ status' \in [Entities -> {"absent", "active", "merged"}]
        /\ \A e \in Entities : e # s => status'[e] = status[e]
    BY <1>2, <1>3 DEF MergeCommit
  <1>5. merge'.step = 0 /\ merge'.gone = {} /\ merge'.put = {} /\ merge' \in MergeRow
    BY <1>1, NoMergeTyped DEF NoMerge
  <1>6. 0..Len(Statements) + 1 = 0..10
    BY StatementNames
  <1>7. KnowledgeTypeOK'
    <2>1. merged' \subseteq Entities \X Entities
      BY <1>2 DEF MergeCommit, KnowledgeInv, KnowledgeTypeOK
    <2> QED  BY <1>1, <1>3, <1>4, <1>5, <1>6, <2>1 DEF KnowledgeInv, KnowledgeTypeOK, MergeRow
  <1>8. View' \subseteq View
    BY <1>1, <1>5 DEF View, WithoutOrphans
  <1>9. MergeOpen' /\ Progress'
    BY <1>5 DEF MergeOpen, Progress
  <1>10. MergedKeepsLate'
    <2> SUFFICES ASSUME NEW e \in Entities, status'[e] = "merged", NEW r \in View, Touches(r, e)
                 PROVE  KeyOf(r) \in late
      BY <1>1, <1>8 DEF MergedKeepsLate, Touches, KeyOf
    <2>1. CASE e = s
      BY <1>1, <2>1 DEF KnowledgeInv, Progress, Touches
    <2>2. CASE e # s
      BY <1>4, <2>2 DEF KnowledgeInv, MergedKeepsLate
    <2> QED  BY <2>1, <2>2
  <1>11. \A c \in CiteRow : c \in View => c \in rows
    BY CiteForms DEF View, WithoutOrphans, KnowledgeInv, CitesFollowEdges
  <1>12. \A c \in CiteRow : c \in rows /\ c \notin View => c.edge \notin IdsOf(View)
    <2> SUFFICES ASSUME NEW c \in CiteRow, c \in rows, c.edge \in IdsOf(View) PROVE c \in View
      OBVIOUS
    <2>1. c \in (rows \ merge.gone) \cup merge.put /\ c.table = "cite"
      BY CiteForms DEF KnowledgeInv, CitesFollowEdges
    <2>2. PICK d \in View : d.table = "edge" /\ d.id = c.edge
      BY IdsDef
    <2>3. d \in EdgesIn((rows \ merge.gone) \cup merge.put)
      BY <2>2 DEF View, WithoutOrphans, EdgesIn
    <2> QED  BY <2>1, <2>2, <2>3 DEF View, WithoutOrphans
  <1>13. CitedOnce'
    BY <1>1, <1>11 DEF KnowledgeInv, CitedOnce
  <1>14. CitesFollowEdges'
    <2>1. IdsOf(rows') = IdsOf(View) /\ IdsOf(View) \subseteq IdsOf(rows)
      BY <1>1 DEF KnowledgeInv, CitesFollowEdges
    <2>2. IdsOf(View') \subseteq IdsOf(View)
      BY <1>8, IdsDef
    <2>3. \A c \in CiteRow : attached[c] = 1 /\ c \notin View => c.edge \notin IdsOf(View)
      BY <1>12, <2>1 DEF KnowledgeInv, CitesFollowEdges
    <2> QED  BY <1>1, <1>5, <2>1, <2>2, <2>3 DEF KnowledgeInv, CitesFollowEdges, IdsOf, EdgesIn
  <1> QED  BY <1>7, <1>9, <1>10, <1>13, <1>14 DEF KnowledgeInv

-----------------------------------------------------------------------------
\* A request inserts an alias, a link or an edge with a fresh id: what it writes
\* to a merged entity, or to the source of the open merge, is noted as late.
LEMMA InsertKeeps ==
    ASSUME KnowledgeInv, NEW x, Inserts(x)
    PROVE  KnowledgeInv'
  <1>1. /\ x \in Row /\ x.table # "cite" /\ (x.table = "edge" => x.id = requests + 1)
        /\ requests \in Nat /\ MaxRequests \in Nat
    BY KnowledgeAssumption DEF Inserts, KnowledgeInv, KnowledgeTypeOK
  <1>2. /\ rows' = rows \cup {x} /\ rows' \subseteq Row
        /\ late \subseteq late' /\ late' \subseteq AliasRow \cup LinkRow \cup [table : {"edge"}, id : EdgeIds]
        /\ \A e \in Entities : Touches(x, e) /\ (e = merge.source \/ status[e] = "merged")
              => KeyOf(x) \in late'
        /\ requests < MaxRequests /\ requests' = requests + 1 /\ requests' \in 0..MaxRequests
        /\ UNCHANGED <<status, merged, attached, merge, pending>>
    BY <1>1, Inserted DEF Inserts, KnowledgeInv
  <1>3. \A r \in View' : r.table = "cite" \/ r \in View \/ r = x
    BY <1>2, Seen, SeenNext
  <1>4. KnowledgeTypeOK'
    BY <1>2 DEF KnowledgeInv, KnowledgeTypeOK
  <1>5. MergeOpen'
    BY <1>2 DEF KnowledgeInv, MergeOpen
  <1>6. MergedKeepsLate'
    <2> SUFFICES ASSUME NEW e \in Entities, status[e] = "merged", NEW r \in rows' \cup View', Touches(r, e)
                 PROVE  KeyOf(r) \in late'
      BY <1>2 DEF MergedKeepsLate
    <2>1. r.table # "cite"
      BY DEF Touches
    <2>2. r \in rows \cup View \/ r = x
      BY <1>2, <1>3, <2>1
    <2> QED  BY <1>2, <2>2 DEF KnowledgeInv, MergedKeepsLate
  <1>7. Progress'
    <2> SUFFICES ASSUME merge.step # 0, NEW r \in View', KeyOf(r) \notin late'
                 PROVE  /\ ~(merge.step > 2 /\ r.table = "alias" /\ r.entity = merge.source)
                        /\ ~(merge.step > 4 /\ r.table = "link" /\ r.entity = merge.source)
                        /\ ~(merge.step > 7 /\ r.table = "edge" /\ r.src = merge.source)
                        /\ ~(merge.step > 8 /\ r.table = "edge" /\ r.dst = merge.source)
      BY <1>2 DEF Progress
    <2>1. merge.source \in Entities
      BY DEF KnowledgeInv, MergeOpen
    <2>2. CASE r = x
      BY <1>2, <2>1, <2>2 DEF Touches
    <2>3. CASE r \in View
      BY <1>2, <2>3 DEF KnowledgeInv, Progress
    <2> QED  BY <1>3, <2>2, <2>3
  <1>8. \A c \in CiteRow : c # x
    BY <1>1, CiteForms
  <1>9. CitedOnce'
    BY <1>2, <1>8 DEF KnowledgeInv, CitedOnce
  <1>10. CitesFollowEdges'
    <2>1. \A id \in IdsOf(rows') : id \in IdsOf(rows) \/ (x.table = "edge" /\ id = requests + 1)
      <3> TAKE id \in IdsOf(rows')
      <3>1. PICK d \in rows' : d.table = "edge" /\ d.id = id
        BY IdsDef
      <3>2. CASE d \in rows
        BY ONLY <3>1, <3>2, IdsDef
      <3>3. CASE d = x
        BY ONLY <1>1, <3>1, <3>3
      <3> QED  BY <1>2, <3>1, <3>2, <3>3
    <2>2. \A c \in CiteRow : attached[c] = 1 /\ c \notin rows' => c.edge \notin IdsOf(rows')
      <3> SUFFICES ASSUME NEW c \in CiteRow, attached[c] = 1, c \notin rows', c.edge \in IdsOf(rows')
                   PROVE  FALSE
        OBVIOUS
      <3>1. c.edge \notin IdsOf(rows)
        BY <1>2 DEF KnowledgeInv, CitesFollowEdges
      <3>2. c.edge = requests + 1 /\ c.edge \in 1..MaxRequests
        <4>1. c.edge = requests + 1
          BY ONLY <2>1, <3>1, c.edge \in IdsOf(rows')
        <4> QED  BY ONLY <1>1, <1>2, <4>1
      <3>3. c.edge <= requests
        BY <3>2 DEF KnowledgeInv, CitesFollowEdges
      <3> QED  BY <1>1, <3>2, <3>3
    <2>3. \A c \in CiteRow : attached[c] = 1 /\ c.edge \in 1..MaxRequests => c.edge <= requests'
      BY <1>1, <1>2 DEF KnowledgeInv, CitesFollowEdges
    <2>4. \A id \in IdsOf(rows') : id \in 1..MaxRequests => id <= requests'
      BY <1>1, <1>2, <2>1 DEF KnowledgeInv, CitesFollowEdges
    <2>5. IdsOf(View') \subseteq IdsOf(rows')
      <3>1. \A id \in IdsOf(View') : id \in IdsOf(View) \/ (x.table = "edge" /\ id = x.id)
        BY <1>3, IdsDef
      <3>2. IdsOf(rows) \subseteq IdsOf(rows') /\ (x.table = "edge" => x.id \in IdsOf(rows'))
        BY <1>2, IdsDef
      <3> QED  BY <3>1, <3>2 DEF KnowledgeInv, CitesFollowEdges
    <2>6. \A r \in merge'.gone \cup merge'.put : r.table # "cite"
      BY <1>2 DEF KnowledgeInv, CitesFollowEdges
    <2> QED  BY <1>2, <2>2, <2>3, <2>4, <2>5, <2>6 DEF CitesFollowEdges, IdsOf, EdgesIn
  <1> QED  BY <1>4, <1>5, <1>6, <1>7, <1>9, <1>10 DEF KnowledgeInv

\* A new entity is active and nobody's.
LEMMA EntityCreated ==
    ASSUME KnowledgeInv, NEW x \in Entities, CreateEntity(x)
    PROVE  KnowledgeInv'
  <1>1. /\ status[x] = "absent" /\ status' = [status EXCEPT ![x] = "active"]
        /\ UNCHANGED <<rows, late, merged, attached, merge, pending, requests>>
    BY DEF CreateEntity
  <1>2. /\ status' \in [Entities -> {"absent", "active", "merged"}]
        /\ \A e \in Entities : status'[e] = "merged" => status[e] = "merged"
        /\ \A e \in Entities : status[e] = "active" => status'[e] = "active"
    BY <1>1 DEF KnowledgeInv, KnowledgeTypeOK
  <1>3. View' = View
    BY <1>1 DEF View, WithoutOrphans, EdgesIn
  <1>4. KnowledgeTypeOK'
    BY <1>1, <1>2 DEF KnowledgeInv, KnowledgeTypeOK
  <1>5. MergeOpen' /\ Progress'
    BY <1>1, <1>2, <1>3 DEF KnowledgeInv, MergeOpen, Progress
  <1>6. MergedKeepsLate'
    BY <1>1, <1>2, <1>3 DEF KnowledgeInv, MergedKeepsLate
  <1>7. CitedOnce' /\ CitesFollowEdges'
    BY <1>1, <1>3 DEF KnowledgeInv, CitedOnce, CitesFollowEdges, IdsOf, EdgesIn
  <1> QED  BY <1>4, <1>5, <1>6, <1>7 DEF KnowledgeInv

\* Looking a citation up writes nothing.
LEMMA LookedUp ==
    ASSUME KnowledgeInv, NEW id \in CitedEdges, NEW p \in Spans, AttachLookup(id, p)
    PROVE  KnowledgeInv'
  <1>1. UNCHANGED <<status, rows, late, merged, attached, merge, requests>>
    BY DEF AttachLookup
  <1>2. Cite(id, p) \in CiteRow
    BY KnowledgeAssumption DEF Cite, CiteRow
  <1>3. pending' \in Seq(CiteRow)
    BY <1>2, AppendProperties DEF AttachLookup, KnowledgeInv, KnowledgeTypeOK
  <1>4. View' = View
    BY <1>1 DEF View, WithoutOrphans, EdgesIn
  <1>5. KnowledgeTypeOK'
    BY <1>1, <1>3 DEF KnowledgeInv, KnowledgeTypeOK
  <1>6. MergeOpen' /\ Progress' /\ MergedKeepsLate'
    BY <1>1, <1>4 DEF KnowledgeInv, MergeOpen, Progress, MergedKeepsLate
  <1>7. CitedOnce' /\ CitesFollowEdges'
    BY <1>1, <1>4 DEF KnowledgeInv, CitedOnce, CitesFollowEdges, IdsOf, EdgesIn
  <1> QED  BY <1>5, <1>6, <1>7 DEF KnowledgeInv

\* The first insert of a citation is its only one: later ones meet the primary
\* key, or, once the edge is gone, the foreign key.
LEMMA CiteInserted ==
    ASSUME KnowledgeInv, AttachInsert
    PROVE  KnowledgeInv'
  <1> DEFINE c == Head(pending)
  <1>1. pending \in Seq(CiteRow) /\ pending # <<>>
    BY DEF AttachInsert, KnowledgeInv, KnowledgeTypeOK
  <1>2. c \in CiteRow /\ pending' \in Seq(CiteRow)
    BY <1>1, HeadTailProperties DEF AttachInsert
  <1>3. UNCHANGED <<status, late, merged, merge, requests>>
    BY DEF AttachInsert
  <1>4. c.table = "cite" /\ c \in Row
    BY <1>2, CiteForms
  <1>5. attached \in [CiteRow -> Nat] /\ attached' \in [CiteRow -> Nat]
    BY <1>2 DEF AttachInsert, KnowledgeInv, KnowledgeTypeOK
  <1>6. \/ Insertable(c) /\ rows' = rows \cup {c} /\ attached' = [attached EXCEPT ![c] = attached[c] + 1]
        \/ rows' = rows /\ attached' = attached
    BY <1>2, <1>5 DEF AttachInsert
  <1>7. \A r \in rows' \cup View' : r.table = "cite" \/ r \in rows \cup View
    BY <1>3, <1>4, <1>6, Seen, SeenNext
  <1>8. \A r \in View' : r.table = "cite" \/ r \in View
    BY <1>3, <1>4, <1>6, Seen, SeenNext
  <1>9. KnowledgeTypeOK'
    BY <1>2, <1>3, <1>4, <1>5, <1>6 DEF KnowledgeInv, KnowledgeTypeOK
  <1>10. MergeOpen'
    BY <1>3 DEF KnowledgeInv, MergeOpen
  <1>11. Progress'
    <2> SUFFICES ASSUME merge.step # 0, NEW r \in View', KeyOf(r) \notin late
                 PROVE  /\ ~(merge.step > 2 /\ r.table = "alias" /\ r.entity = merge.source)
                        /\ ~(merge.step > 4 /\ r.table = "link" /\ r.entity = merge.source)
                        /\ ~(merge.step > 7 /\ r.table = "edge" /\ r.src = merge.source)
                        /\ ~(merge.step > 8 /\ r.table = "edge" /\ r.dst = merge.source)
      BY <1>3 DEF Progress
    <2> QED  BY <1>8 DEF KnowledgeInv, Progress
  <1>12. MergedKeepsLate'
    <2> SUFFICES ASSUME NEW e \in Entities, status[e] = "merged", NEW r \in rows' \cup View', Touches(r, e)
                 PROVE  KeyOf(r) \in late
      BY <1>3 DEF MergedKeepsLate
    <2> QED  BY <1>7 DEF KnowledgeInv, MergedKeepsLate, Touches
  <1>13. CASE Insertable(c) /\ rows' = rows \cup {c} /\ attached' = [attached EXCEPT ![c] = attached[c] + 1]
    <2>1. c \notin rows /\ c.edge \in IdsOf(View)
      BY <1>13, IdsDef DEF Insertable, EdgesIn
    <2>2. c.edge \in IdsOf(rows)
      BY <2>1 DEF KnowledgeInv, CitesFollowEdges
    <2>3. attached[c] = 0
      <3>1. attached[c] # 1
        BY <1>2, <2>1, <2>2 DEF KnowledgeInv, CitesFollowEdges
      <3>2. attached[c] \in Nat /\ attached[c] <= 1
        BY <1>2, <1>5 DEF KnowledgeInv, CitedOnce
      <3> QED  BY <3>1, <3>2
    <2>4. attached'[c] = 1 /\ \A d \in CiteRow : d # c => attached'[d] = attached[d]
      BY <1>2, <1>5, <1>13, <2>3
    <2>5. CitedOnce'
      BY <1>13, <2>4 DEF KnowledgeInv, CitedOnce
    <2>6. IdsOf(rows') = IdsOf(rows)
      <3>1. EdgesIn(rows') = EdgesIn(rows)
        BY <1>4, <1>13 DEF EdgesIn
      <3> QED  BY <3>1 DEF IdsOf
    <2>7. IdsOf(View') \subseteq IdsOf(View)
      BY <1>8, IdsDef
    <2>8. \A d \in CiteRow : attached'[d] = 1 /\ d \notin rows' => d.edge \notin IdsOf(rows)
      BY <1>13, <2>4 DEF KnowledgeInv, CitesFollowEdges
    <2>9. \A d \in CiteRow : attached'[d] = 1 /\ d.edge \in 1..MaxRequests => d.edge <= requests
      BY <2>2, <2>4 DEF KnowledgeInv, CitesFollowEdges
    <2>10. CitesFollowEdges'
      BY <1>3, <2>6, <2>7, <2>8, <2>9 DEF KnowledgeInv, CitesFollowEdges, IdsOf, EdgesIn
    <2> QED  BY <1>9, <1>10, <1>11, <1>12, <2>5, <2>10 DEF KnowledgeInv
  <1>14. CASE rows' = rows /\ attached' = attached
    <2>1. View' = View
      BY <1>3, <1>14 DEF View, WithoutOrphans, EdgesIn
    <2>2. CitedOnce' /\ CitesFollowEdges'
      BY <1>3, <1>14, <2>1 DEF KnowledgeInv, CitedOnce, CitesFollowEdges, IdsOf, EdgesIn
    <2> QED  BY <1>9, <1>10, <1>11, <1>12, <2>2 DEF KnowledgeInv
  <1> QED  BY <1>6, <1>13, <1>14

-----------------------------------------------------------------------------
\* Every step keeps the invariant.
LEMMA KnowledgeStep == KnowledgeInv /\ [KnowledgeNext]_knowledgeVars => KnowledgeInv'
  <1> SUFFICES ASSUME KnowledgeInv, [KnowledgeNext]_knowledgeVars PROVE KnowledgeInv'
    OBVIOUS
  <1>1. CASE UNCHANGED knowledgeVars
    <2>1. View' = View
      BY <1>1 DEF knowledgeVars, View, WithoutOrphans, EdgesIn
    <2>2. (KnowledgeTypeOK /\ MergeOpen /\ MergedKeepsLate /\ Progress)'
      BY <1>1, <2>1 DEF knowledgeVars, KnowledgeInv, KnowledgeTypeOK, MergeOpen, MergedKeepsLate, Progress
    <2>3. (CitedOnce /\ CitesFollowEdges)'
      BY <1>1, <2>1 DEF knowledgeVars, KnowledgeInv, CitedOnce, CitesFollowEdges, IdsOf, EdgesIn
    <2> QED  BY <2>2, <2>3 DEF KnowledgeInv
  <1>2. CASE \/ \E e \in Entities, n \in Names : AddAlias(e, n)
             \/ \E e \in Entities, d \in LinkedDocs : AttachEntities(e, d)
             \/ \E c \in EdgeChoices : CreateEdge(c[1], c[2], c[3])
    BY <1>2, RequestsInsert, InsertKeeps DEF KnowledgeInv
  <1>3. CASE MergeLost
    BY <1>3, NothingOpen DEF MergeLost
  <1>4. CASE \E s, t \in Entities : MergeBegin(s, t)
    BY <1>4, Begins
  <1>5. CASE MergeStatement \/ MergeCommit
    BY <1>5, Statement, Commits
  <1>6. CASE \E e \in Entities : CreateEntity(e)
    BY <1>6, EntityCreated
  <1>7. CASE \E id \in CitedEdges, p \in Spans : AttachLookup(id, p)
    BY <1>7, LookedUp
  <1>8. CASE AttachInsert
    BY <1>8, CiteInserted
  <1> QED  BY <1>1, <1>2, <1>3, <1>4, <1>5, <1>6, <1>7, <1>8 DEF KnowledgeNext

\* The invariant of all behaviours.
LEMMA KnowledgeInvariant == KnowledgeSpec => []KnowledgeInv
  BY KnowledgeStart, KnowledgeStep, PTL DEF KnowledgeSpec

\* Whatever requests and failed statements a merge meets, once it is committed the
\* merged entity has nothing but what was written to it after the merge began, and
\* no later merge gives it anything back.
THEOREM MergedAlwaysEmpty == KnowledgeSpec => []MergedEntityIsEmpty
  <1>1. KnowledgeInv => MergedEntityIsEmpty
    BY RowsTouch DEF KnowledgeInv, MergedKeepsLate, MergedEntityIsEmpty
  <1> QED  BY <1>1, KnowledgeInvariant, PTL

\* However requests race to cite an edge while merges delete edges, a citation is
\* announced once for ever.
THEOREM CitationsOnce == KnowledgeSpec => []CitedOnce
  <1>1. KnowledgeInv => CitedOnce
    BY DEF KnowledgeInv
  <1> QED  BY <1>1, KnowledgeInvariant, PTL

-----------------------------------------------------------------------------
(***************************************************************************)
(* SurvivorActive.  The events of a group of merged entities cannot all    *)
(* stay within the group: some event leads out of it, to an entity that is *)
(* active or merged.  Followed backwards from the active entities, hop by  *)
(* hop, each hop then reaches another merged entity until none is left.    *)
(***************************************************************************)

LeadsOut ==
    \A M \in SUBSET {e \in Entities : status[e] = "merged"} :
        M # {} => \E p \in merged : /\ p[1] \in M
                                    /\ p[2] \in Entities \ M
                                    /\ status[p[2]] \in {"active", "merged"}

\* A merge joins its source to an active entity; nothing else ends a status.
LEMMA LeadsOutStep ==
    ASSUME KnowledgeInv, LeadsOut, [KnowledgeNext]_knowledgeVars
    PROVE  LeadsOut'
  <1>1. CASE MergeCommit
    <2> DEFINE s == merge.source
               t == merge.target
    <2>1. merge.step # 0
      BY <1>1, StatementNames DEF MergeCommit
    <2>2. s \in Entities /\ t \in Entities /\ s # t /\ status[s] = "active" /\ status[t] = "active"
      BY <2>1 DEF KnowledgeInv, MergeOpen
    <2>3. /\ status' = [status EXCEPT ![s] = "merged"] /\ merged' = merged \cup {<<s, t>>}
          /\ status \in [Entities -> {"absent", "active", "merged"}]
      BY <1>1 DEF MergeCommit, KnowledgeInv, KnowledgeTypeOK
    <2> HIDE DEF s, t
    <2> SUFFICES ASSUME NEW M \in SUBSET Entities, \A e \in M : status'[e] = "merged", M # {}
                 PROVE  \E p \in merged' : /\ p[1] \in M /\ p[2] \in Entities \ M
                                           /\ status'[p[2]] \in {"active", "merged"}
      BY DEF LeadsOut
    <2>4. CASE s \in M
      <3>1. status'[t] = "active" /\ t \notin M
        BY <2>2, <2>3
      <3>2. <<s, t>>[1] = s /\ <<s, t>>[2] = t /\ <<s, t>> \in merged'
        BY <2>3
      <3> QED  BY <2>2, <2>4, <3>1, <3>2
    <2>5. CASE s \notin M
      <3>1. \A e \in M : status[e] = "merged"
        BY <2>2, <2>3, <2>5
      <3>2. PICK p \in merged : /\ p[1] \in M /\ p[2] \in Entities \ M
                                /\ status[p[2]] \in {"active", "merged"}
        BY <3>1 DEF LeadsOut
      <3> QED  BY <2>2, <2>3, <3>2
    <2> QED  BY <2>4, <2>5
  <1>2. ASSUME NEW x \in Entities, CreateEntity(x) PROVE LeadsOut'
    <2>1. /\ status[x] = "absent" /\ status' = [status EXCEPT ![x] = "active"] /\ merged' = merged
          /\ status \in [Entities -> {"absent", "active", "merged"}]
      BY <1>2 DEF CreateEntity, KnowledgeInv, KnowledgeTypeOK
    <2>2. \A e \in Entities : /\ status'[e] = "merged" => status[e] = "merged"
                              /\ status[e] \in {"active", "merged"} => status'[e] \in {"active", "merged"}
      BY <2>1
    <2> QED  BY <2>1, <2>2 DEF LeadsOut
  <1>3. CASE UNCHANGED <<status, merged>>
    BY <1>3 DEF LeadsOut
  <1>4. ASSUME \E r : Inserts(r) PROVE UNCHANGED <<status, merged>>
    BY <1>4 DEF Inserts, Insert
  <1>5. CASE \/ \E e \in Entities, n \in Names : AddAlias(e, n)
             \/ \E e \in Entities, d \in LinkedDocs : AttachEntities(e, d)
             \/ \E c \in EdgeChoices : CreateEdge(c[1], c[2], c[3])
    BY <1>3, <1>4, <1>5, RequestsInsert DEF KnowledgeInv
  <1>6. CASE \/ UNCHANGED knowledgeVars
             \/ \E s, t \in Entities : MergeBegin(s, t)
             \/ MergeLost
             \/ \E id \in CitedEdges, p \in Spans : AttachLookup(id, p)
    BY <1>3, <1>6 DEF knowledgeVars, MergeBegin, MergeLost, AttachLookup
  <1>7. CASE MergeStatement \/ AttachInsert
    BY <1>3, <1>7 DEF MergeStatement, AttachInsert
  <1> QED  BY <1>1, <1>2, <1>5, <1>6, <1>7 DEF KnowledgeNext

\* Nothing is merged at the start.
LEMMA LeadsOutStart == KnowledgeInit => LeadsOut
  BY DEF KnowledgeInit, LeadsOut

\* One hop backwards along the events.
HopBack(H) == H \cup {p[1] : p \in {q \in merged : q[2] \in H}}

\* The hops of SurvivorActive satisfy the equations that define them.
LEMMA Hops ==
    ASSUME KnowledgeTypeOK
    PROVE  LET n == Cardinality(Entities)
               active == {e \in Entities : status[e] = "active"}
           IN  \E Hop :
                 /\ Hop[0] = active
                 /\ \A k \in 1..n : Hop[k] = HopBack(Hop[k - 1])
                 /\ SurvivorActive <=> \A e \in Entities : status[e] = "merged" => e \in Hop[n]
  <1> DEFINE n == Cardinality(Entities)
             active == {e \in Entities : status[e] = "active"}
             Good(H) == H = [k \in 0..n |-> IF k = 0 THEN active
                                ELSE H[k - 1] \cup {p[1] : p \in {q \in merged : q[2] \in H[k - 1]}}]
             F == [k \in Nat |-> [H \in SUBSET Entities |-> HopBack(H)]]
  <1>1. n \in Nat
    BY KnowledgeAssumption, FS_CardinalityType
  <1>2. \A H \in SUBSET Entities : HopBack(H) \in SUBSET Entities
    BY DEF HopBack, KnowledgeTypeOK
  <1>3. F \in [Nat -> [SUBSET Entities -> SUBSET Entities]] /\ active \in SUBSET Entities
    BY <1>2
  <1>4. PICK h \in [0..n -> SUBSET Entities] : /\ h[0] = active
                                               /\ \A k \in 1..n : h[k] = F[k][h[k - 1]]
    <2> DEFINE S == SUBSET Entities
    <2>1. active \in S /\ F \in [Nat -> [S -> S]]
      BY <1>3
    <2>2. \E h \in [0..n -> S] : h[0] = active /\ \A k \in 1..n : h[k] = F[k][h[k - 1]]
      <3> HIDE DEF F, n, active, S
      <3> QED  BY <1>1, <2>1, IterationExists
    <2> QED  BY <2>2
  <1>5. Good(h)
    <2>1. \A k \in 1..n : k \in Nat /\ h[k - 1] \in SUBSET Entities
      BY <1>1
    <2>2. \A k \in 1..n : F[k][h[k - 1]] = HopBack(h[k - 1])
      BY <2>1
    <2> HIDE DEF n, active, F
    <2>3. \A k \in 0..n : h[k] = IF k = 0 THEN active ELSE HopBack(h[k - 1])
      BY <1>1, <1>4, <2>2
    <2> QED  BY <1>4, <2>3 DEF HopBack
  <1> DEFINE Hop == CHOOSE H : Good(H)
  <1>6. Good(Hop)
    BY <1>5
  <1>7. SurvivorActive <=> \A e \in Entities : status[e] = "merged" => e \in Hop[n]
    BY DEF SurvivorActive
  <1> HIDE DEF Hop
  <1>8. Hop = [k \in 0..n |-> IF k = 0 THEN active ELSE HopBack(Hop[k - 1])]
    BY <1>6 DEF HopBack
  <1> HIDE DEF n, active
  <1>9. Hop[0] = active /\ \A k \in 1..n : Hop[k] = HopBack(Hop[k - 1])
    BY <1>1, <1>8
  <1> QED  BY <1>7, <1>9 DEF n, active

\* A hop adds a merged entity for as long as one is left out.
LEMMA HopsCover ==
    ASSUME KnowledgeTypeOK, LeadsOut
    PROVE  SurvivorActive
  <1> DEFINE n == Cardinality(Entities)
             active == {e \in Entities : status[e] = "active"}
             gone == {e \in Entities : status[e] = "merged"}
  <1>1. n \in Nat /\ IsFiniteSet(Entities)
    BY KnowledgeAssumption, FS_CardinalityType
  <1>2. PICK Hop : /\ Hop[0] = active
                   /\ \A k \in 1..n : Hop[k] = HopBack(Hop[k - 1])
                   /\ SurvivorActive <=> \A e \in Entities : status[e] = "merged" => e \in Hop[n]
    BY Hops
  <1> DEFINE left(k) == gone \ Hop[k]
             Shrinks(k) == /\ active \subseteq Hop[k]
                           /\ left(k) = {} \/ Cardinality(left(k)) + k <= n
             T == {k \in Nat : k <= n => Shrinks(k)}
  <1>3. \A k : left(k) \subseteq Entities /\ IsFiniteSet(left(k)) /\ Cardinality(left(k)) \in Nat
    BY <1>1, FS_Subset, FS_CardinalityType
  <1>4. 0 \in T
    <2>1. Cardinality(left(0)) <= n
      <3>1. left(0) \subseteq Entities
        OBVIOUS
      <3> HIDE DEF left
      <3> QED  BY <1>1, <3>1, FS_Subset
    <2>2. Cardinality(left(0)) + 0 <= n
      <3>1. Cardinality(left(0)) \in Nat
        BY <1>3
      <3> HIDE DEF left, n
      <3> QED  BY <1>1, <2>1, <3>1
    <2>3. active \subseteq Hop[0]
      BY <1>2
    <2> HIDE DEF left, n, active
    <2> QED  BY <2>2, <2>3
  <1>5. ASSUME NEW k \in T \cap Nat PROVE k + 1 \in T
    <2> SUFFICES ASSUME k + 1 <= n PROVE Shrinks(k + 1)
      OBVIOUS
    <2>1. k <= n /\ Shrinks(k)
      BY <1>1, <1>5
    <2>2. Hop[k + 1] = HopBack(Hop[k])
      BY <1>1, <1>2
    <2>3. active \subseteq Hop[k + 1] /\ left(k + 1) \subseteq left(k)
      BY <2>1, <2>2 DEF HopBack
    <2>4. CASE left(k + 1) = {}
      BY <2>3, <2>4
    <2>5. CASE left(k + 1) # {}
      <3>1. left(k) # {}
        BY <2>3, <2>5
      <3>2. PICK p \in merged : /\ p[1] \in left(k) /\ p[2] \in Entities \ left(k)
                                /\ status[p[2]] \in {"active", "merged"}
        BY <3>1 DEF LeadsOut
      <3>3. p[2] \in Hop[k]
        BY <2>1, <3>2
      <3>4. p[1] \in left(k) \ left(k + 1)
        BY <2>2, <3>2, <3>3 DEF HopBack
      <3>5. Cardinality(left(k + 1)) < Cardinality(left(k))
        <4>1. left(k + 1) # left(k)
          BY <3>4
        <4> HIDE DEF left
        <4> QED  BY <1>3, <2>3, <4>1, FS_Subset
      <3>6. Cardinality(left(k)) + k <= n
        BY <2>1, <3>1
      <3>7. Cardinality(left(k + 1)) + (k + 1) <= n
        <4>1. Cardinality(left(k)) \in Nat /\ Cardinality(left(k + 1)) \in Nat
          BY <1>3
        <4> HIDE DEF left, n
        <4> QED  BY <1>1, <3>5, <3>6, <4>1
      <3> QED  BY <2>3, <3>7
    <2> QED  BY <2>4, <2>5
  <1>6. n \in T
    <2> HIDE DEF T
    <2> QED  BY <1>1, <1>4, <1>5, SetInduction
  <1>7. left(n) = {}
    <2>1. left(n) = {} \/ Cardinality(left(n)) + n <= n
      BY <1>1, <1>6
    <2>2. Cardinality(left(n)) = 0 => left(n) = {}
      BY <1>3, FS_EmptySet
    <2>3. Cardinality(left(n)) \in Nat
      BY <1>3
    <2> HIDE DEF left, n
    <2> QED  BY <1>1, <2>1, <2>2, <2>3
  <1> QED  BY <1>2, <1>7

\* However merges chain, the events of the outbox lead from every merged entity to
\* one that is still active: a client that follows them always arrives.
THEOREM SurvivorAlwaysActive == KnowledgeSpec => []SurvivorActive
  <1> DEFINE Both == KnowledgeInv /\ LeadsOut
  <1>1. KnowledgeInit => Both
    BY KnowledgeStart, LeadsOutStart
  <1>2. Both /\ [KnowledgeNext]_knowledgeVars => Both'
    BY KnowledgeStep, LeadsOutStep
  <1>3. Both => SurvivorActive
    BY HopsCover DEF KnowledgeInv
  <1> HIDE DEF Both
  <1> QED  BY <1>1, <1>2, <1>3, PTL DEF KnowledgeSpec

-----------------------------------------------------------------------------
(***************************************************************************)
(* The walks.  After k rounds the adapter has seen what walks of at most k *)
(* edges reach; its frontier is what walks of k edges reach and shorter    *)
(* ones do not, so a node it no longer expands has been expanded before.   *)
(***************************************************************************)

Usable(types) == {d \in EdgesIn(rows) : types = {} \/ d.type \in types}
From(types, S) == {d \in Usable(types) : d.src \in S}
Targets(types, S) == {d.dst : d \in From(types, S)}

\* A round of Neighbours.
Expand(types, w) ==
    [frontier |-> Targets(types, w.frontier) \ w.seen,
     seen |-> w.seen \cup (Targets(types, w.frontier) \ w.seen),
     edges |-> w.edges \cup From(types, w.frontier)]

FirstRound(seeds) == [frontier |-> seeds, seen |-> seeds, edges |-> {}]

\* The rounds of Neighbours satisfy the equations that define them.
LEMMA Rounds ==
    ASSUME NEW seeds, NEW types, NEW depth \in Nat
    PROVE  \E W : /\ W[0] = FirstRound(seeds)
                  /\ \A k \in 1..depth : W[k] = Expand(types, W[k - 1])
                  /\ Neighbours(seeds, types, depth) = W[depth].edges
  <1> DEFINE Any == seeds \cup {d.dst : d \in Usable(types)}
             S == [frontier : SUBSET Any, seen : SUBSET Any, edges : SUBSET Usable(types)]
             F == [k \in Nat |-> [w \in S |-> Expand(types, w)]]
             Round(w) ==
                LET found == UNION {OutOf(rows, n) : n \in w.frontier}
                    edges == {d \in found : types = {} \/ d.type \in types}
                    new == {d.dst : d \in edges} \ w.seen
                IN  [frontier |-> new, seen |-> w.seen \cup new, edges |-> w.edges \cup edges]
             Good(W) == W = [k \in 0..depth |-> IF k = 0
                                THEN [frontier |-> seeds, seen |-> seeds, edges |-> {}]
                                ELSE Round(W[k - 1])]
  <1>1. \A w : Round(w) = Expand(types, w)
    <2> TAKE w
    <2>1. {d \in UNION {OutOf(rows, n) : n \in w.frontier} : types = {} \/ d.type \in types}
             = From(types, w.frontier)
      BY DEF OutOf, From, Usable
    <2> QED  BY <2>1 DEF Expand, Targets
  <1>2. \A w \in S : Expand(types, w) \in S
    <2> SUFFICES ASSUME NEW w \in S PROVE Expand(types, w) \in S
      OBVIOUS
    <2>1. Targets(types, w.frontier) \subseteq Any /\ From(types, w.frontier) \subseteq Usable(types)
      BY DEF Targets, From
    <2> HIDE DEF Any
    <2> QED  BY <2>1 DEF Expand
  <1>3. FirstRound(seeds) \in S /\ F \in [Nat -> [S -> S]]
    BY <1>2 DEF FirstRound
  <1>4. PICK h \in [0..depth -> S] : /\ h[0] = FirstRound(seeds)
                                     /\ \A k \in 1..depth : h[k] = F[k][h[k - 1]]
    <2> HIDE DEF S, F
    <2> QED  BY <1>3, IterationExists
  <1>5. Good(h)
    <2>1. \A k \in 1..depth : k \in Nat /\ h[k - 1] \in S
      OBVIOUS
    <2>2. \A k \in 1..depth : F[k][h[k - 1]] = Round(h[k - 1])
      BY <1>1, <2>1
    <2> HIDE DEF Round, F, S
    <2>3. \A k \in 0..depth : h[k] = IF k = 0 THEN [frontier |-> seeds, seen |-> seeds, edges |-> {}]
                                              ELSE Round(h[k - 1])
      BY <1>4, <2>2 DEF FirstRound
    <2> QED  BY <1>4, <2>3
  <1> DEFINE W == CHOOSE g : Good(g)
  <1>6. Good(W)
    BY <1>5
  <1>7. Neighbours(seeds, types, depth) = W[depth].edges
    BY DEF Neighbours
  <1> HIDE DEF W, Round
  <1>8. W = [k \in 0..depth |-> IF k = 0 THEN FirstRound(seeds) ELSE Round(W[k - 1])]
    BY <1>6 DEF FirstRound
  <1>9. W[0] = FirstRound(seeds) /\ \A k \in 1..depth : W[k] = Expand(types, W[k - 1])
    BY <1>1, <1>8
  <1> QED  BY <1>7, <1>9

\* The ends of walks satisfy theirs.
LEMMA Reached ==
    ASSUME NEW n, NEW types
    PROVE  /\ Reach(n, types)[0] = {n}
           /\ \A k \in 1..3 : Reach(n, types)[k] = Targets(types, Reach(n, types)[k - 1])
  <1> DEFINE start == {n}
             S == SUBSET ({n} \cup {d.dst : d \in Usable(types)})
             F == [k \in Nat |-> [x \in S |-> Targets(types, x)]]
             Ends(x) == {d.dst : d \in {y \in Usable(types) : y.src \in x}}
             Good(E) == E = [k \in 0..3 |-> IF k = 0 THEN start ELSE Ends(E[k - 1])]
             last == 3
  <1>1. \A x : Targets(types, x) \in S /\ Targets(types, x) = Ends(x)
    BY DEF Targets, From
  <1>2. start \in S /\ F \in [Nat -> [S -> S]] /\ \A k \in Nat, x \in S : F[k][x] = Targets(types, x)
    BY <1>1
  <1>3. PICK h \in [0..last -> S] : h[0] = start /\ \A k \in 1..last : h[k] = F[k][h[k - 1]]
    <2>1. last \in Nat
      OBVIOUS
    <2>2. start \in S /\ F \in [Nat -> [S -> S]]
      BY <1>2
    <2> HIDE DEF S, F, last, start
    <2> QED  BY <2>1, <2>2, IterationExists
  <1>4. Good(h)
    <2> HIDE DEF S, F, Ends, start
    <2>1. \A k \in 0..3 : h[k] = IF k = 0 THEN start ELSE Targets(types, h[k - 1])
      BY <1>2, <1>3
    <2>2. \A k \in 0..3 : h[k] = IF k = 0 THEN start ELSE Ends(h[k - 1])
      BY <1>1, <2>1
    <2> QED  BY <1>3, <2>2
  <1> DEFINE E == CHOOSE g : Good(g)
  <1>5. Good(E)
    BY <1>4
  <1>6. Reach(n, types) = [k \in 0..3 |-> E[k]]
    BY DEF Reach, Usable
  <1> HIDE DEF E, Ends, start
  <1>7. E = [k \in 0..3 |-> IF k = 0 THEN start ELSE Targets(types, E[k - 1])]
    BY <1>1, <1>5
  <1> QED  BY <1>6, <1>7 DEF start

\* The adapter's first rounds, and the ends of the walks of each length.
RoundsFrom(W, types, seeds, top) ==
    W[0] = FirstRound(seeds) /\ \A k \in 1..top : W[k] = Expand(types, W[k - 1])

WalksFrom(E, types, seeds, top) ==
    E[0] = seeds /\ \A k \in 1..top : E[k] = Targets(types, E[k - 1])

\* The edges collected in each round start where a shorter walk ends.
EdgesFound(W, E, types, top) ==
    \A k \in 0..top : \A d :
       d \in W[k].edges <=> d \in Usable(types) /\ \E j \in 0..k - 1 : d.src \in E[j]

\* The adapter's rounds against the walks of the reference, one round more at a time.
LEMMA RoundsReach ==
    ASSUME NEW types, NEW seeds, NEW top \in Nat, NEW W, NEW E,
           RoundsFrom(W, types, seeds, top), WalksFrom(E, types, seeds, top)
    PROVE  EdgesFound(W, E, types, top)
  <1>0. /\ W[0] = FirstRound(seeds) /\ \A k \in 1..top : W[k] = Expand(types, W[k - 1])
        /\ E[0] = seeds /\ \A k \in 1..top : E[k] = Targets(types, E[k - 1])
    BY DEF RoundsFrom, WalksFrom
  <1> DEFINE Sound(k) ==
                /\ \A x : x \in W[k].seen <=> \E j \in 0..k : x \in E[j]
                /\ \A x : x \in W[k].frontier => x \in E[k]
                /\ \A x \in E[k] : x \in W[k].frontier \/ \E j \in 0..k - 1 : x \in E[j]
                /\ \A d : d \in W[k].edges <=> d \in Usable(types) /\ \E j \in 0..k - 1 : d.src \in E[j]
             T == {k \in Nat : k <= top => Sound(k)}
  <1>1. 0 \in T
    <2>1. W[0].seen = seeds /\ W[0].frontier = seeds /\ W[0].edges = {}
      BY <1>0 DEF FirstRound
    <2> QED  BY <1>0, <2>1
  <1>2. ASSUME NEW k \in T \cap Nat PROVE k + 1 \in T
    <2> SUFFICES ASSUME k + 1 <= top PROVE Sound(k + 1)
      OBVIOUS
    <2>1. Sound(k)
      BY <1>2
    <2>2. W[k + 1] = Expand(types, W[k]) /\ E[k + 1] = Targets(types, E[k])
      BY <1>0
    <2> DEFINE new == Targets(types, W[k].frontier) \ W[k].seen
    <2>3. /\ W[k + 1].frontier = new /\ W[k + 1].seen = W[k].seen \cup new
          /\ W[k + 1].edges = W[k].edges \cup From(types, W[k].frontier)
      BY <2>2 DEF Expand
    <2> HIDE DEF new
    <2>4. \A x \in new : x \in E[k + 1]
      BY <2>1, <2>2 DEF new, Targets, From
    <2>5. ASSUME NEW d \in Usable(types), d.src \in E[k]
          PROVE  d.src \in W[k].frontier \/ \E j \in 0..k - 1 : d.src \in E[j]
      BY <2>1, <2>5
    <2>6. ASSUME NEW x \in E[k + 1]
          PROVE  x \in new \/ \E j \in 0..k : x \in E[j]
      <3>1. PICK d \in Usable(types) : d.src \in E[k] /\ x = d.dst
        BY <2>2, <2>6 DEF Targets, From
      <3>2. CASE d.src \in W[k].frontier
        <4>1. x \in Targets(types, W[k].frontier)
          BY <3>1, <3>2 DEF Targets, From
        <4> QED  BY <2>1, <4>1 DEF new
      <3>3. CASE \E j \in 0..k - 1 : d.src \in E[j]
        <4>1. PICK j \in 0..k - 1 : d.src \in E[j]
          BY <3>3
        <4>2. E[j + 1] = Targets(types, E[j]) /\ j + 1 \in 0..k
          BY <1>0
        <4>3. x \in E[j + 1]
          BY <3>1, <4>1, <4>2 DEF Targets, From
        <4> QED  BY <4>2, <4>3
      <3> QED  BY <2>5, <3>1, <3>2, <3>3
    <2>7. \A j : j \in 0..k + 1 <=> j \in 0..k \/ j = k + 1
      OBVIOUS
    <2>8. \A x : x \in W[k + 1].seen <=> \E j \in 0..k + 1 : x \in E[j]
      BY <2>1, <2>3, <2>4, <2>6, <2>7
    <2>9. (k + 1) - 1 = k /\ \A j : j \in 0..k <=> j \in 0..k - 1 \/ j = k
      OBVIOUS
    <2>10. \A d : d \in W[k + 1].edges <=> d \in Usable(types) /\ \E j \in 0..k : d.src \in E[j]
      <3> TAKE d
      <3>1. d \in W[k + 1].edges <=> d \in W[k].edges \/ (d \in Usable(types) /\ d.src \in W[k].frontier)
        BY <2>3 DEF From
      <3> QED  BY <2>1, <2>5, <2>9, <3>1
    <2> QED  BY <2>3, <2>4, <2>6, <2>8, <2>9, <2>10
  <1>3. Nat \subseteq T
    <2> HIDE DEF T
    <2> QED  BY <1>1, <1>2, SetInduction
  <1> SUFFICES ASSUME NEW k \in 0..top
               PROVE  \A d : d \in W[k].edges
                          <=> d \in Usable(types) /\ \E j \in 0..k - 1 : d.src \in E[j]
    BY DEF EdgesFound
  <1>4. Sound(k)
    BY <1>3
  <1> QED  BY <1>4

\* The edges collected in k rounds are those a walk of fewer than k edges leads to.
LEMMA NeighboursReach ==
    ASSUME NEW n, NEW types, NEW k \in 1..3
    PROVE  \A d : d \in Neighbours({n}, types, k) <=>
                     d \in Usable(types) /\ \E j \in 0..k - 1 : d.src \in Reach(n, types)[j]
  <1> DEFINE E == Reach(n, types)
             seeds == {n}
  <1>1. E[0] = seeds /\ \A i \in 1..k : E[i] = Targets(types, E[i - 1])
    BY Reached
  <1>2. k \in Nat /\ k \in 0..k
    OBVIOUS
  <1>3. PICK W : /\ W[0] = FirstRound(seeds)
                 /\ \A i \in 1..k : W[i] = Expand(types, W[i - 1])
                 /\ Neighbours(seeds, types, k) = W[k].edges
    BY <1>2, Rounds
  <1>4. \A d : d \in W[k].edges <=> d \in Usable(types) /\ \E j \in 0..k - 1 : d.src \in E[j]
    <2>1. PICK F, Z : F = E /\ Z = seeds
      OBVIOUS
    <2>2. RoundsFrom(W, types, Z, k)
      BY <1>3, <2>1 DEF RoundsFrom
    <2>3. WalksFrom(F, types, Z, k)
      BY <1>1, <2>1 DEF WalksFrom
    <2>4. EdgesFound(W, F, types, k)
      BY ONLY <1>2, <2>2, <2>3, RoundsReach
    <2>5. \A d : d \in W[k].edges <=> d \in Usable(types) /\ \E j \in 0..k - 1 : d.src \in F[j]
      BY ONLY <1>2, <2>4 DEF EdgesFound
    <2> HIDE DEF E
    <2> QED  BY ONLY <2>1, <2>5
  <1> QED  BY <1>3, <1>4

\* For any rows: the walks are complete, and the shortest path is found.
LEMMA WalksComplete == WalksAreComplete
  <1> SUFFICES ASSUME NEW n, NEW types
               PROVE  LET reach == Reach(n, types)
                      IN  /\ \A k \in 1..3 : Neighbours({n}, types, k) =
                               {d \in EdgesIn(rows) : /\ types = {} \/ d.type \in types
                                                      /\ \E j \in 0..k - 1 : d.src \in reach[j]}
                          /\ \A m \in Nodes :
                               LET len == PathLength(n, m, types, 3)
                               IN  /\ len > 0 => m \in reach[len]
                                   /\ \A j \in 1..3 : m \in reach[j] => len \in 1..j
    BY DEF WalksAreComplete
  <1> DEFINE reach == Reach(n, types)
  <1>1. ASSUME NEW k \in 1..3
        PROVE  Neighbours({n}, types, k) =
                  {d \in EdgesIn(rows) : /\ types = {} \/ d.type \in types
                                         /\ \E j \in 0..k - 1 : d.src \in reach[j]}
    <2>1. \A d : d \in Neighbours({n}, types, k) <=>
                    d \in Usable(types) /\ \E j \in 0..k - 1 : d.src \in reach[j]
      BY <1>1, NeighboursReach
    <2> HIDE DEF reach
    <2> QED  BY <2>1 DEF Usable
  <1>2. ASSUME NEW m \in Nodes
        PROVE  LET len == PathLength(n, m, types, 3)
               IN  /\ len > 0 => m \in reach[len]
                   /\ \A j \in 1..3 : m \in reach[j] => len \in 1..j
    <2> DEFINE hits == {k \in 1..3 : \E d \in Neighbours({n}, types, k) : d.dst = m}
               len == PathLength(n, m, types, 3)
    <2>1. len = IF hits = {} THEN 0 ELSE CHOOSE k \in hits : \A j \in hits : k <= j
      BY DEF PathLength
    <2>2. ASSUME NEW k \in 1..3
          PROVE  k \in hits <=> \E j \in 1..k : m \in reach[j]
      <3>1. k \in hits <=> \E d \in Usable(types) : d.dst = m /\ \E j \in 0..k - 1 : d.src \in reach[j]
        <4>1. \A d : d \in Neighbours({n}, types, k) <=>
                        d \in Usable(types) /\ \E j \in 0..k - 1 : d.src \in reach[j]
          BY <2>2, NeighboursReach
        <4> HIDE DEF reach
        <4> QED  BY <2>2, <4>1
      <3>2. \A j \in 1..k : reach[j] = Targets(types, reach[j - 1])
        BY Reached
      <3>3. \A j \in 1..k : m \in reach[j] <=> \E d \in Usable(types) : d.dst = m /\ d.src \in reach[j - 1]
        <4> HIDE DEF reach
        <4> QED  BY <3>2 DEF Targets, From
      <3> HIDE DEF hits, reach
      <3>4. (\E j \in 1..k : m \in reach[j])
               <=> \E j \in 1..k : \E d \in Usable(types) : d.dst = m /\ d.src \in reach[j - 1]
        BY <3>3
      <3>5. \A j \in 0..k - 1 : j + 1 \in 1..k /\ (j + 1) - 1 = j
        OBVIOUS
      <3>6. \A j \in 1..k : j - 1 \in 0..k - 1
        OBVIOUS
      <3> QED  BY <3>1, <3>4, <3>5, <3>6
    <2>3. hits \subseteq Nat /\ hits \subseteq 1..3
      OBVIOUS
    <2>4. CASE hits = {}
      <3>1. len = 0 /\ \A j \in 1..3 : m \notin reach[j]
        <4>1. \A j \in 1..3 : j \in 1..j
          OBVIOUS
        <4> HIDE DEF hits, reach, len
        <4> QED  BY <2>1, <2>2, <2>4, <4>1
      <3> QED  BY <3>1
    <2>5. CASE hits # {}
      <3> HIDE DEF hits, reach, len
      <3>1. \E k \in hits : \A j \in hits : k <= j
        BY <2>3, <2>5, LeastNatural
      <3>2. len \in hits /\ \A j \in hits : len <= j
        BY <2>1, <2>5, <3>1
      <3>3. PICK i \in 1..len : m \in reach[i]
        BY <2>2, <2>3, <3>2
      <3>4. i \in 1..3 /\ i \in 1..i
        BY <2>3, <3>2, <3>3
      <3>5. i \in hits
        BY <2>2, <3>3, <3>4
      <3>6. i = len
        BY <2>3, <3>2, <3>3, <3>5
      <3>7. ASSUME NEW j \in 1..3, m \in reach[j] PROVE len \in 1..j
        <4>1. j \in hits
          BY <2>2, <3>7
        <4> QED  BY <2>3, <3>2, <4>1
      <3> QED  BY <3>3, <3>6, <3>7 DEF len, reach
    <2> QED  BY <2>4, <2>5
  <1> QED  BY <1>1, <1>2

\* Whatever edges requests and merges have left, the adapter finds every edge within
\* its depth, round cycles and past nodes it has seen, and the shortest path.
THEOREM WalksAlwaysComplete == KnowledgeSpec => []WalksAreComplete
  BY WalksComplete, PTL

-----------------------------------------------------------------------------
(***************************************************************************)
(* MergeKeepsNeighbours.  At every statement each row of the source is     *)
(* accounted for: it is still seen, or the target has what stands for it.  *)
(* R are the committed rows, V is the view, n the next statement.          *)
(***************************************************************************)

Renamed(x, s, t) == IF x = s THEN t ELSE x

\* Edges between the same nodes, the target standing for the source.
Joins(q, r, s, t) ==
    /\ Renamed(q.src, s, t) = Renamed(r.src, s, t)
    /\ Renamed(q.dst, s, t) = Renamed(r.dst, s, t)

AliasesKept(R, V, s, t) ==
    \A r \in AliasesOf(R, s) : r \in V \/ \E q \in AliasesOf(V, t) : q.name = r.name

LinksKept(R, V, s, t) ==
    \A r \in LinksOf(R, s) : r \in V \/ \E q \in LinksOf(V, t) : q.version = r.version

EdgesKept(R, V, s, t) ==
    \A r \in EdgesIn(R) :
        Renamed(r.src, s, t) = Renamed(r.dst, s, t) \/ \E q \in EdgesIn(V) : Joins(q, r, s, t)

\* What the n-th statement deletes and writes.
RowsDeleted(n, V, s, t) == Effect(Statements[n], V, s, t).deleted
RowsWritten(n, V, s, t) == Effect(Statements[n], V, s, t).written

\* The view after it.
SeenAfter(n, V, s, t, V2) ==
    \A r : r.table # "cite" =>
        (r \in V2 <=> (r \in V /\ r \notin RowsDeleted(n, V, s, t)) \/ r \in RowsWritten(n, V, s, t))

LEMMA Deletes ==
    ASSUME NEW V, NEW s, NEW t
    PROVE  /\ RowsDeleted(1, V, s, t) = DuplicateAliases(V, s, t)
           /\ RowsDeleted(2, V, s, t) = AliasesOf(V, s)
           /\ RowsDeleted(3, V, s, t) = DuplicateLinks(V, s, t)
           /\ RowsDeleted(4, V, s, t) = LinksOf(V, s)
           /\ RowsDeleted(5, V, s, t) = DuplicateOut(V, s, t)
           /\ RowsDeleted(6, V, s, t) = DuplicateInto(V, s, t)
           /\ RowsDeleted(7, V, s, t) = OutOf(V, s)
           /\ RowsDeleted(8, V, s, t) = Into(V, s)
           /\ RowsDeleted(9, V, s, t) = OutOf(V, t) \cap Into(V, t)
  BY StatementNames DEF RowsDeleted, Effect, Delete, Rewrite

LEMMA Writes ==
    ASSUME NEW V, NEW s, NEW t
    PROVE  /\ RowsWritten(1, V, s, t) = {}
           /\ RowsWritten(2, V, s, t) = {[r EXCEPT !.entity = t] : r \in AliasesOf(V, s)}
           /\ RowsWritten(3, V, s, t) = {}
           /\ RowsWritten(4, V, s, t) = {[r EXCEPT !.entity = t] : r \in LinksOf(V, s)}
           /\ RowsWritten(5, V, s, t) = {}
           /\ RowsWritten(6, V, s, t) = {}
           /\ RowsWritten(7, V, s, t) = {[r EXCEPT !.src = t] : r \in OutOf(V, s)}
           /\ RowsWritten(8, V, s, t) = {[r EXCEPT !.dst = t] : r \in Into(V, s)}
           /\ RowsWritten(9, V, s, t) = {}
  BY StatementNames DEF RowsWritten, Effect, Delete, Rewrite

\* The first two statements touch aliases, the next two links, the rest edges.
TableOf(n) == IF n <= 2 THEN "alias" ELSE IF n <= 4 THEN "link" ELSE "edge"

InTable(n, V, s, t) ==
    /\ \A r \in RowsDeleted(n, V, s, t) : r \in V /\ r.table = TableOf(n)
    /\ \A r \in RowsWritten(n, V, s, t) : r.table = TableOf(n)

LEMMA EffectTable ==
    ASSUME NEW V, V \subseteq Row, NEW s \in Entities, NEW t \in Entities, NEW n \in 1..9
    PROVE  InTable(n, V, s, t)
  <1>1. CASE n \in {1, 3, 5, 6, 9}
    BY <1>1, Deletes, Writes DEF DuplicateAliases, DuplicateLinks, DuplicateOut,
       DuplicateInto, AliasesOf, LinksOf, OutOf, Into, EdgesIn, TableOf, InTable
  <1>2. CASE n = 2
    <2>1. RowsDeleted(n, V, s, t) = AliasesOf(V, s) /\ RowsWritten(n, V, s, t) = {[r EXCEPT !.entity = t] : r \in AliasesOf(V, s)}
      BY <1>2, Deletes, Writes
    <2>2. \A r \in AliasesOf(V, s) : r \in AliasRow /\ r \in V /\ r.table = "alias"
      BY Forms DEF AliasesOf
    <2>3. \A r \in AliasesOf(V, s) : [r EXCEPT !.entity = t].table = "alias"
      BY <2>2 DEF AliasRow
    <2>4. \A w \in RowsWritten(n, V, s, t) : w.table = "alias"
      BY <2>1, <2>3
    <2>5. TableOf(n) = "alias"
      BY <1>2 DEF TableOf
    <2> QED  BY <2>1, <2>2, <2>4, <2>5 DEF InTable
  <1>3. CASE n = 4
    <2>1. RowsDeleted(n, V, s, t) = LinksOf(V, s) /\ RowsWritten(n, V, s, t) = {[r EXCEPT !.entity = t] : r \in LinksOf(V, s)}
      BY <1>3, Deletes, Writes
    <2>2. \A r \in LinksOf(V, s) : r \in LinkRow /\ r \in V /\ r.table = "link"
      BY Forms DEF LinksOf
    <2>3. \A r \in LinksOf(V, s) : [r EXCEPT !.entity = t].table = "link"
      BY <2>2 DEF LinkRow
    <2>4. \A w \in RowsWritten(n, V, s, t) : w.table = "link"
      BY <2>1, <2>3
    <2>5. TableOf(n) = "link"
      BY <1>3 DEF TableOf
    <2> QED  BY <2>1, <2>2, <2>4, <2>5 DEF InTable
  <1>4. CASE n = 7
    <2>1. RowsDeleted(n, V, s, t) = OutOf(V, s) /\ RowsWritten(n, V, s, t) = {[r EXCEPT !.src = t] : r \in OutOf(V, s)}
      BY <1>4, Deletes, Writes
    <2>2. \A r \in OutOf(V, s) : r \in EdgeRow /\ r \in V /\ r.table = "edge"
      BY Forms DEF OutOf, EdgesIn
    <2>3. \A r \in OutOf(V, s) : [r EXCEPT !.src = t].table = "edge"
      BY <2>2 DEF EdgeRow
    <2>4. \A w \in RowsWritten(n, V, s, t) : w.table = "edge"
      BY <2>1, <2>3
    <2>5. TableOf(n) = "edge"
      BY <1>4 DEF TableOf
    <2> QED  BY <2>1, <2>2, <2>4, <2>5 DEF InTable
  <1>5. CASE n = 8
    <2>1. RowsDeleted(n, V, s, t) = Into(V, s) /\ RowsWritten(n, V, s, t) = {[r EXCEPT !.dst = t] : r \in Into(V, s)}
      BY <1>5, Deletes, Writes
    <2>2. \A r \in Into(V, s) : r \in EdgeRow /\ r \in V /\ r.table = "edge"
      BY Forms DEF Into, EdgesIn
    <2>3. \A r \in Into(V, s) : [r EXCEPT !.dst = t].table = "edge"
      BY <2>2 DEF EdgeRow
    <2>4. \A w \in RowsWritten(n, V, s, t) : w.table = "edge"
      BY <2>1, <2>3
    <2>5. TableOf(n) = "edge"
      BY <1>5 DEF TableOf
    <2> QED  BY <2>1, <2>2, <2>4, <2>5 DEF InTable
  <1> QED  BY <1>1, <1>2, <1>3, <1>4, <1>5

\* No statement loses an alias that the target does not have.
LEMMA AliasesStayKept ==
    ASSUME NEW R, R \subseteq Row, NEW V, V \subseteq Row, NEW V2, NEW s \in Entities, NEW t \in Entities, s # t,
           NEW n \in 1..9, AliasesKept(R, V, s, t), SeenAfter(n, V, s, t, V2)
    PROVE  AliasesKept(R, V2, s, t)
  <1> SUFFICES ASSUME NEW r \in AliasesOf(R, s)
               PROVE  r \in V2 \/ \E q \in AliasesOf(V2, t) : q.name = r.name
    BY DEF AliasesKept
  <1>1. \A x : x.table = "alias" => (x \in V2 <=> (x \in V /\ x \notin RowsDeleted(n, V, s, t)) \/ x \in RowsWritten(n, V, s, t))
    BY DEF SeenAfter
  <1>2. r.table = "alias" /\ r.entity = s
    BY DEF AliasesOf
  <1>3. \A x \in RowsDeleted(n, V, s, t) : x.table = "alias" => x.entity = s /\ n \in 1..2
    <2>1. CASE n > 2
      <3>1. TableOf(n) # "alias"
        BY <2>1 DEF TableOf
      <3>2. InTable(n, V, s, t)
        BY EffectTable
      <3> QED  BY <3>1, <3>2 DEF InTable
    <2>2. CASE n = 1
      BY <2>2, Deletes, Writes DEF DuplicateAliases, AliasesOf
    <2>3. CASE n = 2
      BY <2>3, Deletes, Writes DEF AliasesOf
    <2> QED  BY <2>1, <2>2, <2>3
  <1>4. \A q \in AliasesOf(V, t) : q \in AliasesOf(V2, t)
    BY <1>1, <1>3 DEF AliasesOf
  <1>5. CASE r \notin V
    BY <1>4, <1>5 DEF AliasesKept
  <1>6. CASE r \in V /\ r \in RowsDeleted(n, V, s, t)
    <2>1. CASE n = 1
      <3>1. r \in DuplicateAliases(V, s, t)
        BY <1>6, <2>1, Deletes, Writes
      <3> QED  BY <1>4, <3>1 DEF DuplicateAliases
    <2>2. CASE n = 2
      <3> DEFINE q == [r EXCEPT !.entity = t]
      <3>1. r \in AliasesOf(V, s) /\ r \in AliasRow
        BY <1>2, <1>6, Forms DEF AliasesOf
      <3>2. q \in RowsWritten(n, V, s, t)
        BY <2>2, <3>1, Deletes, Writes
      <3>3. q.table = "alias" /\ q.entity = t /\ q.name = r.name
        BY <3>1 DEF AliasRow
      <3>4. q \in AliasesOf(V2, t)
        <4> HIDE DEF q
        <4> QED  BY <1>1, <3>2, <3>3 DEF AliasesOf
      <3> QED  BY <3>3, <3>4
    <2> QED  BY <1>2, <1>3, <1>6, <2>1, <2>2
  <1> QED  BY <1>1, <1>2, <1>5, <1>6

\* Nor a link.
LEMMA LinksStayKept ==
    ASSUME NEW R, R \subseteq Row, NEW V, V \subseteq Row, NEW V2, NEW s \in Entities, NEW t \in Entities, s # t,
           NEW n \in 1..9, LinksKept(R, V, s, t), SeenAfter(n, V, s, t, V2)
    PROVE  LinksKept(R, V2, s, t)
  <1> SUFFICES ASSUME NEW r \in LinksOf(R, s)
               PROVE  r \in V2 \/ \E q \in LinksOf(V2, t) : q.version = r.version
    BY DEF LinksKept
  <1>1. \A x : x.table = "link" => (x \in V2 <=> (x \in V /\ x \notin RowsDeleted(n, V, s, t)) \/ x \in RowsWritten(n, V, s, t))
    BY DEF SeenAfter
  <1>2. r.table = "link" /\ r.entity = s
    BY DEF LinksOf
  <1>3. \A x \in RowsDeleted(n, V, s, t) : x.table = "link" => x.entity = s /\ n \in 3..4
    <2>1. CASE n \notin 3..4
      <3>1. TableOf(n) # "link"
        BY <2>1 DEF TableOf
      <3>2. InTable(n, V, s, t)
        BY EffectTable
      <3> QED  BY <3>1, <3>2 DEF InTable
    <2>2. CASE n = 3
      BY <2>2, Deletes, Writes DEF DuplicateLinks, LinksOf
    <2>3. CASE n = 4
      BY <2>3, Deletes, Writes DEF LinksOf
    <2> QED  BY <2>1, <2>2, <2>3
  <1>4. \A q \in LinksOf(V, t) : q \in LinksOf(V2, t)
    BY <1>1, <1>3 DEF LinksOf
  <1>5. CASE r \notin V
    BY <1>4, <1>5 DEF LinksKept
  <1>6. CASE r \in V /\ r \in RowsDeleted(n, V, s, t)
    <2>1. CASE n = 3
      <3>1. r \in DuplicateLinks(V, s, t)
        BY <1>6, <2>1, Deletes, Writes
      <3> QED  BY <1>4, <3>1 DEF DuplicateLinks
    <2>2. CASE n = 4
      <3> DEFINE q == [r EXCEPT !.entity = t]
      <3>1. r \in LinksOf(V, s) /\ r \in LinkRow
        BY <1>2, <1>6, Forms DEF LinksOf
      <3>2. q \in RowsWritten(n, V, s, t)
        BY <2>2, <3>1, Deletes, Writes
      <3>3. q.table = "link" /\ q.entity = t /\ q.version = r.version
        BY <3>1 DEF LinkRow
      <3>4. q \in LinksOf(V2, t)
        <4> HIDE DEF q
        <4> QED  BY <1>1, <3>2, <3>3 DEF LinksOf
      <3> QED  BY <3>3, <3>4
    <2> QED  BY <1>2, <1>3, <1>6, <2>1, <2>2
  <1> QED  BY <1>1, <1>2, <1>5, <1>6

\* Nor the last edge between two nodes, but for loops.
LEMMA EdgesStayKept ==
    ASSUME NEW R, R \subseteq Row, NEW V, V \subseteq Row, NEW V2, NEW s \in Entities, NEW t \in Entities, s # t,
           NEW n \in 1..9, EdgesKept(R, V, s, t), SeenAfter(n, V, s, t, V2)
    PROVE  EdgesKept(R, V2, s, t)
  <1>1. \A x : x.table = "edge" =>
            (x \in V2 <=> (x \in V /\ x \notin RowsDeleted(n, V, s, t)) \/ x \in RowsWritten(n, V, s, t))
    BY DEF SeenAfter
  <1>2. \A x : x \in EdgesIn(V) <=> x \in V /\ x.table = "edge"
    BY DEF EdgesIn
  <1>3. \A x : x \in EdgesIn(V2) <=> x \in V2 /\ x.table = "edge"
    BY DEF EdgesIn
  <1>4. n <= 4 => \A x \in RowsDeleted(n, V, s, t) : x.table # "edge"
    <2>1. n <= 4 => TableOf(n) # "edge"
      BY DEF TableOf
    <2>2. InTable(n, V, s, t)
      BY EffectTable
    <2> QED  BY <2>1, <2>2 DEF InTable
  <1>5. ASSUME NEW r \in EdgesIn(R), Renamed(r.src, s, t) # Renamed(r.dst, s, t)
        PROVE  \E x \in EdgesIn(V2) : Joins(x, r, s, t)
    <2>1. PICK q \in EdgesIn(V) : Joins(q, r, s, t)
      BY <1>5 DEF EdgesKept
    <2>2. q \in EdgeRow /\ q \in V /\ q.table = "edge"
      BY <1>2, Forms
    <2>3. CASE q \notin RowsDeleted(n, V, s, t)
      BY <1>1, <1>3, <2>1, <2>2, <2>3
    <2>4. CASE n <= 4
      BY <1>1, <1>3, <1>4, <2>1, <2>2, <2>4
    <2>5. CASE n = 5 /\ q \in RowsDeleted(n, V, s, t)
      <3>1. q \in DuplicateOut(V, s, t)
        BY <2>5, Deletes
      <3>2. PICK x \in OutOf(V, t) : x.dst = q.dst
        BY <3>1 DEF DuplicateOut
      <3>3. q.src = s /\ x.src = t /\ x \in EdgesIn(V)
        BY <3>1, <3>2 DEF DuplicateOut, OutOf
      <3>4. x \notin RowsDeleted(n, V, s, t)
        <4>1. \A y \in DuplicateOut(V, s, t) : y.src = s
          BY DEF DuplicateOut, OutOf
        <4> QED  BY <2>5, <3>3, <4>1, Deletes
      <3>5. x \in EdgesIn(V2)
        BY <1>1, <1>2, <1>3, <3>3, <3>4
      <3>6. Joins(x, r, s, t)
        BY <2>1, <3>2, <3>3 DEF Joins, Renamed
      <3> QED  BY <3>5, <3>6
    <2>6. CASE n = 6 /\ q \in RowsDeleted(n, V, s, t)
      <3>1. q \in DuplicateInto(V, s, t)
        BY <2>6, Deletes
      <3>2. PICK x \in Into(V, t) : x.src = q.src
        BY <3>1 DEF DuplicateInto
      <3>3. q.dst = s /\ x.dst = t /\ x \in EdgesIn(V)
        BY <3>1, <3>2 DEF DuplicateInto, Into
      <3>4. x \notin RowsDeleted(n, V, s, t)
        <4>1. \A y \in DuplicateInto(V, s, t) : y.dst = s
          BY DEF DuplicateInto, Into
        <4> QED  BY <2>6, <3>3, <4>1, Deletes
      <3>5. x \in EdgesIn(V2)
        BY <1>1, <1>2, <1>3, <3>3, <3>4
      <3>6. Joins(x, r, s, t)
        BY <2>1, <3>2, <3>3 DEF Joins, Renamed
      <3> QED  BY <3>5, <3>6
    <2>7. CASE n = 7 /\ q \in RowsDeleted(n, V, s, t)
      <3> DEFINE x == [q EXCEPT !.src = t]
      <3>1. q \in OutOf(V, s) /\ q.src = s
        BY <2>7, Deletes DEF OutOf
      <3>2. x \in RowsWritten(n, V, s, t)
        BY <2>7, <3>1, Writes
      <3>3. x.table = "edge" /\ x.src = t /\ x.dst = q.dst
        BY <2>2 DEF EdgeRow
      <3> HIDE DEF x
      <3>4. x \in EdgesIn(V2)
        BY <1>1, <1>3, <3>2, <3>3
      <3>5. Joins(x, r, s, t)
        BY <2>1, <3>1, <3>3 DEF Joins, Renamed
      <3> QED  BY <3>4, <3>5
    <2>8. CASE n = 8 /\ q \in RowsDeleted(n, V, s, t)
      <3> DEFINE x == [q EXCEPT !.dst = t]
      <3>1. q \in Into(V, s) /\ q.dst = s
        BY <2>8, Deletes DEF Into
      <3>2. x \in RowsWritten(n, V, s, t)
        BY <2>8, <3>1, Writes
      <3>3. x.table = "edge" /\ x.dst = t /\ x.src = q.src
        BY <2>2 DEF EdgeRow
      <3> HIDE DEF x
      <3>4. x \in EdgesIn(V2)
        BY <1>1, <1>3, <3>2, <3>3
      <3>5. Joins(x, r, s, t)
        BY <2>1, <3>1, <3>3 DEF Joins, Renamed
      <3> QED  BY <3>4, <3>5
    <2>9. CASE n = 9 /\ q \in RowsDeleted(n, V, s, t)
      <3>1. q.src = t /\ q.dst = t
        BY <2>9, Deletes DEF OutOf, Into
      <3>2. Renamed(r.src, s, t) = Renamed(r.dst, s, t)
        BY <2>1, <3>1 DEF Joins
      <3> QED  BY <1>5, <3>2
    <2> QED  BY <2>3, <2>4, <2>5, <2>6, <2>7, <2>8, <2>9
  <1> QED  BY <1>5 DEF EdgesKept

\* Aliases and links are deleted from the source only.
OfSource(n, V, s, t) ==
    \A x \in RowsDeleted(n, V, s, t) : x \in V /\ (x.table \in {"alias", "link"} => x.entity = s)

LEMMA DeletedOfSource ==
    ASSUME NEW V, V \subseteq Row, NEW s \in Entities, NEW t \in Entities, NEW n \in 1..9
    PROVE  OfSource(n, V, s, t)
  <1>1. InTable(n, V, s, t)
    BY EffectTable
  <1>2. CASE n > 4
    <2>1. TableOf(n) \notin {"alias", "link"}
      BY <1>2 DEF TableOf
    <2> QED  BY <1>1, <2>1 DEF OfSource, InTable
  <1>3. CASE n \in {1, 3}
    BY <1>1, <1>3, Deletes DEF OfSource, InTable, DuplicateAliases, DuplicateLinks, AliasesOf, LinksOf
  <1>4. CASE n \in {2, 4}
    BY <1>1, <1>4, Deletes DEF OfSource, InTable, AliasesOf, LinksOf
  <1> QED  BY <1>2, <1>3, <1>4

\* What the open merge has taken away is there, committed, or stands under the target.
MergeKeeps ==
    merge.step # 0 =>
        /\ AliasesKept(rows, View, merge.source, merge.target)
        /\ LinksKept(rows, View, merge.source, merge.target)
        /\ EdgesKept(rows, View, merge.source, merge.target)
        /\ \A r \in merge.gone : /\ r.table \in {"alias", "link"} => r \in rows
                                 /\ r.table = "edge" => r.id \in IdsOf(rows)
        /\ \A r \in merge.put : r.table \in {"alias", "link"} => r.entity = merge.target

\* A merge begins with everything in view.
LEMMA BeginsKept ==
    ASSUME KnowledgeInv, NEW s \in Entities, NEW t \in Entities, MergeBegin(s, t)
    PROVE  MergeKeeps'
  <1>1. /\ merge' = [NoMerge EXCEPT !.source = s, !.target = t, !.step = 1]
        /\ rows' = rows
    BY DEF MergeBegin
  <1>2. merge'.gone = {} /\ merge'.put = {} /\ merge'.step = 1
    BY <1>1 DEF NoMerge
  <1>3. \A r : r.table # "cite" => (r \in View' <=> r \in rows')
    BY <1>2, SeenNext
  <1> DEFINE V == View'
             R == rows'
             a == merge'.source
             b == merge'.target
  <1>4. \A r : r.table # "cite" => (r \in V <=> r \in R)
    BY <1>3
  <1> HIDE DEF V, R, a, b
  <1>5. AliasesKept(R, V, a, b) /\ LinksKept(R, V, a, b)
    BY <1>4 DEF AliasesKept, LinksKept, AliasesOf, LinksOf
  <1>6. EdgesKept(R, V, a, b)
    BY <1>4 DEF EdgesKept, EdgesIn, Joins
  <1> QED  BY <1>2, <1>5, <1>6 DEF MergeKeeps, V, R, a, b

\* Each statement keeps the account.
LEMMA StatementKept ==
    ASSUME KnowledgeInv, MergeKeeps, MergeStatement
    PROVE  MergeKeeps'
  <1>1. CASE merge' = NoMerge
    BY <1>1 DEF MergeKeeps, NoMerge
  <1>2. CASE merge' # NoMerge
    <2>1. PICK s \in Entities, t \in Entities : s # t /\ merge.source = s /\ merge.target = t
      BY DEF KnowledgeInv, MergeOpen, MergeStatement
    <2>2. PICK n \in 1..9 : n = merge.step
      BY <1>2, <2>1, StatementRuns DEF KnowledgeInv
    <2>3. View \subseteq Row /\ rows \subseteq Row
      BY MergeTyped DEF KnowledgeInv
    <2>4. /\ merge'.source = s /\ merge'.target = t /\ merge'.step = n + 1
          /\ merge'.gone = merge.gone \cup RowsDeleted(n, View, s, t)
          /\ merge'.put = (merge.put \ RowsDeleted(n, View, s, t)) \cup RowsWritten(n, View, s, t)
          /\ SeenAfter(n, View, s, t, View')
      BY <1>2, <2>1, <2>2, StatementRuns DEF KnowledgeInv, RowsDeleted, RowsWritten, SeenAfter
    <2>5. rows' = rows
      BY DEF MergeStatement
    <2>6. AliasesKept(rows, View', s, t)
      <3>1. AliasesKept(rows, View, s, t)
        BY <2>1, <2>2 DEF MergeKeeps
      <3> QED  BY <2>1, <2>3, <2>4, <3>1, AliasesStayKept
    <2>7. LinksKept(rows, View', s, t)
      <3>1. LinksKept(rows, View, s, t)
        BY <2>1, <2>2 DEF MergeKeeps
      <3> QED  BY <2>1, <2>3, <2>4, <3>1, LinksStayKept
    <2>8. EdgesKept(rows, View', s, t)
      <3>1. EdgesKept(rows, View, s, t)
        BY <2>1, <2>2 DEF MergeKeeps
      <3> QED  BY <2>1, <2>3, <2>4, <3>1, EdgesStayKept
    <2>9. \A r \in RowsDeleted(n, View, s, t) : r \in View /\ (r.table \in {"alias", "link"} => r.entity = s)
      <3>1. OfSource(n, View, s, t)
        BY <2>3, DeletedOfSource
      <3> QED  BY <3>1 DEF OfSource
    <2>10. \A r \in RowsDeleted(n, View, s, t) : /\ r.table \in {"alias", "link"} => r \in rows
                                                 /\ r.table = "edge" => r.id \in IdsOf(rows)
      <3> SUFFICES ASSUME NEW r \in RowsDeleted(n, View, s, t)
                   PROVE  /\ r.table \in {"alias", "link"} => r \in rows
                          /\ r.table = "edge" => r.id \in IdsOf(rows)
        OBVIOUS
      <3>1. r.table \in {"alias", "link"} => r \in rows
        BY <2>1, <2>2, <2>9, Seen DEF MergeKeeps
      <3>2. r.table = "edge" => r.id \in IdsOf(View)
        BY <2>9, IdsDef
      <3> QED  BY <3>1, <3>2 DEF KnowledgeInv, CitesFollowEdges
    <2>11. \A r \in merge'.gone : /\ r.table \in {"alias", "link"} => r \in rows
                                  /\ r.table = "edge" => r.id \in IdsOf(rows)
      <3>1. \A r \in merge.gone : /\ r.table \in {"alias", "link"} => r \in rows
                                  /\ r.table = "edge" => r.id \in IdsOf(rows)
        BY <2>2 DEF MergeKeeps
      <3>2. \A r : r \in merge'.gone => r \in merge.gone \/ r \in RowsDeleted(n, View, s, t)
        BY ONLY <2>4
      <3> QED  BY ONLY <2>10, <3>1, <3>2
    <2>12. \A r \in RowsWritten(n, View, s, t) : r.table \in {"alias", "link"} => r.entity = t
      <3>1. Faithful(Effect(Statements[n], View, s, t), View, s, t, n)
        BY <2>1, <2>3, EffectFacts
      <3> QED  BY <3>1 DEF Faithful, RowsWritten
    <2>13. \A r \in merge'.put : r.table \in {"alias", "link"} => r.entity = t
      <3>1. \A r \in merge.put : r.table \in {"alias", "link"} => r.entity = t
        BY <2>1, <2>2 DEF MergeKeeps
      <3>2. \A r : r \in merge'.put => r \in merge.put \/ r \in RowsWritten(n, View, s, t)
        BY ONLY <2>4
      <3> QED  BY ONLY <2>12, <3>1, <3>2
    <2>14. IdsOf(rows') = IdsOf(rows)
      BY <2>5
    <2> QED  BY <2>4, <2>5, <2>6, <2>7, <2>8, <2>11, <2>13 DEF MergeKeeps, IdsOf, EdgesIn
  <1> QED  BY <1>1, <1>2

\* Rows that requests add are committed and seen at once.
LEMMA GrowthKept ==
    ASSUME KnowledgeInv, MergeKeeps, merge' = merge, rows \subseteq rows',
           \A r : r.table # "cite" => (r \in View' <=> r \in View \/ (r \in rows' /\ r \notin rows))
    PROVE  MergeKeeps'
  <1> SUFFICES ASSUME merge.step # 0 PROVE MergeKeeps'
    BY DEF MergeKeeps
  <1>1. PICK s, t : s = merge.source /\ t = merge.target
    OBVIOUS
  <1>2. PICK R, V : R = rows /\ V = View
    OBVIOUS
  <1>3. PICK R2, V2 : R2 = rows' /\ V2 = View'
    OBVIOUS
  <1>4. /\ AliasesKept(R, V, s, t) /\ LinksKept(R, V, s, t) /\ EdgesKept(R, V, s, t)
        /\ R \subseteq R2
        /\ \A r : r.table # "cite" => (r \in V2 <=> r \in V \/ (r \in R2 /\ r \notin R))
    BY <1>1, <1>2, <1>3 DEF MergeKeeps
  <1>5. AliasesKept(R2, V2, s, t)
    BY <1>4 DEF AliasesKept, AliasesOf
  <1>6. LinksKept(R2, V2, s, t)
    BY <1>4 DEF LinksKept, LinksOf
  <1>7. EdgesKept(R2, V2, s, t)
    <2>1. \A x : x \in EdgesIn(V2) <=> x \in EdgesIn(V) \/ (x \in EdgesIn(R2) /\ x \notin R)
      BY <1>4 DEF EdgesIn
    <2>2. \A x : x \in EdgesIn(R2) => x \in EdgesIn(R) \/ x \notin R
      BY <1>4 DEF EdgesIn
    <2>3. \A r \in EdgesIn(R2) : r \notin EdgesIn(R) => r \in EdgesIn(V2) /\ Joins(r, r, s, t)
      BY <2>1, <2>2 DEF Joins
    <2> QED  BY <1>4, <2>1, <2>3 DEF EdgesKept
  <1>8. \A r \in merge.gone : /\ r.table \in {"alias", "link"} => r \in rows'
                              /\ r.table = "edge" => r.id \in IdsOf(rows')
    <2>1. IdsOf(rows) \subseteq IdsOf(rows')
      BY IdsDef
    <2> QED  BY <2>1 DEF MergeKeeps
  <1>9. \A r \in merge.put : r.table \in {"alias", "link"} => r.entity = merge.target
    BY DEF MergeKeeps
  <1> QED  BY <1>1, <1>3, <1>5, <1>6, <1>7, <1>8, <1>9 DEF MergeKeeps, IdsOf, EdgesIn

\* A request's row is new to the merge: its id, or the row, is in no table yet.
LEMMA InsertKept ==
    ASSUME KnowledgeInv, MergeKeeps, NEW x, Inserts(x)
    PROVE  MergeKeeps'
  <1>1. /\ x \in Row /\ x.table # "cite" /\ (x.table = "edge" => x.id = requests + 1)
        /\ requests \in Nat /\ MaxRequests \in Nat /\ x \notin rows \cup merge.put
    BY KnowledgeAssumption DEF Inserts, Insert, KnowledgeInv, KnowledgeTypeOK
  <1>2. rows' = rows \cup {x} /\ merge' = merge /\ requests < MaxRequests
    BY <1>1, Inserted DEF Inserts, KnowledgeInv
  <1>3. merge.step # 0 => x \notin merge.gone
    <2> SUFFICES ASSUME merge.step # 0, x \in merge.gone PROVE FALSE
      OBVIOUS
    <2>1. x.table = "edge" => x.id \in IdsOf(rows)
      BY DEF MergeKeeps
    <2>2. x.table = "edge" => x.id <= requests
      BY <1>1, <1>2, <2>1 DEF KnowledgeInv, CitesFollowEdges
    <2>3. x.table \in {"alias", "link"} => x \in rows
      BY DEF MergeKeeps
    <2> QED  BY <1>1, <2>2, <2>3, Forms
  <1>4. CASE merge.step = 0
    BY <1>2, <1>4 DEF MergeKeeps
  <1>5. CASE merge.step # 0
    <2>1. \A r : r.table # "cite" => (r \in View' <=> r \in View \/ (r \in rows' /\ r \notin rows))
      BY <1>1, <1>2, <1>3, <1>5, Seen, SeenNext
    <2> QED  BY <1>2, <2>1, GrowthKept
  <1> QED  BY <1>4, <1>5

\* Every step keeps the account.
LEMMA KeepsStep ==
    ASSUME KnowledgeInv, MergeKeeps, [KnowledgeNext]_knowledgeVars
    PROVE  MergeKeeps'
  <1>1. ASSUME NEW c \in CiteRow, rows' = rows \/ rows' = rows \cup {c}, merge' = merge
        PROVE  MergeKeeps'
    <2>1. c.table = "cite"
      BY CiteForms
    <2>2. \A r : r.table # "cite" => (r \in View' <=> r \in View \/ (r \in rows' /\ r \notin rows))
      BY <1>1, <2>1, Seen, SeenNext
    <2>3. rows \subseteq rows'
      BY <1>1
    <2> QED  BY <1>1, <2>2, <2>3, GrowthKept
  <1>2. ASSUME rows' = rows, merge' = merge PROVE MergeKeeps'
    <2>1. \A r : r.table # "cite" => (r \in View' <=> r \in View \/ (r \in rows' /\ r \notin rows))
      BY <1>2, Seen, SeenNext
    <2> QED  BY <1>2, <2>1, GrowthKept
  <1>3. CASE AttachInsert
    <2>1. Head(pending) \in CiteRow
      BY <1>3, HeadTailProperties DEF AttachInsert, KnowledgeInv, KnowledgeTypeOK
    <2>2. (rows' = rows \/ rows' = rows \cup {Head(pending)}) /\ merge' = merge
      BY <1>3 DEF AttachInsert
    <2> QED  BY <1>1, <2>1, <2>2
  <1>4. CASE \/ UNCHANGED knowledgeVars
             \/ \E e \in Entities : CreateEntity(e)
             \/ \E id \in CitedEdges, p \in Spans : AttachLookup(id, p)
    BY <1>2, <1>4 DEF knowledgeVars, CreateEntity, AttachLookup
  <1>5. CASE MergeCommit \/ MergeLost
    BY <1>5 DEF MergeCommit, MergeLost, MergeKeeps, NoMerge
  <1>6. CASE \/ \E e \in Entities, n \in Names : AddAlias(e, n)
             \/ \E e \in Entities, d \in LinkedDocs : AttachEntities(e, d)
             \/ \E c \in EdgeChoices : CreateEdge(c[1], c[2], c[3])
    BY <1>6, RequestsInsert, InsertKept DEF KnowledgeInv
  <1>7. CASE \E s, t \in Entities : MergeBegin(s, t)
    BY <1>7, BeginsKept
  <1>8. CASE MergeStatement
    BY <1>8, StatementKept
  <1> QED  BY <1>3, <1>4, <1>5, <1>6, <1>7, <1>8 DEF KnowledgeNext

\* Only a commit announces a merge, and it commits what the account is of.
LEMMA CommitLosesNothing ==
    ASSUME KnowledgeInv, MergeKeeps, KnowledgeNext, merged' # merged
    PROVE  LET s == merge.source
               t == merge.target
               New(n) == IF n = s THEN t ELSE n
           IN  /\ \A r \in AliasesOf(rows, s) \ rows' : \E q \in AliasesOf(rows', t) : q.name = r.name
               /\ \A r \in LinksOf(rows, s) \ rows' : \E q \in LinksOf(rows', t) : q.version = r.version
               /\ \A r \in EdgesIn(rows) : New(r.src) # New(r.dst) =>
                    \E q \in EdgesIn(rows') : New(q.src) = New(r.src) /\ New(q.dst) = New(r.dst)
  <1>1. MergeCommit
    <2>1. ~ \E r : Inserts(r)
      BY DEF Inserts, Insert
    <2>2. ~ \/ \E e \in Entities, n \in Names : AddAlias(e, n)
            \/ \E e \in Entities, d \in LinkedDocs : AttachEntities(e, d)
            \/ \E c \in EdgeChoices : CreateEdge(c[1], c[2], c[3])
      BY <2>1, RequestsInsert DEF KnowledgeInv
    <2>3. ~ \/ \E s, t \in Entities : MergeBegin(s, t)
            \/ MergeStatement \/ MergeLost
            \/ \E e \in Entities : CreateEntity(e)
            \/ \E id \in CitedEdges, p \in Spans : AttachLookup(id, p)
            \/ AttachInsert
      BY DEF MergeBegin, MergeStatement, MergeLost, CreateEntity, AttachLookup, AttachInsert
    <2> QED  BY <2>2, <2>3 DEF KnowledgeNext
  <1>2. merge.step = 10 /\ rows' = View
    BY <1>1, StatementNames DEF MergeCommit
  <1>3. PICK s, t, R, V : s = merge.source /\ t = merge.target /\ R = rows /\ V = View
    OBVIOUS
  <1>4. AliasesKept(R, V, s, t) /\ LinksKept(R, V, s, t) /\ EdgesKept(R, V, s, t)
    BY <1>2, <1>3 DEF MergeKeeps
  <1>5. /\ \A r \in AliasesOf(R, s) \ V : \E q \in AliasesOf(V, t) : q.name = r.name
        /\ \A r \in LinksOf(R, s) \ V : \E q \in LinksOf(V, t) : q.version = r.version
    BY <1>4 DEF AliasesKept, LinksKept
  <1>6. \A r \in EdgesIn(R) : Renamed(r.src, s, t) # Renamed(r.dst, s, t) =>
           \E q \in EdgesIn(V) : /\ Renamed(q.src, s, t) = Renamed(r.src, s, t)
                                 /\ Renamed(q.dst, s, t) = Renamed(r.dst, s, t)
    BY <1>4 DEF EdgesKept, Joins
  <1> QED  BY <1>2, <1>3, <1>5, <1>6 DEF Renamed

\* Whatever requests write while a merge runs, at its commit every alias and link of
\* its source is the target's or is still there, and two nodes that an edge joined
\* are joined in that direction still, the target standing for the source.
THEOREM MergesKeepNeighbours == KnowledgeSpec => MergeKeepsNeighbours
  <1> DEFINE Both == KnowledgeInv /\ MergeKeeps
             Lossless ==
                merged' # merged =>
                LET s == merge.source
                    t == merge.target
                    New(n) == IF n = s THEN t ELSE n
                IN  /\ \A r \in AliasesOf(rows, s) \ rows' : \E q \in AliasesOf(rows', t) : q.name = r.name
                    /\ \A r \in LinksOf(rows, s) \ rows' : \E q \in LinksOf(rows', t) : q.version = r.version
                    /\ \A r \in EdgesIn(rows) : New(r.src) # New(r.dst) =>
                         \E q \in EdgesIn(rows') : New(q.src) = New(r.src) /\ New(q.dst) = New(r.dst)
  <1>1. KnowledgeInit => Both
    BY KnowledgeStart DEF KnowledgeInit, KnowledgeAtRest, MergeKeeps, NoMerge
  <1>2. Both /\ [KnowledgeNext]_knowledgeVars => Both'
    BY KnowledgeStep, KeepsStep
  <1>3. Both /\ [KnowledgeNext]_knowledgeVars => [Lossless]_knowledgeVars
    <2> HIDE DEF Lossless
    <2>1. Both /\ KnowledgeNext => Lossless
      BY CommitLosesNothing DEF Lossless
    <2> QED  BY <2>1
  <1>4. (MergeKeepsNeighbours) <=> [][Lossless]_knowledgeVars
    BY DEF MergeKeepsNeighbours
  <1> HIDE DEF Both, Lossless
  <1>5. KnowledgeSpec => [][Lossless]_knowledgeVars
    BY <1>1, <1>2, <1>3, PTL DEF KnowledgeSpec
  <1> QED  BY <1>4, <1>5
=============================================================================
