------------------------------ MODULE MCIngest ------------------------------
(***************************************************************************)
(* Instances of the ingest components for TLC: documents, packs to seed,   *)
(* and project directories with what the model answers on them.            *)
(***************************************************************************)
EXTENDS Pipeline, Segmentation

-----------------------------------------------------------------------------
(* Packs: a pack that links high-risk content, one that shares a node with *)
(* it, one that brings a node again as a draft.  The API has made nothing, *)
(* a draft of one object, or two published objects and an edge twice.      *)

Node(l, risk, requires, suggests, cites) ==
    [life |-> l, risk |-> risk, requires |-> requires, suggests |-> suggests, cites |-> cites]

CsvRow(src, type, dst, n) == [src |-> src, type |-> type, dst |-> dst, sequence |-> n]
To(type, s) == [type |-> type, to |-> s]

MCPacks ==
    {[nodes |-> ("a" :> Node("published", "high", {"b"}, {To("builds_on", "b")}, {<<"m", 1>>, NoSupport})
                  @@ "b" :> Node("draft", "low", {}, {To("builds_on", "a"), To("nonsense", "a")}, {<<"m", 1>>})),
      csv |-> {CsvRow("b", "REQUIRES", "a", 1), CsvRow("a", "NEXT", "c", 1), CsvRow("a", "PRECEDES", "c", 2)}],
     [nodes |-> ("b" :> Node("published", "low", {"c"}, {}, {})
                  @@ "c" :> Node("published", "expert_only", {}, {}, {<<"m", 2>>})),
      csv |-> {CsvRow("c", "builds_on", "a", 1)}],
     [nodes |-> ("a" :> Node("draft", "high", {"b"}, {}, {})), csv |-> {CsvRow("a", "COVERS", "b", 1), CsvRow("c", "REQUIRES", "b", 2)}]}

EmptyDatabase == [objects |-> NoFiles, announced |-> {}, edges |-> EmptyBag, spans |-> EmptyBag]

FromApi(l) ==
    [life |-> l, versioned |-> l = "published", made |-> "api", node |-> Node(l, "high", {}, {}, {})]

MCDatabases ==
    {EmptyDatabase,
     [EmptyDatabase EXCEPT !.objects = "c" :> FromApi("draft")],
     [EmptyDatabase EXCEPT !.objects = "b" :> FromApi("published") @@ "c" :> FromApi("published"),
                           !.edges = Triple("c", "prerequisite_for", "b") :> 2]}

-----------------------------------------------------------------------------
(* Projects: none yet, one with its matrix extracted (a slug on two rows,  *)
(* a segment nobody parsed), one with two similar drafts cited.  There are *)
(* two sources, m and n, and ids of segments in full and bare.             *)

MCOrder == <<"a", "b", "c">>
MCSource == {<<"m", 1>>, <<"m", 2>>, <<"m", 3>>, <<"n", 1>>}

Shape(guide, envelope, risk, requires, suggests, cites) ==
    [guide |-> guide, envelope |-> envelope, risk |-> risk, safety |-> risk = "high", life |-> "draft",
     requires |-> requires, suggests |-> suggests, cites |-> cites]

Plain == Shape(TRUE, TRUE, "low", {"b"}, {}, {})
Risky == Shape(FALSE, FALSE, "high", {}, {To("builds_on", "a")}, {<<"m", 1>>})
Bold == Shape(TRUE, FALSE, "low", {}, {}, {})
MCShapes == {Plain, Risky, Bold}

MatrixRow(s, source, segs) == [slug |-> s, source |-> source, segs |-> segs]
FirstMatrix ==
    <<MatrixRow("a", "m", {Bare(1)}), MatrixRow("b", "m", {<<"m", 2>>, Bare(4)}), MatrixRow("a", "m", {Bare(3)})>>

\* The second matrix has a topic in two sources.
MCMatrices == {FirstMatrix, <<MatrixRow("c", "m", {Bare(2)}), MatrixRow("c", "n", {Bare(1)})>>}

MCAnswers == {[segs |-> {<<"m", 1>>, Bare(2)}], [segs |-> {Bare(2), <<"m", 7>>}]}

Object(s, shape, lineage) == [slug |-> s, shape |-> shape, lineage |-> lineage]

Decide(action, canonical, deprecated, objects) ==
    [action |-> action, canonical |-> canonical, deprecated |-> deprecated, objects |-> objects]

\* A merge onto one of the originals, one onto a draft it does not list, one that
\* does not fit the schema; a split that keeps a name, one without any.
MCDecisions ==
    {Decide("merge", "a", {"a", "b"}, <<Object("c", Plain, {})>>),
     Decide("merge", "b", {"a"}, <<Object("", Plain, {})>>),
     Decide("merge", "c", {"a", "b"}, <<Object("c", Bold, {})>>),
     Decide("split", "a", {"a"}, <<Object("a", Plain, {{<<"m", 2>>}}), Object("c", Plain, {}), Object("", Plain, {})>>),
     Decide("split", "b", {"b"}, <<Object("", Risky, {})>>),
     Decide("keep", "a", {}, <<>>)}

MCFoundEdges == {{CsvRow("a", "prerequisite_for", "b", 0)}}

CitedDraft(shape, segs, cites) == [shape EXCEPT !.cites = cites] @@ [segs |-> segs, bundle |-> FALSE]

MCProjects ==
    LET m(n) == <<"m", n>>
        extracted == [NoProject EXCEPT !.home = TRUE, !.manifest = "whole", !.source = TRUE, !.bound = TRUE,
                                       !.done = {"parse", "extract"}, !.segments = [rows |-> Source],
                                       !.matrix = [rows |-> FirstMatrix]]
        cited == [extracted EXCEPT !.done = @ \cup {"draft", "cite"},
                                   !.drafts = "a" :> CitedDraft(Plain, {m(1), m(3)}, {m(1), m(2)})
                                              @@ "b" :> CitedDraft(Risky, {m(2)}, {m(2)})]
    IN  {NoProject, extracted, cited}
=============================================================================
