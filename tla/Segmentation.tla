---------------------------- MODULE Segmentation ----------------------------
(***************************************************************************)
(* Pass 0: a markdown document cut into segments at its headings, with the *)
(* pages each one touches (cli/ingest/parse.py).  A document is a sequence *)
(* of pieces: headings of level 1 to 3, text, and page markers, each of    *)
(* which starts the next page.  A piece stands for its characters.         *)
(***************************************************************************)
EXTENDS Integers, Sequences, FiniteSets

CONSTANT MaxPieces  \* bound: pieces of a document

ASSUME SegmentationAssumption == MaxPieces \in Nat

VARIABLES
    document,   \* the markdown
    segments    \* what run_parse writes

segmentVars == <<document, segments>>

Headings == {"h1", "h2", "h3"}
Level == [h1 |-> 1, h2 |-> 2, h3 |-> 3]
Pieces == Headings \cup {"text", "marker"}

Places(doc, kinds) == {i \in DOMAIN doc : doc[i] \in kinds}

\* A marker counts from its end on.
PageAt(doc, pos) == 1 + Cardinality({m \in Places(doc, {"marker"}) : m < pos})

Largest(S) == CHOOSE i \in S : \A j \in S : j <= i

\* Mutant: the last character, be it of a marker.
LastPosition(doc, start, end) == end

\* The last position before end that is no marker, or start; end itself is out.
LastContentPos(doc, start, end) == Largest({start} \cup {i \in start..end - 1 : doc[i] # "marker"})

\* The stack is cut to one less than the level, as far as it is filled.
HeadingPath(doc, i) ==
    LET heads == Places(doc, Headings)
        Stack[k \in 0..i] ==
            IF k = 0 THEN <<>>
            ELSE IF k \notin heads THEN Stack[k - 1]
            ELSE LET kept == IF Level[doc[k]] - 1 < Len(Stack[k - 1]) THEN Level[doc[k]] - 1 ELSE Len(Stack[k - 1])
                 IN  Append(SubSeq(Stack[k - 1], 1, kept), k)
    IN  Stack[i]

Segment(doc, number, start, end, path) ==
    [number |-> number, start |-> start, end |-> end, path |-> path,
     first |-> PageAt(doc, start), last |-> PageAt(doc, LastContentPos(doc, start, end))]

\* Without a heading the document is one segment, if it has any text; with one,
\* what comes before the first heading is in no segment.
MarkdownToSegments(doc) ==
    LET heads == Places(doc, Headings)
        ends(i) == {j \in heads : j > i} \cup {Len(doc) + 1}
        end(i) == CHOOSE j \in ends(i) : \A k \in ends(i) : j <= k
    IN  IF heads = {}
        THEN IF Places(doc, {"text"}) = {} THEN {} ELSE {Segment(doc, 1, 1, Len(doc) + 1, <<>>)}
        ELSE {Segment(doc, Cardinality({j \in heads : j <= i}), i, end(i), HeadingPath(doc, i)) : i \in heads}

\* run_parse: the segments of a source are written over what was there.
RunParse ==
    /\ segments' = MarkdownToSegments(document)
    /\ UNCHANGED document

SegmentationInit ==
    /\ document \in UNION {[1..n -> Pieces] : n \in 0..MaxPieces}
    /\ segments = {}

SegmentationSpec == SegmentationInit /\ [][RunParse]_segmentVars

SegmentationTypeOK ==
    \A s \in segments : /\ s.start \in 1..s.end /\ s.end <= Len(document) + 1
                        /\ s.first \in Nat /\ s.last \in Nat

\* Something of the segment other than a marker is on the page.
OnPage(doc, s, page) == \E i \in s.start..s.end - 1 : doc[i] # "marker" /\ PageAt(doc, i) = page

\* The pages recorded for a segment fit its text, but for one first page: each
\* text after the first heading is in exactly one segment, on one of its pages;
\* something of the segment other than markers is on its last page, and on its
\* first unless it begins with a marker, which only a document without headings
\* can; and segments in order of their numbers never go back a page.
PagesCoverText ==
    segments # {} =>
    LET s0 == CHOOSE i \in {s.start : s \in segments} : \A s \in segments : i <= s.start
    IN
    /\ \A t \in Places(document, {"text"}) :
         LET in == {s \in segments : t \in s.start..s.end - 1}
         IN  /\ Cardinality(in) = IF t < s0 THEN 0 ELSE 1
             /\ \A s \in in : PageAt(document, t) \in s.first..s.last
    /\ \A s \in segments :
         /\ OnPage(document, s, s.last)
         /\ OnPage(document, s, s.first) \/ (document[s.start] = "marker" /\ Places(document, Headings) = {})
    /\ \A r, s \in segments : r.number < s.number => r.end <= s.start /\ r.last <= s.first
=============================================================================
