------------------------------- MODULE Answer -------------------------------
(***************************************************************************)
(* The answer made of an evidence pack (retrieval/answer_composer.py).  A  *)
(* pack's evidence is a sequence of ranked items; what an object says is   *)
(* abstracted to whether it says it: its summary, its citations' excerpts, *)
(* the parts of its implementation envelope.  A text in the answer is      *)
(* stood for by where it comes from.                                       *)
(***************************************************************************)
EXTENDS Search

CONSTANT Cases  \* rows of contradiction_cases, as <<left version, right version>>

GuideTypes == {"skill_guide", "project_blueprint"}
NoticeTypes == {"safety_notice", "correction"}

\* An empty envelope is as good as none.
Envelope(v) == Catalog[v].envelope

GuidesIn(E) == {i \in DOMAIN E : Catalog[E[i].version].type \in GuideTypes /\ Envelope(E[i].version) # None}

First(S) == CHOOSE i \in S : \A j \in S : i <= j

\* The version whose envelope the answer is built on.
TopGuide(E) == IF GuidesIn(E) = {} THEN None ELSE E[First(GuidesIn(E))].version

Says(E, part) == TopGuide(E) # None /\ Envelope(TopGuide(E))[part]

ConflictsOf(E) == {c \in Cases : \E i \in DOMAIN E : E[i].version \in {c[1], c[2]}}

\* Contradictions carry no description, so none of them becomes a warning.
Warnings(E) ==
    (IF Says(E, "mistakes") THEN {<<"mistakes", TopGuide(E)>>} ELSE {})
    \cup {<<"summary", E[i].version>> :
            i \in {j \in DOMAIN E : \/ Catalog[E[j].version].type \in NoticeTypes
                                    \/ Catalog[E[j].version].cautions}}

\* Without an envelope the rationales would do, but none of them speaks of stopping.
Stops(E) == IF Says(E, "stops") THEN {<<"stops", TopGuide(E)>>} ELSE {}

EmphasisIntents == {"how_to", "safety_check", "debug_failure"}

\* Mutant: the envelope's word on it, or nothing.
HelpAsWritten(E, intent) == IF Says(E, "escalate") THEN {<<"escalate", TopGuide(E)>>} ELSE {}

Help(E, intent) ==
    IF Says(E, "escalate") THEN {<<"escalate", TopGuide(E)>>}
    ELSE IF intent \in EmphasisIntents /\ Warnings(E) = {} THEN {<<"consult", None>>}
    ELSE {}

\* The numbers start at 2 when the envelope has checks and no smallest version.
EnvelopeSteps(E) ==
    LET v == TopGuide(E)
    IN  IF v = None THEN <<>>
        ELSE (IF Says(E, "svv") THEN <<[number |-> 1, from |-> <<"svv", v>>]>> ELSE <<>>)
             \o [i \in 1..Envelope(v).checks |-> [number |-> i + 1, from |-> <<"check", v>>]]

StepsOf(E) ==
    LET actionable == SelectSeq(E, LAMBDA r : Catalog[r.version].type \in
                                     GuideTypes \cup {"concept_note", "worksheet"})
    IN  IF EnvelopeSteps(E) # <<>> THEN EnvelopeSteps(E)
        ELSE [i \in DOMAIN actionable |-> [number |-> i, from |-> <<"summary", actionable[i].version>>]]

ActionNow(E) ==
    IF Says(E, "svv") THEN <<"svv", TopGuide(E)>>
    ELSE IF E = <<>> THEN None
    ELSE <<"summary", E[1].version>>

\* Each excerpt once, under the first item that has it.
CitationsOf(E) ==
    LET excerpts == UNION {Range(Catalog[E[i].version].citations) : i \in DOMAIN E}
        at(x) == First({i \in DOMAIN E : x \in Range(Catalog[E[i].version].citations)})
    IN  {[excerpt |-> x, from |-> E[at(x)].version,
          strength |-> IF E[at(x)].score > 7000 THEN "strong" ELSE "moderate"] : x \in excerpts}

\* Next steps carry no slug, and the ones without a slug are left out.
Related(nextSteps) == {n \in nextSteps : "slug" \in DOMAIN n}

UncertaintiesOf(E, sufficiency) ==
    IF E = <<>> THEN {"nothing found"}
    ELSE (IF sufficiency < 5000 THEN {"may not address the question"} ELSE {})
         \cup (IF ConflictsOf(E) # {} THEN {"conflicting"} ELSE {})
         \cup (IF Len(E) < 3 THEN {"limited"} ELSE {})

\* compare_options: one line for each envelope, one more for its first variant.
Comparison(E) ==
    LET compared == {i \in DOMAIN E : /\ Catalog[E[i].version].type \in GuideTypes \cup {"concept_note"}
                                      /\ Envelope(E[i].version) # None}
    IN  {<<"option", E[i].version>> : i \in compared}
        \cup {<<"variant", E[i].version>> : i \in {j \in compared : Envelope(E[j].version).variants}}

ShapeFor(intent) ==
    [plan |-> intent \notin {"safety_check", "compare_options", "why", "what_changed"},
     action |-> intent \in {"how_to", "teach_forward", "localize", "debug_failure"},
     comparison |-> intent = "compare_options"]

ComposeAnswer(E, intent, sufficiency, nextSteps) ==
    [body |-> {<<"summary", E[i].version>> : i \in DOMAIN Take(E, 5)}
              \cup (IF ShapeFor(intent).comparison THEN Comparison(E) ELSE {}),
     action |-> IF ShapeFor(intent).action THEN ActionNow(E) ELSE None,
     steps |-> IF ShapeFor(intent).plan THEN StepsOf(E) ELSE <<>>,
     citations |-> CitationsOf(E),
     related |-> Related(nextSteps),
     uncertain |-> UncertaintiesOf(E, sufficiency),
     conflicts |-> ConflictsOf(E),
     warnings |-> Warnings(E), stops |-> Stops(E), help |-> Help(E, intent),
     intent |-> intent]
=============================================================================
