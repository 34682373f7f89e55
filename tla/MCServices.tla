----------------------------- MODULE MCServices -----------------------------
(***************************************************************************)
(* Instances of the service components and of the ingest for TLC.  The     *)
(* parts share no table and no call, so their steps commute and a          *)
(* behaviour of all of them is made of behaviours of each: a behaviour of  *)
(* the run takes one part, with the others at rest, and their state spaces *)
(* add up instead of multiplying.  The ask part goes with the graph and    *)
(* the catalogue it reads; the pipeline with the database it seeds and the *)
(* job it reports to, which the seed and the jobs part take on their own.  *)
(***************************************************************************)
EXTENDS Ask, FileStore, Access, ResponseCache, MCIngest

CONSTANT Parts  \* the components a run takes

VARIABLE part   \* the component this behaviour is about

serviceVars == <<knowledgeVars, fileVars, accessVars, cacheVars, askVars>>
commandVars == <<project, last, commands, crashes>>
allVars == <<part, serviceVars, commandVars, seedVars, jobVars, segmentVars>>

Edge(id, src, type, dst) == [table |-> "edge", id |-> id, src |-> src, type |-> type, dst |-> dst]
Alias(e, n) == [table |-> "alias", entity |-> e, name |-> n]

\* e1 and e2 share an alias; e2's edge to e3 can become a duplicate or a loop, and
\* the ends and types of their edges overlap without any two being equal.
MCStart ==
    {Alias("e1", "n1"), Alias("e2", "n1"), [table |-> "link", entity |-> "e1", version |-> "v1"],
     Edge(11, "e1", "alternative_to", "v1"), Edge(12, "e2", "alternative_to", "e3"),
     Edge(13, "e2", "requires_tool", "e1")}

MCEdges == {<<"e1", "requires_tool", "e3">>, <<"v1", "requires_tool", "e2">>}

MCCacheKeys == {<<"search", "a">>, <<"search", "b">>, <<"ask", "a">>}

-----------------------------------------------------------------------------
(* Two objects, the first with two versions.                               *)

Guide == [svv |-> TRUE, mistakes |-> FALSE, stops |-> TRUE, escalate |-> FALSE, checks |-> 1, variants |-> TRUE]

Written(o, type, envelope, cited) ==
    [object |-> o, type |-> type, envelope |-> envelope, citations |-> cited, cautions |-> FALSE,
     facets |-> [housing_type |-> {"rural"}], difficulty |-> 4, stage |-> "household", risk |-> "moderate",
     cost |-> "low", language |-> "en"]

MCCatalog ==
    [v1 |-> Written("o1", "skill_guide", Guide, <<"x1">>),
     v2 |-> Written("o1", "skill_guide", [Guide EXCEPT !.svv = FALSE, !.escalate = TRUE, !.mistakes = TRUE], <<"x1", "x2">>),
     v3 |-> [Written("o2", "concept_note", None, <<>>) EXCEPT !.difficulty = 2, !.language = "es"]]

MCCases == {<<"v1", "v3">>}

\* The graph: both ways between the objects, an old version, an entity to know first.
MCGraphs ==
    LET edges == {Edge(11, "v3", "has_failure_mode", "v1"), Edge(12, "v1", "has_failure_mode", "v2"),
                  Edge(13, "v1", "prerequisite_for", "v3")}
    IN  {edges, {Edge(11, "e1", "prerequisite_for", "v1")}}

ASSUME GraphAssumption == \A g \in MCGraphs : g \subseteq Row

NoAttributes ==
    [difficulty_max |-> None, stage |-> None, risk_band |-> None, beginner_safe |-> FALSE,
     cost_band |-> None, language |-> None]

AnyQuestion ==
    [text |-> <<"v3", "v1", "v2">>, vector |-> <<"v2", "v3", "v1">>, embeds |-> TRUE, rank |-> 900000,
     seeds |-> {}, facets |-> <<>>, attributes |-> NoAttributes, matches |-> {"how_to"}, intent |-> None,
     max_search_results |-> 32, max_graph_depth |-> 3, min_reviewed |-> 2, must_cite |-> TRUE,
     prefer_verified |-> TRUE]

MCQuestions ==
    {AnyQuestion,
     [AnyQuestion EXCEPT !.embeds = FALSE, !.min_reviewed = 3],
     [AnyQuestion EXCEPT !.embeds = FALSE, !.min_reviewed = 0, !.must_cite = FALSE, !.matches = {"how_to", "why"}],
     [AnyQuestion EXCEPT !.text = <<"v1", "v2", "v3">>, !.matches = {"debug_failure", "how_to"}, !.seeds = {"o2"},
                         !.attributes = [NoAttributes EXCEPT !.beginner_safe = TRUE]],
     [AnyQuestion EXCEPT !.intent = "localize", !.max_search_results = 1, !.min_reviewed = 1,
                         !.attributes = [NoAttributes EXCEPT !.language = "en"]]}

-----------------------------------------------------------------------------
Init ==
    /\ part \in Parts
    /\ \/ part = "knowledge" /\ KnowledgeInit
       \/ /\ part # "knowledge"
          /\ status = [e \in Entities |-> "active"]
          /\ rows \in (IF part = "ask" THEN MCGraphs ELSE {{}})
          /\ KnowledgeAtRest
    /\ FilesInit /\ AccessInit /\ CacheInit /\ AskInit
    /\ part # "ask" => reviewed = {} /\ current["o1"] = "v1"
    /\ SeedInit
    /\ part # "seed" => db = EmptyDatabase
    /\ IF part = "jobs" THEN JobsInit /\ PipelineAtRest ELSE PipelineInit
    /\ part # "pipeline" => project = NoProject
    /\ IF part = "parse" THEN SegmentationInit ELSE document = <<>> /\ segments = {}

Serve ==
    \/ part = "knowledge" /\ KnowledgeNext /\ UNCHANGED <<fileVars, accessVars, cacheVars, askVars>>
    \/ part = "files" /\ FilesNext /\ UNCHANGED <<knowledgeVars, accessVars, cacheVars, askVars>>
    \/ part = "access" /\ AccessNext /\ UNCHANGED <<knowledgeVars, fileVars, cacheVars, askVars>>
    \/ part = "cache" /\ CacheNext /\ UNCHANGED <<knowledgeVars, fileVars, accessVars, askVars>>
    \/ part = "ask" /\ AskNext /\ UNCHANGED <<knowledgeVars, fileVars, accessVars, cacheVars>>

\* The bound of the commands comes first: past it no answer is worth enumerating.
Ingest ==
    \/ part = "parse" /\ RunParse /\ UNCHANGED <<commandVars, seedVars, jobVars>>
    \/ part = "jobs" /\ JobsNext /\ UNCHANGED <<commandVars, seedVars, segmentVars>>
    \/ part = "seed" /\ SeedNext /\ UNCHANGED <<commandVars, jobVars, segmentVars>>
    \/ part = "pipeline" /\ commands < MaxCommands /\ PipelineNext /\ UNCHANGED segmentVars

Next ==
    \/ Serve /\ UNCHANGED <<part, commandVars, seedVars, jobVars, segmentVars>>
    \/ Ingest /\ UNCHANGED <<part, serviceVars>>

Spec == Init /\ [][Next]_allVars

TypeOK ==
    /\ KnowledgeTypeOK /\ FilesTypeOK /\ AccessTypeOK /\ CacheTypeOK /\ AskTypeOK
    /\ SegmentationTypeOK /\ JobsTypeOK /\ SeedTypeOK /\ PipelineTypeOK
=============================================================================
