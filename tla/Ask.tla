-------------------------------- MODULE Ask --------------------------------
(***************************************************************************)
(* A question to the public API: conversation memory, intent, plan,        *)
(* retrieval run, answer (api/routes/ask.py, retrieval/).  It is one       *)
(* database session of many statements; what editors commit in between is  *)
(* seen by the statements after it.  Rows that are added are sent at once  *)
(* and last only if the session commits later: execute_plan commits the    *)
(* run with its steps, and the turn is saved after that commit, by a       *)
(* session that is then closed without another one.                        *)
(* A request to retrieve/evidence_pack is the same without conversation.   *)
(***************************************************************************)
EXTENDS Knowledge, Answer

CONSTANTS
    Conversations,  \* conversation ids clients send
    Questions,      \* the requests clients make
    PackSize,       \* items of an evidence pack: 8 in the code
    MaxAsks,        \* bound: questions asked in a behaviour
    MaxEdits        \* bound: what editors and reviewers do meanwhile

ASSUME AskAssumption ==
    /\ VersionIds = Docs
    /\ None \notin Docs \cup Conversations
    /\ PackSize \in Nat \ {0} /\ MaxAsks \in Nat /\ MaxEdits \in Nat

\* retrieval/intent.py
Patterns == <<"safety_check", "debug_failure", "what_changed", "compare_options", "localize",
              "teach_forward", "learn_path", "why", "how_to">>

Intents == {Patterns[i] : i \in DOMAIN Patterns}

\* What the request schema lets through.  A query matches each version once: the
\* text query selects versions, the vector query is grouped by version.
ASSUME QuestionAssumption ==
    \A q \in Questions :
        /\ q.text \in Seq(Docs) /\ IsInjective(q.text)
        /\ q.vector \in Seq(Docs) /\ IsInjective(q.vector)
        /\ q.rank \in Nat /\ q.seeds \subseteq Objects
        /\ q.intent = None \/ q.intent \in Intents
        /\ q.max_search_results \in Nat \ {0}
        /\ q.max_graph_depth \in 1..6 /\ q.min_reviewed \in 0..20

VARIABLES
    reviewed,   \* versions with an APPROVED or VERIFIED review record
    runs,       \* committed rows of retrieval_runs: the reviewed items the request
                \* wants, the types of the steps, the result
    turns,      \* committed rows of conversation_turns, counted by conversation
    answered,   \* history: answers given, by conversation
    ask,        \* the open session
    asks, edits \* how often the bounded actions were taken

askVars == <<catalogVars, reviewed, runs, turns, answered, ask, asks, edits>>

Closed == [at |-> "closed"]

-----------------------------------------------------------------------------
(* Intent: retrieval/intent.py.  Which patterns a query matches is an      *)
(* input; the first of the heaviest ones gives the intent.                 *)

Weight == [safety_check |-> 30, debug_failure |-> 30, what_changed |-> 25, compare_options |-> 25,
           localize |-> 20, teach_forward |-> 20, learn_path |-> 22, why |-> 15, how_to |-> 10]

InferIntent(matches) ==
    LET Best[i \in 0..Len(Patterns)] ==
            IF i = 0 THEN [intent |-> "how_to", weight |-> 0]
            ELSE IF Patterns[i] \in matches /\ Weight[Patterns[i]] > Best[i - 1].weight
                 THEN [intent |-> Patterns[i], weight |-> Weight[Patterns[i]]]
                 ELSE Best[i - 1]
    IN  Best[Len(Patterns)].intent

IntentEdgeTypes ==
    [how_to |-> {"supported_by", "requires_tool", "requires_material", "has_failure_mode",
                 "mitigated_by", "bounded_by"},
     learn_path |-> {"prerequisite_for", "next_step_for", "builds_on", "contains"},
     why |-> {"supported_by", "derived_from", "validated_by", "contradicted_by"},
     compare_options |-> {"alternative_to", "applies_in", "adapted_for", "bounded_by"},
     localize |-> {"adapted_for", "applies_in", "bounded_by", "alternative_to"},
     debug_failure |-> {"has_failure_mode", "mitigated_by", "contradicted_by", "supported_by"},
     teach_forward |-> {"contains", "next_step_for", "assessed_by"},
     what_changed |-> {"supersedes", "corrected_by", "deprecated_by", "contradicted_by"},
     safety_check |-> {"unsafe_without", "bounded_by", "mitigated_by", "contradicted_by", "validated_by"}]

\* compile_plan; the weights it records are not used by the ranking.
Plan(q, intent) ==
    [top_k |-> IF q.max_search_results < 50 THEN q.max_search_results ELSE 50,
     depth |-> q.max_graph_depth,
     edge_types |-> IntentEdgeTypes[intent]]

-----------------------------------------------------------------------------
(* Ranking and sufficiency: RetrievalService, in units of 10^-4            *)

CiteCount(v) == Len(Catalog[v].citations)

Score(hit, q, expanded) ==
    (hit.score + 50) \div 100
    + (IF hit.life = "published" THEN 1500 ELSE 0)
    + (IF q.prefer_verified /\ hit.version \in reviewed THEN 1500 ELSE 0)
    + (IF ~q.must_cite THEN 0 ELSE IF CiteCount(hit.version) >= 5 THEN 1000 ELSE 200 * CiteCount(hit.version))
    + 500 * Cardinality(hit.facets)
    + (IF hit.version \in expanded THEN 1000 ELSE 0)

\* A stable sort by falling score; each item keeps what the ranking read.
Rerank(hits, q, expanded) ==
    LET item == [i \in DOMAIN hits |->
                   [version |-> hits[i].version, score |-> Score(hits[i], q, expanded),
                    reviewed |-> hits[i].version \in reviewed, cited |-> CiteCount(hits[i].version) > 0]]
        place(i) == 1 + Cardinality({j \in DOMAIN hits : \/ item[j].score > item[i].score
                                                         \/ item[j].score = item[i].score /\ j < i})
    IN  [p \in DOMAIN hits |-> item[CHOOSE i \in DOMAIN hits : place(i) = p]]

AtLeastOne(n) == IF n = 0 THEN 1 ELSE n

\* Mutant: nothing to review counts as reviewed.
FractionOfNone(count, wanted) == IF wanted = 0 THEN 4000 ELSE (4000 * count) \div wanted

ReviewFraction(count, wanted) == (4000 * count) \div AtLeastOne(wanted)

\* 0.4 for reviews, 0.3 for citations, 0.3 for relevance.
Sufficiency(ranked, q) ==
    LET top == Take(ranked, AtLeastOne(q.min_reviewed))
        n == Len(top)
        Total[i \in 0..n] == IF i = 0 THEN 0 ELSE Total[i - 1] + top[i].score
        reviews == Cardinality({i \in 1..n : top[i].reviewed})
        cites == Cardinality({i \in 1..n : top[i].cited})
        relevance == (3000 * Total[n]) \div (15000 * n)
    IN  IF n = 0 THEN 0
        ELSE ReviewFraction(reviews, q.min_reviewed)
             + (IF q.must_cite THEN (3000 * cites) \div n ELSE 3000)
             + (IF relevance < 3000 THEN relevance ELSE 3000)

Threshold == 7500

-----------------------------------------------------------------------------
(* The session, one statement or group of statements that reads at once    *)

\* get_or_create_conversation_id, get_prior_turns: at most five earlier turns go
\* before the question; then the intent, if the client gave none.
BeginAsk(q, conversation) ==
    /\ ask = Closed /\ asks < MaxAsks
    /\ asks' = asks + 1
    /\ ask' = [at |-> "seeds", q |-> q, conversation |-> conversation,
               prior |-> IF conversation = None THEN 0
                         ELSE IF turns[conversation] < 5 THEN turns[conversation] ELSE 5,
               intent |-> IF q.intent # None THEN q.intent ELSE InferIntent(q.matches)]
    /\ UNCHANGED <<catalogVars, reviewed, runs, turns, answered, edits>>

\* The fields a statement adds to what the session holds.
Holds(fields) == [f \in DOMAIN fields \cup DOMAIN ask |-> IF f \in DOMAIN fields THEN fields[f] ELSE ask[f]]

AskStep(fields) ==
    /\ ask' = Holds(fields)
    /\ UNCHANGED <<catalogVars, reviewed, runs, turns, answered, asks, edits>>

RunRow(q, steps, outcome, evidence) ==
    [wanted |-> q.min_reviewed, steps |-> steps, status |-> outcome, evidence |-> evidence]
AllSteps == {"resolve_seeds", "search", "graph_expand", "rerank", "sufficiency", "assemble"}

\* The run and each of its steps are flushed on the way, none of them committed.
ResolveSeeds ==
    /\ ask.at = "seeds"
    /\ AskStep([at |-> "text",
             seeds |-> {current[o] : o \in ask.q.seeds},
             steps |-> {"resolve_seeds"}])

SearchText ==
    /\ ask.at = "text"
    /\ AskStep([at |-> IF ask.q.embeds THEN "vector" ELSE "graph",
             text |-> TextHits(ask.q, IF ask.q.embeds THEN Candidates(Plan(ask.q, ask.intent).top_k)
                                      ELSE Plan(ask.q, ask.intent).top_k),
             vector |-> <<>>,
             hits |-> TextHits(ask.q, Plan(ask.q, ask.intent).top_k),
             steps |-> ask.steps \cup {"search"}])

SearchVector ==
    /\ ask.at = "vector"
    /\ AskStep([at |-> "rows", nearest |-> Nearest(ask.q, Candidates(Plan(ask.q, ask.intent).top_k))])

LoadHits ==
    /\ ask.at = "rows"
    /\ LET vector == VectorHits(ask.nearest)
       IN  \E hits \in Fused(ask.text, vector, Plan(ask.q, ask.intent).top_k) :
             AskStep([at |-> "graph", vector |-> vector, hits |-> hits])

VersionsIn(hits) == {hits[i].version : i \in DOMAIN hits}

\* Mutant: the candidates of the graph are not told from the hits.
ExpandAll(edges, hits) == {d.dst : d \in edges} \cap Docs

\* Any version an edge leads to that is no hit, published or not.
Expanded(edges, hits) == ({d.dst : d \in edges} \cap Docs) \ VersionsIn(hits)

\* The walk starts from the seeds and the first five hits; what it finds has no
\* search score and no facets, in the order the database returns it.
ExpandGraph ==
    /\ ask.at = "graph"
    /\ LET plan == Plan(ask.q, ask.intent)
           edges == Neighbours(ask.seeds \cup VersionsIn(Take(ask.hits, 5)), plan.edge_types, plan.depth)
           found == Expanded(edges, ask.hits)
       IN  \E order \in SetToSeqs(found) :
             AskStep([at |-> "rank",
                   expanded |-> found,
                   candidates |-> ask.hits \o [i \in DOMAIN order |-> Hit(order[i], 0, {})],
                   steps |-> ask.steps \cup {"graph_expand"}])

RankHits ==
    /\ ask.at = "rank"
    /\ LET ranked == Rerank(ask.candidates, ask.q, ask.expanded)
       IN  AskStep([at |-> "assemble", ranked |-> ranked,
                 sufficiency |-> Sufficiency(ranked, ask.q),
                 steps |-> ask.steps \cup {"rerank", "sufficiency"}])

Evidence == Take(ask.ranked, PackSize)

\* What must be known before the three best (at most three of each are looked at,
\* and no version has more here).
NextSteps ==
    UNION {{[version |-> p, before |-> Evidence[i].version] :
               p \in ReversePrerequisites({Evidence[i].version}, "prerequisite_for")[Evidence[i].version]} :
             i \in 1..Len(Take(Evidence, 3))}

RunStatus(sufficiency) == IF sufficiency >= Threshold THEN "completed" ELSE "budget_exhausted"

\* The pack is assembled, everything since BeginAsk is committed, and the answer is
\* composed.  Next steps are loaded as versions: an entity among them is not found
\* and the request fails.
Commit ==
    /\ ask.at = "assemble"
    /\ {n.version : n \in NextSteps} \subseteq Docs
    /\ runs' = Append(runs, RunRow(ask.q, ask.steps \cup {"assemble"}, RunStatus(ask.sufficiency), Evidence))
    /\ ask' = Holds([at |-> "answer",
                     answer |-> ComposeAnswer(Evidence, ask.intent, ask.sufficiency, NextSteps)])
    /\ UNCHANGED <<catalogVars, reviewed, turns, answered, asks, edits>>

\* save_turn only flushes.
SaveTurn ==
    /\ ask.at = "answer"
    /\ ask' = Holds([at |-> "respond"])
    /\ UNCHANGED <<catalogVars, reviewed, runs, turns, answered, asks, edits>>

\* The answer is sent and the session closed: what was not committed rolls back.
Respond ==
    /\ ask.at = "respond"
    /\ ask' = Closed
    /\ answered' = IF ask.conversation = None THEN answered
                   ELSE [answered EXCEPT ![ask.conversation] = @ + 1]
    /\ UNCHANGED <<catalogVars, reviewed, runs, turns, asks, edits>>

\* Mutant: what the failed request flushed is committed with it.
AskLostKept ==
    /\ ask # Closed
    /\ ask' = Closed
    /\ runs' = IF ask.at \in {"graph", "rank", "assemble"}
               THEN Append(runs, RunRow(ask.q, ask.steps, "budget_exhausted", <<>>)) ELSE runs
    /\ UNCHANGED <<catalogVars, reviewed, turns, answered, asks, edits>>

\* The request fails, or the process dies, at any statement.
AskLost ==
    /\ ask # Closed
    /\ ask' = Closed
    /\ UNCHANGED <<catalogVars, reviewed, runs, turns, answered, asks, edits>>

Edit ==
    /\ edits < MaxEdits /\ ask # Closed
    /\ edits' = edits + 1
    /\ \/ (\E v \in Docs : Publish(v)) /\ UNCHANGED reviewed
       \/ (\E o \in Objects : Deprecate(o)) /\ UNCHANGED reviewed
       \/ \E v \in Docs \ reviewed : reviewed' = reviewed \cup {v} /\ UNCHANGED catalogVars
    /\ UNCHANGED <<runs, turns, answered, ask, asks>>

AskInit ==
    /\ CatalogInit
    /\ reviewed \in SUBSET Docs
    /\ runs = <<>> /\ ask = Closed /\ asks = 0 /\ edits = 0
    /\ turns = [c \in Conversations |-> 0] /\ answered = [c \in Conversations |-> 0]

AskNext ==
    \/ \E q \in Questions, c \in Conversations \cup {None} : BeginAsk(q, c)
    \/ ResolveSeeds \/ SearchText \/ SearchVector \/ LoadHits \/ ExpandGraph \/ RankHits
    \/ Commit \/ SaveTurn \/ Respond
    \/ AskLost
    \/ Edit

\* The graph is not the session's: between two statements it may become any other.
AskSpec == AskInit /\ [][AskNext]_askVars

AskTypeOK ==
    /\ life \in [Objects -> {"published", "deprecated"}]
    /\ current \in [Objects -> Docs]
    /\ reviewed \subseteq Docs
    /\ \A i \in DOMAIN runs : /\ runs[i].steps \subseteq AllSteps
                              /\ runs[i].status \in {"completed", "budget_exhausted"}
                              /\ \A j \in DOMAIN runs[i].evidence : runs[i].evidence[j].version \in Docs
    /\ turns \in [Conversations -> Nat] /\ answered \in [Conversations -> Nat]
    /\ ask.at \in {"closed", "seeds", "text", "vector", "rows", "graph", "rank", "assemble", "answer", "respond"}
    /\ asks \in 0..MaxAsks /\ edits \in 0..MaxEdits

-----------------------------------------------------------------------------
(* Properties                                                              *)

Before(s, v, w) == \E i, j \in DOMAIN s : i < j /\ s[i].version = v /\ s[j].version = w

\* Reciprocal rank fusion respects what its two rankings agree on, whatever was
\* published between them: a version that precedes another in both precedes it in
\* the fused hits, and no version is there twice.
FusionAgreement ==
    ask.at = "graph" =>
    /\ \A i, j \in DOMAIN ask.hits : i # j => ask.hits[i].version # ask.hits[j].version
    /\ \A v, w \in VersionsIn(ask.hits) :
         Before(ask.text, v, w) /\ Before(ask.vector, v, w) => ~Before(ask.hits, w, v)

\* A version is in the evidence of a run once, however it was found: by text, by
\* vector, along several edges, or as a hit and along an edge.
EvidenceOnce ==
    \A i \in DOMAIN runs : LET E == runs[i].evidence IN
        \A j, k \in DOMAIN E : j # k => E[j].version # E[k].version

\* What the threshold is for: no run counts as completed unless three eighths of
\* the items it judged are reviewed.  It judges as many as the request wants
\* reviewed, and the evidence shows the PackSize best: the reviewed ones are in it,
\* but for those past its end.  Weights, caps and rounding never make relevance and
\* citations alone reach the threshold.
CompletedIsReviewed ==
    \A i \in DOMAIN runs : runs[i].status = "completed" =>
        LET shown == {j \in DOMAIN runs[i].evidence : runs[i].evidence[j].version \in reviewed}
            judged == AtLeastOne(runs[i].wanted)
            unseen == IF judged > PackSize THEN judged - PackSize ELSE 0
        IN  8 * (Cardinality(shown) + unseen) >= 3 * judged

\* A committed run has all its steps, and no more answers were given than runs
\* committed: a request that fails on the way leaves no half of a run.
RunsAreWhole ==
    /\ \A i \in DOMAIN runs : runs[i].steps = AllSteps
    /\ \A c \in Conversations : answered[c] <= Len(runs)

\* An answer that tells people what to do now comes with the cautions that the guide
\* it quotes gives; for how-to and failure questions it never comes without any.
ActionIsCautioned ==
    ask.at = "respond" /\ ask.answer.action # None =>
    LET answer == ask.answer
        from == answer.action[2]
    IN  /\ answer.intent \in {"how_to", "debug_failure"} => answer.warnings \cup answer.help # {}
        /\ Catalog[from].type \in GuideTypes /\ Envelope(from) # None =>
             /\ Envelope(from).mistakes => <<"mistakes", from>> \in answer.warnings
             /\ Envelope(from).stops => <<"stops", from>> \in answer.stops
             /\ Envelope(from).escalate => <<"escalate", from>> \in answer.help

\* Every turn that was answered is remembered for the turns after it, as
\* retrieval/conversation_memory.py:3 says.  It is not.
TurnRemembered == \A c \in Conversations : turns[c] >= answered[c]
=============================================================================
