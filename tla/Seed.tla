-------------------------------- MODULE Seed --------------------------------
(***************************************************************************)
(* Loading a pack of YAML nodes and a CSV of edges into the database       *)
(* (cli/seed.py).  seed_graph is one transaction with one commit, and      *)
(* operators run one at a time: a seed that fails leaves nothing.  A node  *)
(* whose slug exists is skipped, yet its edges and citations are loaded.   *)
(***************************************************************************)
EXTENDS Vocabulary, Sequences, FiniteSets, Bags, TLC

CONSTANTS
    Slugs,      \* slugs of objects
    Packs,      \* packs of an operator: nodes by slug, and the rows of edges.csv
    Databases,  \* what the API may have written before the first seed
    MaxSeeds    \* bound: seeds in a behaviour

\* A node whose state is not one of the enumeration fails the seed.
NodeOK(n) ==
    /\ {"life", "cites"} \subseteq DOMAIN n
    /\ n.life \in LifecycleState /\ IsFiniteSet(n.cites)

ASSUME SeedAssumption ==
    /\ MaxSeeds \in Nat
    /\ \A p \in Packs : DOMAIN p.nodes \subseteq Slugs /\ \A s \in DOMAIN p.nodes : NodeOK(p.nodes[s])
    /\ \A d \in Databases :
         /\ {"objects", "announced", "edges", "spans"} = DOMAIN d
         /\ DOMAIN d.objects \subseteq Slugs /\ d.announced \subseteq DOMAIN d.objects
         /\ \A s \in DOMAIN d.objects : /\ {"life", "versioned", "made", "node"} = DOMAIN d.objects[s]
                                        /\ d.objects[s].made = "api" /\ d.objects[s].life \in LifecycleState
         /\ IsABag(d.edges) /\ IsABag(d.spans)

VARIABLES
    db,         \* objects by slug; bags of edges and evidence spans; announced objects
    approved,   \* history: objects the API published after an approved review
    seeded,     \* history: the last pack committed
    seeds       \* seeds so far

seedVars == <<db, approved, seeded, seeds>>

NoPack == [nodes |-> [s \in {} |-> 0], csv |-> {}]

-----------------------------------------------------------------------------
(* Nodes                                                                   *)

\* Mutant: only what no layman may do waits.
HeldExpertOnly(n) == n.life = "published" /\ n.risk = "expert_only"

\* The rule of the publish gate: high-risk content waits for a review.
Held(n) == n.life = "published" /\ n.risk \in HighRisk

\* An object of the API has no current version until it is published.
ObjectOfNode(n) ==
    [life |-> IF Held(n) THEN "in_review" ELSE n.life, versioned |-> TRUE, made |-> "seed", node |-> n]

\* Rows that are there are skipped and stay as they are.
Adding(old, new) == [x \in DOMAIN old \cup DOMAIN new |-> IF x \in DOMAIN old THEN old[x] ELSE new[x]]

Created(d, pack) == DOMAIN pack.nodes \ DOMAIN d.objects

ObjectsAfter(d, pack) == Adding(d.objects, [s \in Created(d, pack) |-> ObjectOfNode(pack.nodes[s])])

\* Anything not held is announced for indexing, also what is seeded as a draft.
AnnouncedAfter(d, pack) ==
    d.announced \cup {s \in Created(d, pack) : ~Held(pack.nodes[s])}

-----------------------------------------------------------------------------
(* Edges and citations                                                     *)

LegacyType == [REQUIRES |-> "prerequisite_for", NEXT |-> "next_step_for", COVERS |-> "contains",
               ASSESSED_BY |-> "assessed_by", EVALUATES |-> "validated_by", PRECEDES |-> "next_step_for"]

NormalizeEdgeType(raw) == IF raw \in DOMAIN LegacyType THEN LegacyType[raw] ELSE raw

Triple(src, raw, dst) == [src |-> src, type |-> NormalizeEdgeType(raw), dst |-> dst]

\* Mutant: a skipped node is forgotten.
RegisteredNew(d, pack) == Created(d, pack)

\* Nodes of the pack whose version is known, the skipped ones included.
Registered(d, pack) == {s \in DOMAIN pack.nodes : ObjectsAfter(d, pack)[s].versioned}

\* Only the rows of edges.csv may name objects of other packs.
Resolved(d, pack) ==
    Registered(d, pack) \cup {s \in DOMAIN d.objects \ DOMAIN pack.nodes : d.objects[s].versioned}

\* What the three lists ask for, each time it is asked for: "A requires B" is an
\* edge from B.  An unknown type or end is warned about and left out.
AskedEdges(d, pack) ==
    LET here == Registered(d, pack)
        known == Resolved(d, pack)
        Asks(list, tag, src, raw, dst) == [list |-> list, tag |-> tag, edge |-> Triple(src, raw, dst)]
        required == UNION {{Asks("requires", "", r, "prerequisite_for", s) :
                              r \in pack.nodes[s].requires \cap here} : s \in here}
        suggested == UNION {{Asks("suggested", g.type, s, g.type, g.to) :
                               g \in {x \in pack.nodes[s].suggests : x.to \in here}} : s \in here}
        listed == {Asks("csv", r, r.src, r.type, r.dst) : r \in {x \in pack.csv : {x.src, x.dst} \subseteq known}}
    IN  required \cup {a \in suggested \cup listed : a.edge.type \in EdgeTypes}

\* Mutant: nobody looks whether the edge exists.
InsertAll(edges, asked) == edges (+) [e \in {a.edge : a \in asked} |-> Cardinality({a \in asked : a.edge = e})]

\* An edge is looked up before it is inserted, and the lookup sees the inserts of
\* the transaction.
InsertMissing(edges, asked) == Adding(edges, [e \in {a.edge : a \in asked} |-> 1])

\* Citations are numbered; this one stands for a claim marked NO_SUPPORT.
NoSupport == <<"", 0>>

\* A claim without support is loaded as nothing; the others are inserted again by
\* every seed.
SpansAfter(d, pack) ==
    LET cited == {s \in Registered(d, pack) : pack.nodes[s].cites \ {NoSupport} # {}}
    IN  d.spans (+) [s \in cited |-> Cardinality(pack.nodes[s].cites \ {NoSupport})]

\* An edge that requests made twice is found twice, which ends the seed.
SeedFails(d, pack) == \E a \in AskedEdges(d, pack) : a.edge \in DOMAIN d.edges /\ d.edges[a.edge] > 1

Loaded(d, pack) ==
    [objects |-> ObjectsAfter(d, pack),
     announced |-> AnnouncedAfter(d, pack),
     edges |-> InsertMissing(d.edges, AskedEdges(d, pack)),
     spans |-> SpansAfter(d, pack)]

\* Mutant: the events are committed before the edges are loaded.
SeedKeepsEvents(d, pack) ==
    IF SeedFails(d, pack) THEN [d EXCEPT !.announced = AnnouncedAfter(d, pack)] ELSE Loaded(d, pack)

SeedGraph(d, pack) == IF SeedFails(d, pack) THEN d ELSE Loaded(d, pack)

-----------------------------------------------------------------------------
RunSeed(pack) ==
    /\ seeds < MaxSeeds
    /\ db' = SeedGraph(db, pack)
    /\ seeded' = IF SeedFails(db, pack) THEN seeded ELSE pack
    /\ seeds' = seeds + 1
    /\ UNCHANGED approved

\* What a reviewer does with the object afterwards (module Registry).
ApproveAndPublish(s) ==
    /\ s \in DOMAIN db.objects
    /\ db.objects[s].life \in {"draft", "in_review"}
    /\ db' = [db EXCEPT !.objects[s].life = "published", !.objects[s].versioned = TRUE,
                        !.announced = @ \cup {s}]
    /\ approved' = approved \cup {s}
    /\ UNCHANGED <<seeded, seeds>>

SeedInit == db \in Databases /\ approved = {} /\ seeded = NoPack /\ seeds = 0

SeedNext ==
    \/ \E pack \in Packs : RunSeed(pack)
    \/ \E s \in Slugs : ApproveAndPublish(s)

SeedSpec == SeedInit /\ [][SeedNext]_seedVars

\* Every event refers to an object that exists.
SeedTypeOK ==
    /\ DOMAIN db.objects \subseteq Slugs
    /\ \A s \in DOMAIN db.objects : db.objects[s].life \in LifecycleState
    /\ db.announced \subseteq DOMAIN db.objects
    /\ IsABag(db.edges) /\ IsABag(db.spans)
    /\ approved \subseteq Slugs /\ seeds \in 0..MaxSeeds

-----------------------------------------------------------------------------
(* Properties                                                              *)

\* After a seed the graph has every prerequisite between nodes of its pack, and
\* every row of its CSV that names known objects and a known type, also when it
\* was the second seed of the pack or another pack brought some of the objects.
SeedCompletesGraph ==
    LET Versioned(s) == /\ s \in DOMAIN db.objects /\ db.objects[s].versioned
                        /\ db.objects[s].made = "api" => s \notin approved
    IN  /\ \A s \in DOMAIN seeded.nodes : \A r \in seeded.nodes[s].requires \cap DOMAIN seeded.nodes :
             Versioned(s) /\ Versioned(r) => Triple(r, "REQUIRES", s) \in DOMAIN db.edges
        /\ \A r \in seeded.csv : LET e == Triple(r.src, r.type, r.dst) IN
             Versioned(r.src) /\ Versioned(r.dst) /\ e.type \in EdgeTypes => e \in DOMAIN db.edges

\* However often packs are seeded, and though requires, suggested edges and CSV
\* rows repeat each other, no edge is there twice, but for those the API made twice.
SeedEdgesOnce ==
    \A e \in DOMAIN db.edges : db.edges[e] = 1 \/ \E d \in Databases : e \in DOMAIN d.edges /\ db.edges[e] = d.edges[e]

\* Seeding never publishes high-risk content: only a review does, whatever was seeded
\* before or again, and no later seed takes a review back.  What a pack brings as
\* published and the seed holds back is not announced either; what it brings as a
\* draft is announced, high-risk or not.
HeldUntilReviewed ==
    \A s \in DOMAIN db.objects : LET o == db.objects[s] IN
        /\ o.made = "seed" /\ o.node.risk \in HighRisk /\ s \notin approved =>
             o.life # "published" /\ (s \in db.announced => o.node.life # "published")
        /\ s \in approved => o.life = "published"
=============================================================================
