------------------------------ MODULE Pipeline ------------------------------
(***************************************************************************)
(* The ingest commands on one project directory (cli/ingest/).  A command  *)
(* is a process that works alone on local files, so nothing meets it       *)
(* halfway but its own death: it is a list of file operations, of which a  *)
(* run carries out all or the first few, and a file being written when the *)
(* process dies is left torn (truncated, nothing flushed yet).  What the   *)
(* model answers is chosen per request; a request that fails, or is still  *)
(* invalid after its retries, drops its item and not the pass.             *)
(***************************************************************************)
EXTENDS Seed, IngestJobs, Integers

CONSTANTS
    Order,          \* the slugs in the order of their file names
    Source,         \* the segments of the sources: of each a prefix of its numbers
    Projects,       \* project directories a behaviour may start from
    Matrices,       \* lists of rows the model extracts
    Shapes,         \* drafts the model writes
    Answers,        \* ids of segments the model cites in a draft
    Decisions,      \* what the model decides on similar drafts
    FoundEdges,     \* sets of edges the model finds
    Filters,        \* sets of slugs operators restrict a pass to
    MaxCommands,    \* bound: commands in a behaviour
    MaxCrashes      \* bound: commands that die

\* The id of a segment is its source with its number in it, or, as the model also
\* writes it, the bare number.
SegmentId == STRING \X (Nat \ {0})
Bare(n) == <<"", n>>
MatrixRows == Seq([slug : Slugs, source : STRING, segs : SUBSET SegmentId])

\* A slug has one file.  The model answers within the schemas: it names slugs, or
\* none, and states of the enumeration.
ASSUME PipelineAssumption ==
    /\ Order \in Seq(Slugs) /\ Slugs = {Order[i] : i \in DOMAIN Order}
    /\ \A i, j \in DOMAIN Order : Order[i] = Order[j] => i = j
    /\ Source \subseteq SegmentId
    /\ \A s \in Source : s[1] # "" /\ \A n \in 1..s[2] : <<s[1], n>> \in Source
    /\ \A s \in Shapes : /\ "life" \in DOMAIN s /\ s.life \in LifecycleState
                         /\ "cites" \in DOMAIN s /\ IsFiniteSet(s.cites)
    /\ Matrices \subseteq MatrixRows
    /\ \A a \in Answers : IsFiniteSet(a.segs)
    /\ \A d \in Decisions : /\ d.canonical \in Slugs
                            /\ d.objects \in Seq([slug : Slugs \cup {""}, shape : Shapes,
                                                  lineage : SUBSET SUBSET SegmentId])
    /\ MaxCommands \in Nat /\ MaxCrashes \in Nat

VARIABLES
    project,            \* the directory
    last,               \* history: the last command, what it wrote and what it found
    commands, crashes   \* how many there were

pipelineVars == <<project, last, commands, crashes, seedVars, jobVars>>

Torn == [torn |-> TRUE]
Missing == [missing |-> TRUE]
Failed == [failed |-> TRUE]

NoFiles == [s \in {} |-> 0]

\* A directory before init.
NoProject ==
    [home |-> FALSE, manifest |-> "missing", bound |-> FALSE, done |-> {}, source |-> FALSE,
     segments |-> Missing, matrix |-> Missing, drafts |-> NoFiles, archived |-> {}, edges |-> Missing,
     nodes |-> NoFiles, csv |-> {}]

\* A file of a draft or a node.
FileOK(d) == d = Torn \/ NodeOK(d)

\* The file of the matrix.
MatrixOK(m) == m \in {Missing, Torn} \/ (DOMAIN m = {"rows"} /\ m.rows \in MatrixRows)

\* A behaviour starts before anything was archived.
ASSUME ProjectAssumption ==
    \A p \in Projects :
        /\ DOMAIN p = DOMAIN NoProject /\ p.archived = {}
        /\ p.manifest \in {"missing", "torn", "whole"} /\ p.done \subseteq Passes
        /\ DOMAIN p.drafts \subseteq Slugs /\ DOMAIN p.nodes \subseteq Slugs
        /\ MatrixOK(p.matrix)
        /\ p.nodes = [s \in DOMAIN p.nodes |-> p.nodes[s]]
        /\ \A s \in DOMAIN p.drafts : FileOK(p.drafts[s])
        /\ \A s \in DOMAIN p.nodes : FileOK(p.nodes[s])

With(files, s, content) == [x \in DOMAIN files \cup {s} |-> IF x = s THEN content ELSE files[x]]
WithoutFile(files, s) == [x \in DOMAIN files \ {s} |-> files[x]]

\* The members of s in S, in the order of s.
Only(s, S) ==
    LET Kept[i \in 0..Len(s)] ==
            IF i = 0 THEN <<>> ELSE IF s[i] \in S THEN Append(Kept[i - 1], s[i]) ELSE Kept[i - 1]
    IN  Kept[Len(s)]

InOrder(S) == Only(Order, S)

\* The files of S up to the first torn one, on which the reader dies.
Readable(files, S) ==
    LET all == InOrder(S)
        torn == {i \in DOMAIN all : files[all[i]] = Torn}
    IN  IF torn = {} THEN all ELSE SubSeq(all, 1, (CHOOSE i \in torn : \A j \in torn : i <= j) - 1)

\* segments_by_id
SegmentIds == project.segments.rows

AllWhole(files) == \A s \in DOMAIN files : files[s] # Torn

-----------------------------------------------------------------------------
(* File operations                                                         *)

Write(field, content) == [op |-> "write", field |-> field, content |-> content]
Put(s, draft) == [op |-> "put", slug |-> s, draft |-> draft]
Retire(s, heirs) == [op |-> "retire", slug |-> s, heirs |-> heirs]
Copy(s) == [op |-> "copy", slug |-> s]
Step(name) == [op |-> name]

World == [project |-> project, db |-> db, seeded |-> seeded, job |-> job]

\* A move is made only if the file is still there.
Apply(w, o) ==
    LET p == w.project IN
    CASE o.op = "home" -> [w EXCEPT !.project.home = TRUE]
      [] o.op = "manifest" -> [w EXCEPT !.project.manifest = "whole"]
      [] o.op = "source" -> [w EXCEPT !.project.source = TRUE]
      [] o.op = "bind" -> [w EXCEPT !.project.bound = TRUE]
      [] o.op = "write" -> [w EXCEPT !.project[o.field] = o.content]
      [] o.op = "put" -> [w EXCEPT !.project.drafts = With(p.drafts, o.slug, o.draft)]
      [] o.op = "retire" ->
           IF o.slug \in DOMAIN p.drafts
           THEN [w EXCEPT !.project.drafts = WithoutFile(p.drafts, o.slug),
                          !.project.archived = {a \in @ : a.slug # o.slug} \cup {[slug |-> o.slug, heirs |-> o.heirs]}]
           ELSE w
      [] o.op = "copy" -> [w EXCEPT !.project.nodes = With(p.nodes, o.slug, p.drafts[o.slug])]
      [] o.op = "seed" ->
           LET pack == [nodes |-> p.nodes, csv |-> p.csv]
           IN  [w EXCEPT !.db = SeedGraph(w.db, pack), !.seeded = pack]
      [] o.op = "mark" -> [w EXCEPT !.project.done = @ \cup {o.pass}]
      [] o.op = "mirror" -> [w EXCEPT !.job = CompletePass(w.job, o.pass)]

\* What an operation leaves when the process dies in it: an empty segments file
\* and an empty CSV can be read, other torn files cannot.
Tear(w, o) ==
    CASE o.op \in {"manifest", "bind", "mark"} -> [w EXCEPT !.project.manifest = "torn"]
      [] o.op = "write" /\ o.field = "segments" -> [w EXCEPT !.project.segments = [rows |-> {}]]
      [] o.op = "write" /\ o.field = "csv" -> [w EXCEPT !.project.csv = {}]
      [] o.op = "write" /\ o.field \in {"matrix", "edges"} -> [w EXCEPT !.project[o.field] = Torn]
      [] o.op = "put" -> [w EXCEPT !.project.drafts = With(@, o.slug, Torn)]
      [] o.op = "copy" -> [w EXCEPT !.project.nodes = With(@, o.slug, Torn)]
      [] OTHER -> w

\* Mutant: the database is told before the manifest is written.
MirrorFirst(pass) == <<[op |-> "mirror", pass |-> pass], [op |-> "mark", pass |-> pass]>>

\* mark_pass_complete.  Of the passes only parse is not a coroutine: the others hand
\* the mirror to a task of a loop that ends before the task has begun.
MarkSteps(pass) ==
    <<[op |-> "mark", pass |-> pass]>>
    \o (IF project.bound /\ pass = "parse" THEN <<[op |-> "mirror", pass |-> pass]>> ELSE <<>>)

PutSlugs(ops) == {ops[i].slug : i \in {j \in DOMAIN ops : ops[j].op = "put"}}
Risks(files) == [s \in {x \in DOMAIN files : files[x] # Torn} |-> files[s].risk]

\* The manifest is read before anything is done.  A tracker that cannot reach the
\* database warns, and nothing else is different.
Execute(pass, ops) ==
    /\ commands < MaxCommands
    /\ \E k \in 0..Len(ops), torn \in BOOLEAN :
         LET After[i \in 0..k] == IF i = 0 THEN World ELSE Apply(After[i - 1], ops[i])
             world == IF torn THEN Tear(After[k], ops[k + 1]) ELSE After[k]
         IN  /\ k < Len(ops) => crashes < MaxCrashes
             /\ torn => k < Len(ops)
             /\ crashes' = IF k < Len(ops) THEN crashes + 1 ELSE crashes
             /\ project' = world.project /\ db' = world.db /\ seeded' = world.seeded
             /\ job' \in {job, world.job}
             /\ last' = [pass |-> pass, wrote |-> PutSlugs(SubSeq(ops, 1, k)), risks |-> Risks(project.drafts)]
    /\ commands' = commands + 1
    /\ UNCHANGED <<report, byHand, approved, seeds>>

Command(pass, ops) == project.manifest = "whole" /\ Execute(pass, ops)

-----------------------------------------------------------------------------
(* Project, passes 0 and 1                                                 *)

\* A directory that exists is refused, even when init died in it.
CmdInit ==
    /\ ~project.home
    /\ Execute("init", <<Step("home"), Step("manifest"), Step("source")>>)

BindJob ==
    /\ ~project.bound
    /\ Command("bind", <<Step("bind")>>)

CmdParse ==
    /\ project.source
    /\ Command("parse", <<Write("segments", [rows |-> Source])>> \o MarkSteps("parse"))

\* Sections that fail or are filtered out leave fewer rows; without a row the old
\* matrix stays.
CmdExtract ==
    /\ project.segments # Missing
    /\ \E rows \in Matrices \cup {<<>>} :
         Command("extract",
                 (IF rows = <<>> \/ SegmentIds = {} THEN <<>> ELSE <<Write("matrix", [rows |-> rows])>>)
                 \o MarkSteps("extract"))

-----------------------------------------------------------------------------
(* Pass 2: drafts                                                          *)

\* DraftObject: guides come with an implementation envelope.
ValidDraft(d) == d.guide => d.envelope

\* generate: an answer that fits the schema, within four attempts, or an error.
Generated == {d \in Shapes : ValidDraft(d)} \cup {Failed}

\* Mutant: each row writes its own draft over the one before.
LastRow(rows) ==
    [s \in {rows[i].slug : i \in DOMAIN rows} |->
       LET named == {i \in DOMAIN rows : rows[i].slug = s}
           i == CHOOSE j \in named : \A k \in named : k <= j
       IN  [source |-> rows[i].source, segs |-> rows[i].segs]]

\* Rows that share a slug become one, with the ids of all and the source of the first.
MergeRows(rows) ==
    [s \in {rows[i].slug : i \in DOMAIN rows} |->
       LET named == {i \in DOMAIN rows : rows[i].slug = s}
           i == CHOOSE j \in named : \A k \in named : j <= k
       IN  [source |-> rows[i].source, segs |-> UNION {rows[j].segs : j \in named}]]

\* A bare number is taken for the row's source; what names no segment is left out.
SegmentsOf(row) ==
    {s \in SegmentIds : s \in row.segs \/ (s[1] = row.source /\ Bare(s[2]) \in row.segs)}

\* What the model wrote, with the fields the passes fill in.
Filled(shape, segs, cites) ==
    [f \in DOMAIN shape \cup {"segs", "cites", "bundle"} |->
       CASE f = "segs" -> segs [] f = "cites" -> cites [] f = "bundle" -> FALSE [] OTHER -> shape[f]]

NewDraft(shape, row) == Filled(shape, SegmentsOf(row), shape.cites)

\* Nothing to draft ends the command before its mark, which changes nothing.
\* --skip-existing takes a torn draft for a draft.
CmdDraft ==
    /\ project.matrix \notin {Missing, Torn} /\ project.segments # Missing
    /\ \E skip \in BOOLEAN, chosen \in Filters :
         LET rows == MergeRows(project.matrix.rows)
             todo == {s \in DOMAIN rows \cap chosen : ~(skip /\ s \in DOMAIN project.drafts)}
         IN  /\ todo # {}
             /\ \E shapes \in [todo -> Generated] :
                  LET made == InOrder({s \in todo : shapes[s] # Failed})
                  IN  Command("draft",
                        [n \in DOMAIN made |-> Put(made[n], NewDraft(shapes[made[n]], rows[made[n]]))]
                        \o MarkSteps("draft"))

-----------------------------------------------------------------------------
(* Pass 3: citations                                                       *)

\* The draft's own segments and three to each side, in their sources.
Window(own) == {n \in SegmentIds : \E s \in own : n[1] = s[1] /\ n[2] \in s[2] - 3..s[2] + 3}

\* What ids in an answer can be taken for: a bare number for any segment that was
\* shown under it.  Citations of what the model was not shown are dropped.
Readings(ids, shown) ==
    LET fits(id, s) == id = s \/ id = Bare(s[2])
        known == {id \in ids : \E s \in shown : fits(id, s)}
    IN  {{read[id] : id \in known} : read \in {f \in [known -> shown] : \A id \in known : fits(id, f[id])}}

\* A draft without segments of its own is skipped.
CmdCite ==
    /\ project.segments # Missing
    /\ \E chosen \in Filters :
         LET files == InOrder(DOMAIN project.drafts \cap chosen)
             read == Readable(project.drafts, DOMAIN project.drafts \cap chosen)
             Own(s) == project.drafts[s].segs \cap SegmentIds
             todo == {s \in {read[i] : i \in DOMAIN read} : Own(s) # {}}
             kept == [s \in todo |-> UNION {Readings(a.segs, Window(Own(s))) : a \in Answers}]
         IN  /\ files # <<>>
             /\ \E answered \in SUBSET todo :
                \E cites \in [answered -> UNION {kept[s] : s \in answered}] :
                  /\ \A s \in answered : cites[s] \in kept[s]
                  /\ LET cited == InOrder(answered)
                     IN  Command("cite",
                           [n \in DOMAIN cited |-> Put(cited[n], [project.drafts[cited[n]] EXCEPT !.cites = cites[cited[n]]])]
                           \o (IF Len(read) = Len(files) THEN MarkSteps("cite") ELSE <<>>))

-----------------------------------------------------------------------------
(* Pass 4: merges and splits                                               *)

\* The safety fields of the originals are kept: the highest risk, a safety text.
\* Their segments and citations are, where the model named none itself.
Carry(object, originals) ==
    LET shape == object.shape
        risks == {shape.risk} \cup {o.risk : o \in originals}
    IN  Filled([shape EXCEPT !.risk = CHOOSE r \in risks : \A q \in risks : RiskRank[q] <= RiskRank[r],
                             !.safety = @ \/ \E o \in originals : o.safety],
               IF object.lineage = {} THEN UNION {o.segs : o \in originals} ELSE UNION object.lineage,
               IF shape.cites = {} THEN UNION {o.cites : o \in originals} ELSE shape.cites)

Originals(d, snapshot) == {snapshot[s] : s \in d.deprecated \cap DOMAIN snapshot}

\* Mutant: the canonical draft is moved away with the ones it replaces.
RetiredAll(d, written) == InOrder(d.deprecated)

Retired(d, written) == InOrder(d.deprecated \ written)

\* A new object is written before an old one is moved; an object that does not fit
\* the schema leaves everything as it was.  A child without a slug is left out.
DecisionSteps(d, snapshot) ==
    LET named == Only(d.objects, {o \in {d.objects[i] : i \in DOMAIN d.objects} : o.slug # ""})
        objects == IF d.action = "merge" THEN [i \in 1..1 |-> [d.objects[1] EXCEPT !.slug = d.canonical]] ELSE named
        drafts == [i \in DOMAIN objects |-> Carry(objects[i], Originals(d, snapshot))]
        written == {objects[i].slug : i \in DOMAIN objects}
        retired == Retired(d, written)
    IN  IF d.action = "keep" \/ d.objects = <<>> \/ d.deprecated = {} THEN <<>>
        ELSE IF \E i \in DOMAIN drafts : ~ValidDraft(drafts[i]) THEN <<>>
        ELSE [i \in DOMAIN drafts |-> Put(objects[i].slug, drafts[i])]
             \o [i \in DOMAIN retired |-> Retire(retired[i], written)]

NoDecision == [action |-> "keep"]

\* The drafts are read once: a second decision sees them as they were before the
\* first.  Groups without a decision failed; without a group there is none to make.
CmdCanonicalize ==
    /\ AllWhole(project.drafts)
    /\ \E first, second \in IF Cardinality(DOMAIN project.drafts) > 1 THEN Decisions \cup {NoDecision} ELSE {NoDecision} :
         Command("canonicalize", DecisionSteps(first, project.drafts) \o DecisionSteps(second, project.drafts)
                                 \o MarkSteps("canonicalize"))

-----------------------------------------------------------------------------
(* Passes 5 and 6: edges and bundles                                       *)

\* Suggested edges and the model's, each once; without any the old file stays.
CmdEdges ==
    /\ AllWhole(project.drafts)
    /\ \E found \in FoundEdges \cup {{}} :
         LET suggested == UNION {{[src |-> s, type |-> g.type, dst |-> g.to, sequence |-> 0] :
                                    g \in project.drafts[s].suggests} : s \in DOMAIN project.drafts}
             all == suggested \cup found
         IN  Command("edges", (IF all = {} THEN <<>> ELSE <<Write("edges", [rows |-> all])>>) \o MarkSteps("edges"))

CmdBundles ==
    /\ AllWhole(project.drafts)
    /\ \E skip \in BOOLEAN, chosen \in Filters :
         LET todo == {s \in DOMAIN project.drafts \cap chosen :
                        project.drafts[s].guide /\ ~(skip /\ project.drafts[s].bundle)}
         IN  /\ todo # {}
             /\ \E made \in SUBSET todo :
                  LET files == InOrder(made)
                  IN  Command("bundles",
                        [i \in DOMAIN files |-> Put(files[i], [project.drafts[files[i]] EXCEPT !.bundle = TRUE])]
                        \o MarkSteps("bundles"))

-----------------------------------------------------------------------------
(* Pass 7: validation, output and database                                 *)

\* The publish gate of a strict validation.
Blocked(d) ==
    /\ d.life = "published"
    /\ \/ Cardinality(d.cites) < 2
       \/ d.guide /\ ~d.envelope
       \/ d.risk \in HighRisk /\ ~d.safety

HasErrors(drafts, edges, strict) ==
    \/ \E s \in DOMAIN drafts : \/ drafts[s].risk \in HighRisk /\ ~drafts[s].safety
                                \/ strict /\ Blocked(drafts[s])
    \/ \E r \in edges : ~({r.src, r.dst} \subseteq DOMAIN drafts) \/ r.type \notin EdgeTypes

\* --publish marks the drafts before they are validated.  Errors end the command,
\* with the drafts as they were marked; nodes of an earlier load are not removed.
CmdLoad ==
    \E publish, dry \in BOOLEAN :
      LET files == DOMAIN project.drafts
          read == Readable(project.drafts, files)
          marked == [s \in {read[i] : i \in DOMAIN read} |->
                       IF publish THEN [project.drafts[s] EXCEPT !.life = "published"] ELSE project.drafts[s]]
          patch == IF publish THEN [i \in DOMAIN read |-> Put(read[i], marked[read[i]])] ELSE <<>>
          rows == IF project.edges \in {Missing, Torn} THEN {} ELSE project.edges.rows
          refused == DOMAIN marked # files \/ project.edges = Torn \/ HasErrors(marked, rows, publish)
          output == [i \in DOMAIN read |-> Copy(read[i])]
                    \o (IF project.edges = Missing THEN <<>> ELSE <<Write("csv", rows)>>)
          pack == [nodes |-> Adding(marked, project.nodes), csv |-> IF project.edges = Missing THEN project.csv ELSE rows]
          fails == (\E s \in DOMAIN pack.nodes : pack.nodes[s] = Torn) \/ SeedFails(db, pack)
      IN  Command("load",
            IF refused THEN patch
            ELSE patch \o output \o (IF dry \/ fails THEN <<>> ELSE <<Step("seed")>> \o MarkSteps("load")))

-----------------------------------------------------------------------------
PipelineAtRest ==
    /\ project \in Projects
    /\ last = [pass |-> "none", wrote |-> {}, risks |-> NoFiles]
    /\ commands = 0 /\ crashes = 0

PipelineInit ==
    /\ PipelineAtRest
    /\ job = [status |-> "running",
              passes |-> [p \in Passes |-> IF p = "parse" /\ p \in project.done THEN "completed" ELSE "pending"]]
    /\ report = [r \in Reporters |-> Idle] /\ byHand = FALSE

PipelineNext ==
    \/ CmdInit \/ BindJob
    \/ CmdParse \/ CmdExtract \/ CmdDraft \/ CmdCite
    \/ CmdCanonicalize \/ CmdEdges \/ CmdBundles \/ CmdLoad

PipelineSpec == SeedInit /\ PipelineInit /\ [][PipelineNext]_pipelineVars

PipelineTypeOK ==
    /\ project.manifest \in {"missing", "torn", "whole"}
    /\ project.done \subseteq Passes
    /\ DOMAIN project.drafts \subseteq Slugs /\ DOMAIN project.nodes \subseteq Slugs
    /\ \A a \in project.archived : a.slug \in Slugs /\ a.heirs \subseteq Slugs
    /\ commands \in 0..MaxCommands /\ crashes \in 0..MaxCrashes

-----------------------------------------------------------------------------
(* Properties                                                              *)

\* A draft the draft pass wrote covers every row of the matrix with its slug, and
\* so every segment a row names: of a topic within one source no segment is silently
\* dropped, however many rows and passes it took.
DraftCoversMatrix ==
    last.pass = "draft" =>
        \A s \in last.wrote \cap DOMAIN project.drafts :
            LET topic == {i \in DOMAIN project.matrix.rows : project.matrix.rows[i].slug = s}
                OneSource == \A i, j \in topic : project.matrix.rows[i].source = project.matrix.rows[j].source
            IN  OneSource => \A i \in topic : SegmentsOf(project.matrix.rows[i]) \subseteq project.drafts[s].segs

\* A draft that was archived was replaced: its heirs, or the heirs of those, are
\* among the drafts, whatever decisions came after and wherever a pass died.
\* Only a split whose children have no name replaces a draft by nothing.
ArchivedReplaced ==
    LET Leads[k \in 0..Cardinality(Slugs)] ==
            IF k = 0 THEN DOMAIN project.drafts \cup {a.slug : a \in {x \in project.archived : x.heirs = {}}}
            ELSE Leads[k - 1] \cup {a.slug : a \in {x \in project.archived : x.heirs \cap Leads[k - 1] # {}}}
    IN  \A a \in project.archived : a.slug \in Leads[Cardinality(Slugs)]

\* A pass the database calls completed is one the manifest records, unless the
\* manifest was torn since: the mirror never runs ahead of the record.
MirrorFollowsManifest ==
    project.manifest = "whole" => \A p \in Passes : job.passes[p] = "completed" => p \in project.done

\* (violated) A merge or split never lowers the risk of a draft.
RiskNeverLowered ==
    last.pass = "canonicalize" =>
        \A s \in DOMAIN last.risks \cap DOMAIN project.drafts :
            project.drafts[s] # Torn => RiskRank[project.drafts[s].risk] >= RiskRank[last.risks[s]]

\* (violated) What a load has published passed the publish gate.
PublishedPassedGate ==
    \A s \in DOMAIN db.objects :
        db.objects[s].made = "seed" /\ db.objects[s].life = "published" => ~Blocked(db.objects[s].node)
=============================================================================
