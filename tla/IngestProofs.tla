---------------------------- MODULE IngestProofs ----------------------------
(***************************************************************************)
(* Proofs about the ingest: IngestJobs, for any set of passes that one     *)
(* process reports on; Seed, for any packs, any number of seeds and any database  *)
(* the API may have written before; Pipeline, for any project, answers of  *)
(* the model, filters and number of commands and crashes; and Segmentation,*)
(* for any document.                                                       *)
(* Of a pack only the types need anything: nodes in a state of the         *)
(* enumeration, with finitely many citations.                              *)
(*                                                                         *)
(* A command of the pipeline is a list of file operations that may be cut  *)
(* short anywhere.  The argument has three parts: what one operation does, *)
(* what holds after the first of them if the list is orderly (a report     *)
(* follows its mark, a move follows what replaces the file), and that the  *)
(* lists of all commands are orderly.                                      *)
(*                                                                         *)
(* A load seeds what the commands before it have left in the files.  That  *)
(* its step is a step of Seed, on a pack that is whole and well formed,    *)
(* carries the properties of Seed over to the pipeline.                    *)
(***************************************************************************)
EXTENDS Pipeline, Segmentation, SequenceTheorems, DataInduction, TLAPS

\* What one report makes of a job is a job.
LEMMA ReportedTyped ==
    ASSUME NEW j \in JobRow, NEW op \in Operations, NEW p \in Passes
    PROVE  Reported(j, op, p) \in JobRow
  <1>1. j.passes \in [Passes -> PassStatuses]
    BY DEF JobRow
  <1>2. \A v \in PassStatuses : [j.passes EXCEPT ![p] = v] \in [Passes -> PassStatuses]
    BY <1>1
  <1>3. StartPass(j, p) \in JobRow /\ CompletePass(j, p) \in JobRow /\ FailPass(j, p) \in JobRow
    <2>1. {"running", "completed", "failed"} \subseteq PassStatuses
      BY DEF PassStatuses
    <2> QED  BY <1>2, <2>1 DEF StartPass, CompletePass, FailPass, JobRow
  <1>4. [j EXCEPT !.status = "failed"] \in JobRow
    BY DEF JobRow
  <1> QED  BY <1>3, <1>4 DEF Reported, Operations

\* What is written is a job, and with no other report in between it is the new one.
LEMMA FlushedTyped ==
    ASSUME NEW seen \in JobRow, NEW new \in JobRow, NEW now \in JobRow
    PROVE  /\ Flushed(seen, new, now) \in JobRow
           /\ now = seen => Flushed(seen, new, now) = new
  <1>1. \A q \in Passes : new.passes[q] \in PassStatuses /\ now.passes[q] \in PassStatuses
    BY DEF JobRow
  <1>2. PICK passes : passes = [q \in Passes |-> IF new.passes[q] = seen.passes[q] THEN now.passes[q] ELSE new.passes[q]]
    OBVIOUS
  <1>3. passes \in [Passes -> PassStatuses]
    BY <1>1, <1>2
  <1>4. /\ Flushed(seen, new, now).passes = passes
        /\ Flushed(seen, new, now) = [status |-> IF new.status = seen.status THEN now.status ELSE new.status, passes |-> passes]
    BY <1>2 DEF Flushed
  <1>5. now = seen => passes = new.passes
    BY <1>2 DEF JobRow
  <1> QED  BY <1>3, <1>4, <1>5 DEF JobRow

\* JobTellsPasses of a job.
Tells(j, hand) ==
    /\ (\E p \in Passes : j.passes[p] = "failed") => j.status = "failed"
    /\ (\A p \in Passes : j.passes[p] \in {"completed", "skipped"}) => j.status = "completed" \/ hand
    /\ (\E p \in Passes : j.passes[p] = "running") => j.status # "pending"

\* Starting a pass leaves a failed job failed and a pending one running; completing a
\* pass completes the job exactly when no other pass is open; failing fails it.
LEMMA ReportTells ==
    ASSUME NEW j \in JobRow, NEW hand \in BOOLEAN, Tells(j, hand), NEW op \in Operations, NEW p \in Passes
    PROVE  Tells(Reported(j, op, p), op = "fail_job")
  <1>1. j.passes \in [Passes -> PassStatuses]
    BY DEF JobRow
  <1>2. CASE op = "start"
    <2>1. PICK n : n = StartPass(j, p)
      OBVIOUS
    <2>2. /\ n.status = IF j.status = "pending" THEN "running" ELSE j.status
          /\ n.passes[p] = "running" /\ \A q \in Passes \ {p} : n.passes[q] = j.passes[q]
      BY <1>1, <2>1 DEF StartPass
    <2>3. Tells(n, FALSE)
      BY <2>2 DEF Tells
    <2> QED  BY <1>2, <2>1, <2>3 DEF Reported
  <1>3. CASE op = "complete"
    <2>1. PICK n : n = CompletePass(j, p)
      OBVIOUS
    <2>2. /\ n.status = IF AllTerminal(j, p) THEN "completed" ELSE j.status
          /\ n.passes[p] = "completed" /\ \A q \in Passes \ {p} : n.passes[q] = j.passes[q]
      BY <1>1, <2>1 DEF CompletePass
    <2>3. AllTerminal(j, p) <=> \A q \in Passes : n.passes[q] \in {"completed", "skipped"}
      BY <2>2 DEF AllTerminal
    <2>4. Tells(n, FALSE)
      BY <2>2, <2>3 DEF Tells
    <2> QED  BY <1>3, <2>1, <2>4 DEF Reported
  <1>4. CASE op = "fail"
    <2>1. PICK n : n = FailPass(j, p)
      OBVIOUS
    <2>2. n.status = "failed" /\ n.passes[p] = "failed"
      BY <1>1, <2>1 DEF FailPass
    <2>3. Tells(n, FALSE)
      BY <2>2 DEF Tells
    <2> QED  BY <1>4, <2>1, <2>3 DEF Reported
  <1>5. CASE op = "fail_job"
    <2>1. PICK n : n = [j EXCEPT !.status = "failed"]
      OBVIOUS
    <2>2. n.status = "failed"
      BY <2>1 DEF JobRow
    <2>3. Tells(n, TRUE)
      BY <2>2 DEF Tells
    <2> QED  BY <1>5, <2>1, <2>3 DEF Reported
  <1> QED  BY <1>2, <1>3, <1>4, <1>5 DEF Operations

\* Nothing has been reported yet.
LEMMA JobsStart == JobsInit => JobsTypeOK /\ JobTellsPasses
  <1> SUFFICES ASSUME JobsInit PROVE JobsTypeOK /\ JobTellsPasses
    OBVIOUS
  <1>1. job \in JobRow
    BY DEF JobsInit, JobRow, PassStatuses
  <1>2. PICK p \in TrackedPasses : p \in Passes /\ job.passes[p] = "pending"
    BY JobsAssumption DEF JobsInit
  <1>3. \A q \in Passes : job.passes[q] \in {"pending", "skipped"}
    BY DEF JobsInit
  <1> QED  BY <1>1, <1>2, <1>3 DEF JobsInit, JobsTypeOK, JobTellsPasses

\* A step of a report, with what it leaves to the next one.
LEMMA JobsTyped == JobsTypeOK /\ [JobsNext]_jobVars => JobsTypeOK'
  <1> SUFFICES ASSUME JobsTypeOK, [JobsNext]_jobVars PROVE JobsTypeOK'
    OBVIOUS
  <1> USE DEF JobsTypeOK
  <1>1. CASE UNCHANGED jobVars
    BY <1>1 DEF jobVars
  <1>2. ASSUME NEW r \in Reporters, NEW op \in Operations, NEW p \in TrackedPasses, LoadJob(r, op, p)
        PROVE  JobsTypeOK'
    <2>1. p \in Passes
      BY JobsAssumption
    <2>2. [op |-> op, pass |-> p, at |-> "passes", seen |-> job] \in Report
      BY <2>1 DEF Report
    <2> QED  BY <1>2, <2>2 DEF LoadJob
  <1>3. ASSUME NEW r \in Reporters, LoadPasses(r) PROVE JobsTypeOK'
    <2>1. report[r] \in Report
      BY <1>3 DEF LoadPasses
    <2>2. PICK rep : rep = [report[r] EXCEPT !.at = "flush", !.seen.passes = job.passes]
      OBVIOUS
    <2>3. rep \in Report
      BY <2>1, <2>2 DEF Report, JobRow
    <2>4. report' = [report EXCEPT ![r] = rep]
      BY <1>3, <2>2 DEF LoadPasses
    <2> QED  BY <1>3, <2>3, <2>4 DEF LoadPasses
  <1>4. ASSUME NEW r \in Reporters, CommitReport(r) PROVE JobsTypeOK'
    <2>1. report[r] \in Report
      BY <1>4 DEF CommitReport
    <2>2. PICK rep \in Report : rep = report[r]
      BY <2>1
    <2>3. rep.seen \in JobRow /\ rep.op \in Operations /\ rep.pass \in Passes
      BY DEF Report
    <2>4. job' = Flushed(rep.seen, Reported(rep.seen, rep.op, rep.pass), job) /\ byHand' = (rep.op = "fail_job")
      BY <1>4, <2>2 DEF CommitReport
    <2>5. job' \in JobRow
      BY <2>3, <2>4, ReportedTyped, FlushedTyped
    <2> QED  BY <1>4, <2>4, <2>5 DEF CommitReport
  <1>5. ASSUME NEW r \in Reporters, LoseReport(r) PROVE JobsTypeOK'
    BY <1>5 DEF LoseReport
  <1>6. CASE CreateJob
    BY <1>6 DEF CreateJob, jobVars
  <1> QED  BY <1>1, <1>2, <1>3, <1>4, <1>5, <1>6 DEF JobsNext

\* A reporter that is alone has read the job as it is.
AloneInv ==
    /\ JobsTypeOK /\ Tells(job, byHand)
    /\ \A r \in Reporters : report[r] # Idle => report[r].seen = job

LEMMA AloneStep ==
    ASSUME NEW one, Reporters = {one}
    PROVE  AloneInv /\ [JobsNext]_jobVars => AloneInv'
  <1> SUFFICES ASSUME AloneInv, [JobsNext]_jobVars PROVE AloneInv'
    OBVIOUS
  <1>1. JobsTypeOK'
    BY JobsTyped DEF AloneInv
  <1>2. report \in [Reporters -> {Idle} \cup Report] /\ report' \in [Reporters -> {Idle} \cup Report]
    BY <1>1 DEF AloneInv, JobsTypeOK
  <1>3. CASE UNCHANGED jobVars \/ CreateJob
    BY <1>1, <1>3 DEF jobVars, CreateJob, AloneInv
  <1>4. ASSUME NEW op \in Operations, NEW p \in TrackedPasses, LoadJob(one, op, p)
        PROVE  AloneInv'
    <2>1. report'[one].seen = job' /\ UNCHANGED <<job, byHand>>
      BY <1>2, <1>4 DEF LoadJob
    <2> QED  BY <1>1, <2>1 DEF AloneInv
  <1>5. CASE LoadPasses(one)
    <2>1. report[one] \in Report /\ report[one].seen = job
      BY <1>2, <1>5 DEF LoadPasses, AloneInv
    <2>2. PICK seen : seen = [job EXCEPT !.passes = job.passes]
      OBVIOUS
    <2>3. report'[one].seen = seen /\ UNCHANGED <<job, byHand>>
      BY <1>2, <1>5, <2>1, <2>2 DEF LoadPasses, Report
    <2>4. seen = job
      BY <2>2 DEF AloneInv, JobsTypeOK, JobRow
    <2> QED  BY <1>1, <2>3, <2>4 DEF AloneInv
  <1>6. CASE CommitReport(one)
    <2>1. report[one] \in Report /\ report[one].seen = job
      BY <1>2, <1>6 DEF CommitReport, AloneInv
    <2>2. PICK op, p : op = report[one].op /\ p = report[one].pass
      OBVIOUS
    <2>3. op \in Operations /\ p \in Passes /\ job \in JobRow /\ byHand \in BOOLEAN
      BY <2>1, <2>2 DEF Report, AloneInv, JobsTypeOK
    <2>4. PICK n : n = Reported(job, op, p)
      OBVIOUS
    <2>5. job' = Flushed(job, n, job) /\ byHand' = (op = "fail_job")
      BY <1>6, <2>1, <2>2, <2>4 DEF CommitReport
    <2>6. job' = n
      BY <2>3, <2>4, <2>5, ReportedTyped, FlushedTyped
    <2>7. Tells(n, op = "fail_job")
      BY <2>3, <2>4, ReportTells DEF AloneInv
    <2>8. Tells(job', byHand')
      BY <2>5, <2>6, <2>7
    <2>9. report'[one] = Idle
      BY <1>2, <1>6 DEF CommitReport
    <2> QED  BY <1>1, <2>8, <2>9 DEF AloneInv, Tells
  <1>7. CASE LoseReport(one)
    <2>1. report'[one] = Idle /\ UNCHANGED <<job, byHand>>
      BY <1>2, <1>7 DEF LoseReport
    <2> QED  BY <1>1, <2>1 DEF AloneInv
  <1> QED  BY <1>3, <1>4, <1>5, <1>6, <1>7 DEF JobsNext

\* Whatever order one process reports, fails and retries the passes in, and
\* whichever reports are lost, the status of the job tells whether a pass failed,
\* all ended or one runs.
THEOREM JobAlwaysTells == ASSUME NEW one, Reporters = {one} PROVE JobsSpec => []JobTellsPasses
  <1>1. JobsInit => AloneInv
    <2> SUFFICES ASSUME JobsInit PROVE AloneInv
      OBVIOUS
    <2>1. \A r \in Reporters : report[r] = Idle
      BY DEF JobsInit
    <2> QED  BY <2>1, JobsStart DEF AloneInv, Tells, JobTellsPasses
  <1>2. AloneInv /\ [JobsNext]_jobVars => AloneInv'
    BY AloneStep
  <1>3. AloneInv => JobTellsPasses
    BY DEF AloneInv, Tells, JobTellsPasses
  <1> QED  BY <1>1, <1>2, <1>3, PTL DEF JobsSpec

-----------------------------------------------------------------------------

Columns == {"life", "versioned", "made", "node"}

\* What every object and every event is like: a seeded object has a version, and
\* an event refers to an object.
Shaped ==
    /\ DOMAIN db = {"objects", "announced", "edges", "spans"}
    /\ db.announced \subseteq DOMAIN db.objects
    /\ \A s \in DOMAIN db.objects :
         /\ DOMAIN db.objects[s] = Columns
         /\ db.objects[s].made \in {"api", "seed"}
         /\ db.objects[s].made = "seed" => db.objects[s].versioned
    /\ approved \subseteq DOMAIN db.objects

SeedInv == Shaped /\ SeedCompletesGraph /\ SeedEdgesOnce /\ HeldUntilReviewed

\* Before the first seed there are objects of the API only.
LEMMA SeedStart == SeedInit => SeedInv
  <1> SUFFICES ASSUME SeedInit PROVE SeedInv
    OBVIOUS
  <1>1. Shaped
    BY SeedAssumption DEF SeedInit, Shaped, Columns
  <1>2. SeedCompletesGraph
    BY DEF SeedInit, SeedCompletesGraph, NoPack
  <1>3. SeedEdgesOnce
    BY DEF SeedInit, SeedEdgesOnce
  <1>4. HeldUntilReviewed
    BY SeedAssumption DEF SeedInit, HeldUntilReviewed
  <1> QED  BY <1>1, <1>2, <1>3, <1>4 DEF SeedInv

-----------------------------------------------------------------------------
\* A type from a suggestion or a row, and one the code writes itself.
LEMMA Required == \A r, s : Triple(r, "REQUIRES", s) = Triple(r, "prerequisite_for", s)
  BY DEF Triple, NormalizeEdgeType, LegacyType

\* What a pack asks for: its prerequisites, and its rows of known type.
LEMMA AsksForPrerequisites ==
    ASSUME NEW d, NEW pack,
           NEW s \in Registered(d, pack), NEW r \in pack.nodes[s].requires \cap Registered(d, pack)
    PROVE  Triple(r, "prerequisite_for", s) \in {a.edge : a \in AskedEdges(d, pack)}
  <1> DEFINE here == Registered(d, pack)
             Ask(x, y) == [list |-> "requires", tag |-> "", edge |-> Triple(x, "prerequisite_for", y)]
             required == UNION {{Ask(x, y) : x \in pack.nodes[y].requires \cap here} : y \in here}
  <1>1. required \subseteq AskedEdges(d, pack)
    BY DEF AskedEdges
  <1>2. Ask(r, s) \in required
    <2>1. Ask(r, s) \in {Ask(x, s) : x \in pack.nodes[s].requires \cap here}
      OBVIOUS
    <2> HIDE DEF Ask
    <2> QED  BY <2>1
  <1>3. Ask(r, s).edge = Triple(r, "prerequisite_for", s)
    OBVIOUS
  <1> HIDE DEF Ask, required
  <1> QED  BY <1>1, <1>2, <1>3

\* Rows between known objects are asked for, unless their type is unknown.
LEMMA AsksForRows ==
    ASSUME NEW d, NEW pack,
           NEW r \in pack.csv, {r.src, r.dst} \subseteq Resolved(d, pack),
           Triple(r.src, r.type, r.dst).type \in EdgeTypes
    PROVE  Triple(r.src, r.type, r.dst) \in {a.edge : a \in AskedEdges(d, pack)}
  <1> DEFINE Ask(x) == [list |-> "csv", tag |-> x, edge |-> Triple(x.src, x.type, x.dst)]
             listed == {Ask(x) : x \in {y \in pack.csv : {y.src, y.dst} \subseteq Resolved(d, pack)}}
  <1>1. \A a \in listed : a.edge.type \in EdgeTypes => a \in AskedEdges(d, pack)
    BY DEF AskedEdges
  <1>2. Ask(r) \in listed
    OBVIOUS
  <1>3. Ask(r).edge = Triple(r.src, r.type, r.dst)
    OBVIOUS
  <1> HIDE DEF Ask, listed
  <1> QED  BY <1>1, <1>2, <1>3

\* A seed that commits.
LEMMA LoadKeeps ==
    ASSUME SeedInv, NEW pack,
           db' = Loaded(db, pack), seeded' = pack, approved' = approved
    PROVE  SeedInv'
  <1>1. /\ DOMAIN db' = {"objects", "announced", "edges", "spans"}
        /\ db'.objects = ObjectsAfter(db, pack)
        /\ db'.announced = AnnouncedAfter(db, pack)
        /\ db'.edges = InsertMissing(db.edges, AskedEdges(db, pack))
    BY DEF Loaded
  <1>2. /\ DOMAIN db'.objects = DOMAIN db.objects \cup DOMAIN pack.nodes
        /\ \A s \in DOMAIN db.objects : db'.objects[s] = db.objects[s]
        /\ \A s \in DOMAIN pack.nodes \ DOMAIN db.objects : db'.objects[s] = ObjectOfNode(pack.nodes[s])
    BY <1>1 DEF ObjectsAfter, Adding, Created
  <1>3. \A n : /\ DOMAIN ObjectOfNode(n) = Columns
               /\ ObjectOfNode(n).made = "seed" /\ ObjectOfNode(n).versioned = TRUE
               /\ ObjectOfNode(n).node = n
               /\ ObjectOfNode(n).life = IF Held(n) THEN "in_review" ELSE n.life
    BY DEF ObjectOfNode, Columns
  <1>4. \A s \in db'.announced :
           \/ s \in db.announced
           \/ s \in DOMAIN pack.nodes \ DOMAIN db.objects /\ ~Held(pack.nodes[s])
    BY <1>1 DEF AnnouncedAfter, Created
  <1>5. Shaped'
    <2>1. db'.announced \subseteq DOMAIN db'.objects
      BY <1>2, <1>4 DEF SeedInv, Shaped
    <2>2. ASSUME NEW s \in DOMAIN db'.objects
          PROVE  /\ DOMAIN db'.objects[s] = Columns
                 /\ db'.objects[s].made \in {"api", "seed"}
                 /\ db'.objects[s].made = "seed" => db'.objects[s].versioned
      <3>1. CASE s \in DOMAIN db.objects
        BY <1>2, <3>1 DEF SeedInv, Shaped
      <3>2. CASE s \notin DOMAIN db.objects
        BY <1>2, <1>3, <3>2, <2>2
      <3> QED  BY <3>1, <3>2
    <2>3. approved' \subseteq DOMAIN db'.objects
      BY <1>2 DEF SeedInv, Shaped
    <2> QED  BY <1>1, <2>1, <2>2, <2>3 DEF Shaped
  <1>6. SeedEdgesOnce'
    <2> DEFINE asked == {a.edge : a \in AskedEdges(db, pack)}
    <2>1. \A e \in DOMAIN db'.edges :
             \/ e \in DOMAIN db.edges /\ db'.edges[e] = db.edges[e]
             \/ db'.edges[e] = 1
      <3> HIDE DEF asked
      <3>1. db'.edges = Adding(db.edges, [e \in asked |-> 1])
        BY <1>1 DEF InsertMissing, asked
      <3> QED  BY <3>1 DEF Adding
    <2> QED  BY <2>1 DEF SeedInv, SeedEdgesOnce
  <1>7. HeldUntilReviewed'
    <2> SUFFICES ASSUME NEW s \in DOMAIN db'.objects
                 PROVE  LET o == db'.objects[s] IN
                        /\ o.made = "seed" /\ o.node.risk \in HighRisk /\ s \notin approved =>
                             o.life # "published" /\ (s \in db'.announced => o.node.life # "published")
                        /\ s \in approved => o.life = "published"
      BY DEF HeldUntilReviewed
    <2>1. CASE s \in DOMAIN db.objects
      BY <1>2, <1>4, <2>1 DEF SeedInv, HeldUntilReviewed
    <2>2. CASE s \notin DOMAIN db.objects
      <3>1. s \in DOMAIN pack.nodes
        BY <1>2, <2>2
      <3>2. s \notin approved
        BY <2>2 DEF SeedInv, Shaped
      <3>3. db'.objects[s] = ObjectOfNode(pack.nodes[s])
        BY <1>2, <2>2, <3>1
      <3>4. s \notin db.announced
        BY <2>2 DEF SeedInv, Shaped
      <3> QED  BY <1>3, <1>4, <3>2, <3>3, <3>4 DEF Held
    <2> QED  BY <2>1, <2>2
  <1>8. SeedCompletesGraph'
    <2>1. \A s \in DOMAIN pack.nodes : db'.objects[s].versioned => s \in Registered(db, pack)
      BY <1>1 DEF Registered
    <2>2. \A s \in DOMAIN db'.objects : db'.objects[s].versioned => s \in Resolved(db, pack)
      BY <1>2, <2>1 DEF Resolved
    <2>3. {a.edge : a \in AskedEdges(db, pack)} \subseteq DOMAIN db'.edges
      <3> DEFINE asked == {a.edge : a \in AskedEdges(db, pack)}
      <3>1. db'.edges = Adding(db.edges, [e \in asked |-> 1])
        BY <1>1 DEF InsertMissing
      <3> HIDE DEF asked
      <3>2. asked \subseteq DOMAIN db'.edges
        BY <3>1 DEF Adding
      <3> QED  BY <3>2 DEF asked
    <2>4. ASSUME NEW s \in DOMAIN pack.nodes, NEW r \in pack.nodes[s].requires \cap DOMAIN pack.nodes,
                 db'.objects[s].versioned, db'.objects[r].versioned
          PROVE  Triple(r, "REQUIRES", s) \in DOMAIN db'.edges
      <3>1. s \in Registered(db, pack) /\ r \in pack.nodes[s].requires \cap Registered(db, pack)
        BY <2>1, <2>4
      <3>2. Triple(r, "prerequisite_for", s) \in {a.edge : a \in AskedEdges(db, pack)}
        BY <3>1, AsksForPrerequisites
      <3> QED  BY <2>3, <3>2, Required
    <2>5. ASSUME NEW r \in pack.csv, {r.src, r.dst} \subseteq DOMAIN db'.objects,
                 db'.objects[r.src].versioned, db'.objects[r.dst].versioned,
                 Triple(r.src, r.type, r.dst).type \in EdgeTypes
          PROVE  Triple(r.src, r.type, r.dst) \in DOMAIN db'.edges
      <3>1. {r.src, r.dst} \subseteq Resolved(db, pack)
        BY <2>2, <2>5
      <3>2. Triple(r.src, r.type, r.dst) \in {a.edge : a \in AskedEdges(db, pack)}
        BY <2>5, <3>1, AsksForRows
      <3> QED  BY <2>3, <3>2
    <2> QED  BY <2>4, <2>5 DEF SeedCompletesGraph
  <1> QED  BY <1>5, <1>6, <1>7, <1>8 DEF SeedInv

\* A reviewer publishes an object: of what the seeds have published and linked
\* nothing changes, for a seeded object had its version before.
LEMMA ApproveKeeps ==
    ASSUME SeedInv, NEW s, ApproveAndPublish(s)
    PROVE  SeedInv'
  <1>1. /\ s \in DOMAIN db.objects
        /\ approved' = approved \cup {s} /\ seeded' = seeded
    BY DEF ApproveAndPublish
  <1>2. /\ DOMAIN db' = {"objects", "announced", "edges", "spans"}
        /\ db'.edges = db.edges
        /\ db'.announced = db.announced \cup {s}
        /\ DOMAIN db'.objects = DOMAIN db.objects
        /\ \A x \in DOMAIN db.objects \ {s} : db'.objects[x] = db.objects[x]
    BY DEF ApproveAndPublish, SeedInv, Shaped
  <1>3. /\ DOMAIN db'.objects[s] = Columns
        /\ db'.objects[s].life = "published" /\ db'.objects[s].versioned = TRUE
        /\ db'.objects[s].made = db.objects[s].made /\ db'.objects[s].node = db.objects[s].node
    BY <1>1 DEF ApproveAndPublish, SeedInv, Shaped, Columns
  <1>4. Shaped'
    BY <1>1, <1>2, <1>3 DEF SeedInv, Shaped
  <1>5. SeedEdgesOnce'
    BY <1>2 DEF SeedInv, SeedEdgesOnce
  <1>6. HeldUntilReviewed'
    BY <1>1, <1>2, <1>3 DEF SeedInv, HeldUntilReviewed
  <1>7. ASSUME NEW x \in DOMAIN db'.objects, db'.objects[x].versioned,
               db'.objects[x].made = "api" => x \notin approved'
        PROVE  db.objects[x].versioned /\ (db.objects[x].made = "api" => x \notin approved)
    <2>1. CASE x = s
      BY <1>1, <1>3, <1>7, <2>1 DEF SeedInv, Shaped
    <2>2. CASE x # s
      BY <1>1, <1>2, <1>7, <2>2
    <2> QED  BY <2>1, <2>2
  <1>8. SeedCompletesGraph'
    BY <1>1, <1>2, <1>7 DEF SeedInv, SeedCompletesGraph
  <1> QED  BY <1>4, <1>5, <1>6, <1>8 DEF SeedInv

\* Every step keeps the invariant.
LEMMA SeedStep == SeedInv /\ [SeedNext]_seedVars => SeedInv'
  <1> SUFFICES ASSUME SeedInv, [SeedNext]_seedVars PROVE SeedInv'
    OBVIOUS
  <1>1. ASSUME UNCHANGED <<db, approved, seeded>> PROVE SeedInv'
    BY <1>1 DEF SeedInv, Shaped, SeedCompletesGraph, SeedEdgesOnce, HeldUntilReviewed
  <1>2. ASSUME NEW pack, RunSeed(pack) PROVE SeedInv'
    <2>1. CASE SeedFails(db, pack)
      BY <1>1, <1>2, <2>1 DEF RunSeed, SeedGraph
    <2>2. CASE ~SeedFails(db, pack)
      BY <1>2, <2>2, LoadKeeps DEF RunSeed, SeedGraph
    <2> QED  BY <2>1, <2>2
  <1>3. ASSUME NEW s, ApproveAndPublish(s) PROVE SeedInv'
    BY <1>3, ApproveKeeps
  <1>4. CASE UNCHANGED seedVars
    BY <1>1, <1>4 DEF seedVars
  <1> QED  BY <1>2, <1>3, <1>4 DEF SeedNext

\* Whatever is seeded and reviewed, in any order.
LEMMA AlwaysSeedInv == SeedSpec => []SeedInv
  BY SeedStart, SeedStep, PTL DEF SeedSpec

\* After any sequence of seeds and reviews the graph has the prerequisites of the
\* last pack and the rows of its CSV, whatever was skipped because it existed.
THEOREM GraphCompleted == SeedSpec => []SeedCompletesGraph
  <1>1. SeedInv => SeedCompletesGraph
    BY DEF SeedInv
  <1> QED  BY <1>1, AlwaysSeedInv, PTL

\* No sequence of seeds inserts an edge twice.
THEOREM EdgesOnce == SeedSpec => []SeedEdgesOnce
  <1>1. SeedInv => SeedEdgesOnce
    BY DEF SeedInv
  <1> QED  BY <1>1, AlwaysSeedInv, PTL

\* No sequence of seeds publishes high-risk content without a review, or announces
\* what it holds back, or takes back what a review has published.
THEOREM RiskHeld == SeedSpec => []HeldUntilReviewed
  <1>1. SeedInv => HeldUntilReviewed
    BY DEF SeedInv
  <1> QED  BY <1>1, AlwaysSeedInv, PTL

-----------------------------------------------------------------------------
(* What is in the database.                                                *)

PackOK(pack) == DOMAIN pack.nodes \subseteq Slugs /\ \A s \in DOMAIN pack.nodes : NodeOK(pack.nodes[s])

DatabaseOK(d) ==
    /\ DOMAIN d = {"objects", "announced", "edges", "spans"}
    /\ DOMAIN d.objects \subseteq Slugs /\ d.announced \subseteq DOMAIN d.objects
    /\ \A s \in DOMAIN d.objects : DOMAIN d.objects[s] = Columns /\ d.objects[s].life \in LifecycleState
    /\ IsABag(d.edges) /\ IsABag(d.spans)

\* A seed inserts an edge once, and as many spans as the node has citations.
LEMMA LoadedOK ==
    ASSUME NEW d, NEW pack, DatabaseOK(d), PackOK(pack)
    PROVE  DatabaseOK(Loaded(d, pack))
  <1> DEFINE e == Loaded(d, pack)
  <1>1. /\ DOMAIN e = {"objects", "announced", "edges", "spans"}
        /\ e.objects = ObjectsAfter(d, pack) /\ e.announced = AnnouncedAfter(d, pack)
        /\ e.edges = InsertMissing(d.edges, AskedEdges(d, pack)) /\ e.spans = SpansAfter(d, pack)
    BY DEF Loaded
  <1> HIDE DEF e
  <1>2. /\ DOMAIN e.objects = DOMAIN d.objects \cup DOMAIN pack.nodes
        /\ \A s \in DOMAIN d.objects : e.objects[s] = d.objects[s]
        /\ \A s \in DOMAIN pack.nodes \ DOMAIN d.objects : e.objects[s] = ObjectOfNode(pack.nodes[s])
    BY <1>1 DEF ObjectsAfter, Adding, Created
  <1>3. \A n : NodeOK(n) => DOMAIN ObjectOfNode(n) = Columns /\ ObjectOfNode(n).life \in LifecycleState
    BY DEF NodeOK, ObjectOfNode, Columns, LifecycleState
  <1>4. \A s \in DOMAIN e.objects : DOMAIN e.objects[s] = Columns /\ e.objects[s].life \in LifecycleState
    BY <1>2, <1>3 DEF DatabaseOK, PackOK
  <1>5. DOMAIN e.objects \subseteq Slugs /\ e.announced \subseteq DOMAIN e.objects
    BY <1>1, <1>2 DEF DatabaseOK, PackOK, AnnouncedAfter, Created
  <1>6. IsABag(e.edges)
    <2>1. PICK asked : asked = {a.edge : a \in AskedEdges(d, pack)}
      OBVIOUS
    <2>2. e.edges = [x \in DOMAIN d.edges \cup asked |-> IF x \in DOMAIN d.edges THEN d.edges[x] ELSE 1]
      BY <1>1, <2>1 DEF InsertMissing, Adding
    <2> QED  BY <2>2 DEF DatabaseOK, IsABag
  <1>7. IsABag(e.spans)
    <2>1. PICK cited : cited = {s \in Registered(d, pack) : pack.nodes[s].cites \ {NoSupport} # {}}
      OBVIOUS
    <2>2. PICK added : added = [s \in cited |-> Cardinality(pack.nodes[s].cites \ {NoSupport})]
      OBVIOUS
    <2>3. ASSUME NEW s \in cited PROVE added[s] \in Nat /\ added[s] > 0
      <3>1. PICK C : C = pack.nodes[s].cites \ {NoSupport}
        OBVIOUS
      <3>2. C # {} /\ IsFiniteSet(pack.nodes[s].cites)
        BY <2>1, <3>1 DEF Registered, PackOK, NodeOK
      <3>3. IsFiniteSet(C)
        BY <3>1, <3>2, FS_Subset
      <3>4. Cardinality(C) \in Nat /\ Cardinality(C) # 0
        BY <3>2, <3>3, FS_CardinalityType, FS_EmptySet
      <3>5. added[s] = Cardinality(C)
        BY <2>2, <3>1
      <3> QED  BY <3>4, <3>5
    <2>4. e.spans = d.spans (+) added
      BY <1>1, <2>1, <2>2 DEF SpansAfter
    <2>5. e.spans = [s \in DOMAIN d.spans \cup cited |->
                       (IF s \in DOMAIN d.spans THEN d.spans[s] ELSE 0) + (IF s \in cited THEN added[s] ELSE 0)]
      BY <2>2, <2>4 DEF (+)
    <2>6. \A s \in DOMAIN d.spans : d.spans[s] \in Nat /\ d.spans[s] > 0
      BY DEF DatabaseOK, IsABag
    <2>7. \A s \in DOMAIN e.spans : e.spans[s] \in Nat /\ e.spans[s] > 0
      BY <2>3, <2>5, <2>6
    <2> QED  BY <2>5, <2>7 DEF IsABag
  <1> QED  BY <1>1, <1>4, <1>5, <1>6, <1>7 DEF DatabaseOK, e

SeedTypes == DatabaseOK(db) /\ approved \subseteq Slugs /\ seeds \in 0..MaxSeeds

LEMMA SeedTypesStart == SeedInit => SeedTypes
  <1> SUFFICES ASSUME SeedInit PROVE SeedTypes
    OBVIOUS
  <1>1. PICK d \in Databases : d = db
    BY DEF SeedInit
  <1>2. DatabaseOK(d)
    BY SeedAssumption DEF DatabaseOK, Columns
  <1> QED  BY <1>1, <1>2, SeedAssumption DEF SeedInit, SeedTypes

LEMMA SeedTypesStep == SeedTypes /\ [SeedNext]_seedVars => SeedTypes'
  <1> SUFFICES ASSUME SeedTypes, [SeedNext]_seedVars PROVE SeedTypes'
    OBVIOUS
  <1>1. ASSUME NEW pack \in Packs, RunSeed(pack) PROVE SeedTypes'
    <2>1. PackOK(pack)
      BY SeedAssumption DEF PackOK
    <2>2. PICK d, e : d = db /\ e = db'
      OBVIOUS
    <2>3. DatabaseOK(d) /\ (e = d \/ e = Loaded(d, pack))
      BY <1>1, <2>2 DEF RunSeed, SeedGraph, SeedTypes
    <2>4. DatabaseOK(e)
      BY <2>1, <2>3, LoadedOK
    <2>5. seeds' \in 0..MaxSeeds /\ approved' \subseteq Slugs
      BY <1>1, SeedAssumption DEF RunSeed, SeedTypes
    <2> QED  BY <2>2, <2>4, <2>5 DEF SeedTypes, DatabaseOK
  <1>2. ASSUME NEW s \in Slugs, ApproveAndPublish(s) PROVE SeedTypes'
    <2>1. PICK d, e : d = db /\ e = db'
      OBVIOUS
    <2>2. DatabaseOK(d) /\ s \in DOMAIN d.objects
      BY <1>2, <2>1 DEF ApproveAndPublish, SeedTypes
    <2>3. e = [d EXCEPT !.objects[s].life = "published", !.objects[s].versioned = TRUE, !.announced = @ \cup {s}]
      BY <1>2, <2>1 DEF ApproveAndPublish
    <2>4. /\ DOMAIN e = DOMAIN d /\ e.edges = d.edges /\ e.spans = d.spans
          /\ e.announced = d.announced \cup {s} /\ DOMAIN e.objects = DOMAIN d.objects
          /\ \A x \in DOMAIN d.objects \ {s} : e.objects[x] = d.objects[x]
      BY <2>2, <2>3 DEF DatabaseOK
    <2>5. DOMAIN e.objects[s] = Columns /\ e.objects[s].life = "published"
      BY <2>2, <2>3 DEF DatabaseOK, Columns
    <2>6. DatabaseOK(e)
      BY <2>2, <2>4, <2>5 DEF DatabaseOK, LifecycleState
    <2> QED  BY <1>2, <2>1, <2>6 DEF ApproveAndPublish, SeedTypes, DatabaseOK
  <1>3. CASE UNCHANGED seedVars
    BY <1>3 DEF seedVars, SeedTypes, DatabaseOK
  <1> QED  BY <1>1, <1>2, <1>3 DEF SeedNext

\* Whatever well-formed packs are seeded and whatever is published between, every
\* event refers to an object that exists, every object is in a state of the
\* enumeration, and edges and spans are counted: cli/seed.py.
THEOREM SeedTyped == SeedSpec => []SeedTypeOK
  <1>1. SeedTypes => SeedTypeOK
    BY DEF SeedTypes, DatabaseOK, SeedTypeOK
  <1> QED  BY <1>1, SeedTypesStart, SeedTypesStep, PTL DEF SeedSpec

\* What a pack asks for depends on what the database knows of its slugs.
LEMMA SameAsked ==
    ASSUME NEW d, NEW e, NEW pack, Registered(e, pack) = Registered(d, pack), Resolved(e, pack) = Resolved(d, pack)
    PROVE  AskedEdges(e, pack) = AskedEdges(d, pack)
  BY DEF AskedEdges

\* A pack that was seeded creates nothing and knows the same nodes.
LEMMA SameKnown ==
    ASSUME NEW d, DatabaseOK(d), NEW pack, PackOK(pack), NEW e, e = Loaded(d, pack)
    PROVE  /\ Created(e, pack) = {} /\ ObjectsAfter(e, pack) = e.objects
           /\ Registered(e, pack) = Registered(d, pack) /\ Resolved(e, pack) = Resolved(d, pack)
  <1>1. e.objects = ObjectsAfter(d, pack)
    BY DEF Loaded
  <1>2. /\ DOMAIN e.objects = DOMAIN d.objects \cup DOMAIN pack.nodes
        /\ e.objects = [x \in DOMAIN e.objects |-> e.objects[x]]
        /\ \A s \in DOMAIN d.objects : e.objects[s] = d.objects[s]
    BY <1>1 DEF ObjectsAfter, Adding, Created
  <1>3. Created(e, pack) = {}
    BY <1>2 DEF Created
  <1>4. ObjectsAfter(e, pack) = e.objects
    <2>1. PICK none : none = [s \in Created(e, pack) |-> ObjectOfNode(pack.nodes[s])]
      OBVIOUS
    <2>2. DOMAIN none = {} /\ ObjectsAfter(e, pack) = Adding(e.objects, none)
      BY <1>3, <2>1 DEF ObjectsAfter
    <2> QED  BY <1>2, <2>2 DEF Adding
  <1>5. Registered(e, pack) = Registered(d, pack)
    BY <1>1, <1>4 DEF Registered
  <1>6. Resolved(e, pack) = Resolved(d, pack)
    BY <1>2, <1>5 DEF Resolved
  <1> QED  BY <1>3, <1>4, <1>5, <1>6

\* To seed a pack again is safe, and changes no object, event or edge: what it
\* inserts again are the evidence spans of its supported claims, and without any
\* the database stays as it is (README.md: seed is idempotent; cli/seed.py).
THEOREM SeedAgain ==
    ASSUME NEW d, DatabaseOK(d), NEW pack, PackOK(pack), ~SeedFails(d, pack), NEW e, e = Loaded(d, pack)
    PROVE  /\ ~SeedFails(e, pack)
           /\ Loaded(e, pack) = [e EXCEPT !.spans = SpansAfter(e, pack)]
           /\ (\A s \in DOMAIN pack.nodes : pack.nodes[s].cites \subseteq {NoSupport}) => Loaded(e, pack) = e
  <1>1. /\ Created(e, pack) = {} /\ ObjectsAfter(e, pack) = e.objects
        /\ Registered(e, pack) = Registered(d, pack) /\ Resolved(e, pack) = Resolved(d, pack)
    BY SameKnown
  <1>2. PICK asked : asked = AskedEdges(d, pack) /\ asked = AskedEdges(e, pack)
    BY <1>1, SameAsked
  <1>3. PICK E : E = {a.edge : a \in asked}
    OBVIOUS
  <1>4. e.edges = [x \in DOMAIN d.edges \cup E |-> IF x \in DOMAIN d.edges THEN d.edges[x] ELSE 1]
    BY <1>2, <1>3 DEF Loaded, InsertMissing, Adding
  <1>5. ~SeedFails(e, pack)
    <2>1. \A x \in E : x \in DOMAIN d.edges => ~(d.edges[x] > 1)
      BY <1>2, <1>3 DEF SeedFails
    <2>2. \A x \in E : ~(e.edges[x] > 1)
      BY <1>4, <2>1
    <2> QED  BY <1>2, <1>3, <2>2 DEF SeedFails
  <1>6. InsertMissing(e.edges, asked) = e.edges
    <2>1. InsertMissing(e.edges, asked) =
            [x \in DOMAIN e.edges \cup E |-> IF x \in DOMAIN e.edges THEN e.edges[x] ELSE 1]
      BY <1>3 DEF InsertMissing, Adding
    <2> QED  BY <1>4, <2>1
  <1>7. AnnouncedAfter(e, pack) = e.announced
    BY <1>1 DEF AnnouncedAfter
  <1>8. Loaded(e, pack) = [objects |-> e.objects, announced |-> e.announced, edges |-> e.edges,
                           spans |-> SpansAfter(e, pack)]
    BY <1>1, <1>2, <1>6, <1>7 DEF Loaded
  <1>9. e = [objects |-> e.objects, announced |-> e.announced, edges |-> e.edges, spans |-> e.spans]
    BY DEF Loaded
  <1>10. Loaded(e, pack) = [e EXCEPT !.spans = SpansAfter(e, pack)]
    BY <1>8, <1>9
  <1>11. ASSUME \A s \in DOMAIN pack.nodes : pack.nodes[s].cites \subseteq {NoSupport}
         PROVE  Loaded(e, pack) = e
    <2>1. DatabaseOK(e)
      BY LoadedOK
    <2>2. PICK B : B = e.spans /\ IsABag(B)
      BY <2>1 DEF DatabaseOK
    <2>3. PICK cited : cited = {s \in Registered(e, pack) : pack.nodes[s].cites \ {NoSupport} # {}}
      OBVIOUS
    <2>4. cited = {}
      BY <1>11, <2>3 DEF Registered
    <2>5. PICK added : added = [s \in cited |-> Cardinality(pack.nodes[s].cites \ {NoSupport})]
      OBVIOUS
    <2>6. SpansAfter(e, pack) = B (+) added /\ DOMAIN added = {}
      BY <2>2, <2>3, <2>4, <2>5 DEF SpansAfter
    <2>7. B = [x \in DOMAIN B |-> B[x]] /\ \A x \in DOMAIN B : B[x] \in Nat
      BY <2>2 DEF IsABag
    <2>8. B (+) added = B
      BY <2>6, <2>7 DEF (+)
    <2> QED  BY <1>8, <1>9, <2>2, <2>6, <2>8
  <1> QED  BY <1>5, <1>10, <1>11

-----------------------------------------------------------------------------
(* Lists of file operations.                                               *)

\* A sequence of anything.
Listed(s) == Len(s) \in Nat /\ s = [i \in 1..Len(s) |-> s[i]]

\* A list is a sequence of its members.
LEMMA ListedIsSeq ==
    ASSUME NEW s, Listed(s)
    PROVE  s \in Seq({s[i] : i \in 1..Len(s)})
  <1> DEFINE T == {s[i] : i \in 1..Len(s)}
  <1>1. s \in [1..Len(s) -> T]
    BY DEF Listed
  <1> QED  BY <1>1 DEF Listed

\* Every sequence is a list.
LEMMA SeqIsListed ==
    ASSUME NEW S, NEW s \in Seq(S)
    PROVE  Listed(s)
  BY DEF Listed

\* How long a list is.
LEMMA ListLength ==
    ASSUME NEW s, NEW n \in Nat, s = [i \in 1..n |-> s[i]]
    PROVE  Len(s) = n /\ Listed(s)
  <1>1. s \in [1..n -> {s[i] : i \in 1..n}]
    OBVIOUS
  <1>2. Len(s) = n
    BY <1>1
  <1> QED  BY <1>2 DEF Listed

\* Two lists, one after the other.
LEMMA Joined ==
    ASSUME NEW a, NEW b, Listed(a), Listed(b)
    PROVE  /\ Listed(a \o b) /\ Len(a \o b) = Len(a) + Len(b)
           /\ \A i \in 1..Len(a) : (a \o b)[i] = a[i]
           /\ \A i \in 1..Len(b) : (a \o b)[Len(a) + i] = b[i]
           /\ \A i \in 1..Len(a \o b) : i \in 1..Len(a) \/ i - Len(a) \in 1..Len(b)
  <1> DEFINE T == {a[i] : i \in 1..Len(a)} \cup {b[i] : i \in 1..Len(b)}
  <1>1. a \in Seq(T) /\ b \in Seq(T)
    <2>1. a \in [1..Len(a) -> T] /\ b \in [1..Len(b) -> T]
      BY DEF Listed
    <2> HIDE DEF T
    <2> QED  BY <2>1 DEF Listed
  <1> HIDE DEF T
  <1>2. a \o b \in Seq(T) /\ Len(a \o b) = Len(a) + Len(b)
    BY <1>1
  <1>3. Listed(a \o b)
    BY <1>2, SeqIsListed
  <1> QED  BY <1>1, <1>2, <1>3

\* The worlds a list of operations goes through.
Worlds(h, ops, w, n) == h = [i \in 0..n |-> IF i = 0 THEN w ELSE Apply(h[i - 1], ops[i])]

\* There is such a function, so the one Execute defines is one.
LEMMA WorldsExist ==
    ASSUME NEW ops, NEW w, NEW n \in Nat
    PROVE  \E h : Worlds(h, ops, w, n)
  <1> DEFINE Good(m, h) == h = [i \in 0..m |-> IF i = 0 THEN w ELSE Apply(h[i - 1], ops[i])]
             S == {m \in Nat : \E h : Good(m, h)}
  <1>1. 0 \in S
    <2>1. PICK h : h = [i \in 0..0 |-> w]
      OBVIOUS
    <2>2. Good(0, h)
      BY <2>1
    <2> QED  BY <2>2
  <1>2. ASSUME NEW m \in S \cap Nat PROVE m + 1 \in S
    <2>1. PICK h : Good(m, h)
      OBVIOUS
    <2>2. PICK g : g = [i \in 0..m + 1 |-> IF i = m + 1 THEN Apply(h[m], ops[m + 1]) ELSE h[i]]
      OBVIOUS
    <2>3. \A i \in 0..m : g[i] = h[i]
      BY <2>2
    <2>4. \A i \in 0..m : h[i] = IF i = 0 THEN w ELSE Apply(h[i - 1], ops[i])
      BY <2>1
    <2>5. ASSUME NEW i \in 0..m + 1 PROVE g[i] = IF i = 0 THEN w ELSE Apply(g[i - 1], ops[i])
      <3>1. CASE i = m + 1
        <4>1. g[i] = Apply(h[m], ops[i]) /\ g[m] = h[m] /\ i # 0 /\ i - 1 = m
          BY <2>2, <2>3, <3>1
        <4> QED  BY <4>1
      <3>2. CASE i = 0
        BY <2>3, <2>4, <3>2
      <3>3. CASE i \in 1..m
        <4>1. i - 1 \in 0..m /\ i \in 0..m /\ i # 0
          BY <3>3
        <4>2. g[i] = h[i] /\ g[i - 1] = h[i - 1]
          BY <2>3, <4>1
        <4> QED  BY <2>4, <4>1, <4>2
      <3> QED  BY <3>1, <3>2, <3>3
    <2>6. Good(m + 1, g)
      <3>1. DOMAIN g = 0..m + 1 /\ g = [i \in 0..m + 1 |-> g[i]]
        BY <2>2
      <3> QED  BY <2>5, <3>1
    <2> QED  BY <2>6
  <1>3. n \in S
    <2> HIDE DEF S
    <2> QED  BY <1>1, <1>2, SetInduction
  <1> QED  BY <1>3 DEF Worlds

\* What a command that was cut short after k operations leaves.
Left(h, k, torn, ops) == IF torn THEN Tear(h[k], ops[k + 1]) ELSE h[k]

\* A command carries out some of its operations, the next one perhaps by half.
Cut(pass, ops, k, torn, h) ==
    /\ k \in 0..Len(ops) /\ torn \in BOOLEAN /\ (torn => k < Len(ops))
    /\ h[0] = World /\ \A i \in 1..k : h[i] = Apply(h[i - 1], ops[i])
    /\ project' = Left(h, k, torn, ops).project
    /\ db' = Left(h, k, torn, ops).db /\ seeded' = Left(h, k, torn, ops).seeded
    /\ job' \in {job, Left(h, k, torn, ops).job}
    /\ last' = [pass |-> pass, wrote |-> PutSlugs(SubSeq(ops, 1, k)), risks |-> Risks(project.drafts)]

\* What Execute does, with the worlds it goes through made explicit.
LEMMA Carried ==
    ASSUME NEW pass, NEW ops, Len(ops) \in Nat, Execute(pass, ops)
    PROVE  /\ \E k, torn, h : Cut(pass, ops, k, torn, h)
           /\ commands < MaxCommands /\ commands' = commands + 1
           /\ crashes' = crashes \/ (crashes < MaxCrashes /\ crashes' = crashes + 1)
           /\ UNCHANGED <<report, byHand, approved, seeds>>
  <1> DEFINE Good(k, h) == h = [i \in 0..k |-> IF i = 0 THEN World ELSE Apply(h[i - 1], ops[i])]
             Out(k, torn, h) == IF torn THEN Tear(h[k], ops[k + 1]) ELSE h[k]
             After(k) == CHOOSE h : Good(k, h)
  <1>1. PICK k \in 0..Len(ops), torn \in BOOLEAN :
          /\ k < Len(ops) => crashes < MaxCrashes
          /\ torn => k < Len(ops)
          /\ crashes' = IF k < Len(ops) THEN crashes + 1 ELSE crashes
          /\ project' = Out(k, torn, After(k)).project
          /\ db' = Out(k, torn, After(k)).db /\ seeded' = Out(k, torn, After(k)).seeded
          /\ job' \in {job, Out(k, torn, After(k)).job}
          /\ last' = [pass |-> pass, wrote |-> PutSlugs(SubSeq(ops, 1, k)), risks |-> Risks(project.drafts)]
    <2> HIDE DEF World
    <2> QED  BY DEF Execute
  <1>2. PICK h : h = After(k)
    OBVIOUS
  <1>3. Good(k, h)
    <2>1. k \in Nat
      OBVIOUS
    <2>2. \E g : Good(k, g)
      <3>1. PICK w : w = World
        OBVIOUS
      <3>2. PICK g : Worlds(g, ops, w, k)
        BY <2>1, WorldsExist
      <3> HIDE DEF World
      <3> QED  BY <3>1, <3>2 DEF Worlds
    <2> QED  BY <1>2, <2>2
  <1>4. h[0] = World /\ \A i \in 1..k : h[i] = Apply(h[i - 1], ops[i])
    <2>1. \A i \in 0..k : h[i] = IF i = 0 THEN World ELSE Apply(h[i - 1], ops[i])
      BY <1>3
    <2> QED  BY <2>1
  <1>5. Cut(pass, ops, k, torn, h)
    <2> HIDE DEF After, Good, World
    <2> QED  BY <1>1, <1>2, <1>4 DEF Cut, Left
  <1> QED  BY <1>1, <1>5 DEF Execute

-----------------------------------------------------------------------------
(* What an operation does to the world.                                    *)

ProjectOK(p) ==
    /\ DOMAIN p = DOMAIN NoProject
    /\ p.manifest \in {"missing", "torn", "whole"} /\ p.done \subseteq Passes
    /\ DOMAIN p.drafts \subseteq Slugs /\ DOMAIN p.nodes \subseteq Slugs
    /\ \A a \in p.archived : a.slug \in Slugs /\ a.heirs \subseteq Slugs
    /\ MatrixOK(p.matrix)

WorldOK(w) ==
    /\ DOMAIN w = {"project", "db", "seeded", "job"}
    /\ ProjectOK(w.project) /\ w.job \in JobRow

OpOK(o) ==
    \/ o.op \in {"home", "manifest", "source", "bind", "seed"}
    \/ /\ o.op = "write" /\ o.field \in {"segments", "matrix", "edges", "csv"}
       /\ o.field = "matrix" => MatrixOK(o.content)
    \/ o.op = "put" /\ o.slug \in Slugs
    \/ o.op = "copy" /\ o.slug \in Slugs
    \/ o.op = "retire" /\ o.slug \in Slugs /\ o.heirs \subseteq Slugs \ {o.slug}
    \/ o.op = "mark" /\ o.pass \in Passes
    \/ o.op = "mirror" /\ o.pass \in Passes

\* What the properties look at, before and after.
Same(v, w) ==
    /\ w.project.done = v.project.done /\ w.job = v.job
    /\ w.project.drafts = v.project.drafts /\ w.project.archived = v.project.archived

\* Operations the properties do not see.
LEMMA Simple ==
    ASSUME NEW w, WorldOK(w), NEW o, OpOK(o), o.op \in {"home", "manifest", "source", "bind", "seed", "write", "copy"}
    PROVE  WorldOK(Apply(w, o)) /\ Same(w, Apply(w, o))
  <1>1. CASE o.op = "home"
    BY <1>1 DEF Apply, WorldOK, ProjectOK, NoProject, Same
  <1>2. CASE o.op = "manifest"
    BY <1>2 DEF Apply, WorldOK, ProjectOK, NoProject, Same
  <1>3. CASE o.op = "source"
    BY <1>3 DEF Apply, WorldOK, ProjectOK, NoProject, Same
  <1>4. CASE o.op = "bind"
    BY <1>4 DEF Apply, WorldOK, ProjectOK, NoProject, Same
  <1>5. CASE o.op = "seed"
    <2>1. Apply(w, o) = LET pack == [nodes |-> w.project.nodes, csv |-> w.project.csv]
                        IN  [w EXCEPT !.db = SeedGraph(w.db, pack), !.seeded = pack]
      BY <1>5 DEF Apply
    <2> QED  BY <2>1 DEF WorldOK, Same
  <1>6. CASE o.op = "write"
    <2>1. o.field \in {"segments", "matrix", "edges", "csv"} /\ (o.field = "matrix" => MatrixOK(o.content))
      BY <1>6 DEF OpOK
    <2>2. Apply(w, o) = [w EXCEPT !.project[o.field] = o.content]
      BY <1>6 DEF Apply
    <2>3. /\ Apply(w, o).project = [w.project EXCEPT ![o.field] = o.content]
          /\ Apply(w, o).job = w.job /\ DOMAIN Apply(w, o) = DOMAIN w
      BY <2>2 DEF WorldOK
    <2> QED  BY <2>1, <2>3 DEF WorldOK, ProjectOK, NoProject, Same
  <1>7. CASE o.op = "copy"
    <2>1. o.slug \in Slugs
      BY <1>7 DEF OpOK
    <2>2. Apply(w, o) = [w EXCEPT !.project.nodes = With(w.project.nodes, o.slug, w.project.drafts[o.slug])]
      BY <1>7 DEF Apply
    <2>3. DOMAIN With(w.project.nodes, o.slug, w.project.drafts[o.slug]) \subseteq Slugs
      BY <2>1 DEF With, WorldOK, ProjectOK
    <2> QED  BY <2>2, <2>3 DEF WorldOK, ProjectOK, NoProject, Same
  <1> QED  BY <1>1, <1>2, <1>3, <1>4, <1>5, <1>6, <1>7

\* A draft is written.
LEMMA Putting ==
    ASSUME NEW w, WorldOK(w), NEW o, OpOK(o), o.op = "put"
    PROVE  /\ WorldOK(Apply(w, o))
           /\ Apply(w, o) = [w EXCEPT !.project.drafts = With(w.project.drafts, o.slug, o.draft)]
           /\ Apply(w, o).project.drafts = With(w.project.drafts, o.slug, o.draft)
           /\ Apply(w, o).project.archived = w.project.archived
           /\ Apply(w, o).project.done = w.project.done /\ Apply(w, o).job = w.job
  <1>1. o.slug \in Slugs
    BY DEF OpOK
  <1>2. Apply(w, o) = [w EXCEPT !.project.drafts = With(w.project.drafts, o.slug, o.draft)]
    BY DEF Apply
  <1>3. DOMAIN With(w.project.drafts, o.slug, o.draft) \subseteq Slugs
    BY <1>1 DEF With, WorldOK, ProjectOK
  <1> QED  BY <1>2, <1>3 DEF WorldOK, ProjectOK, NoProject

\* A draft is moved to the archive, if it is still there.
LEMMA Retiring ==
    ASSUME NEW w, WorldOK(w), NEW o, OpOK(o), o.op = "retire"
    PROVE  /\ WorldOK(Apply(w, o))
           /\ Apply(w, o).project.done = w.project.done /\ Apply(w, o).job = w.job
           /\ \/ Apply(w, o) = w /\ o.slug \notin DOMAIN w.project.drafts
              \/ /\ DOMAIN Apply(w, o).project.drafts = DOMAIN w.project.drafts \ {o.slug}
                 /\ Apply(w, o).project.archived =
                       {a \in w.project.archived : a.slug # o.slug} \cup {[slug |-> o.slug, heirs |-> o.heirs]}
  <1>1. o.slug \in Slugs /\ o.heirs \subseteq Slugs
    BY DEF OpOK
  <1>2. CASE o.slug \in DOMAIN w.project.drafts
    <2>1. Apply(w, o) = [w EXCEPT !.project.drafts = WithoutFile(w.project.drafts, o.slug),
                                  !.project.archived = {a \in @ : a.slug # o.slug} \cup {[slug |-> o.slug, heirs |-> o.heirs]}]
      BY <1>2 DEF Apply
    <2>2. DOMAIN WithoutFile(w.project.drafts, o.slug) = DOMAIN w.project.drafts \ {o.slug}
      BY DEF WithoutFile
    <2>3. /\ Apply(w, o).project.drafts = WithoutFile(w.project.drafts, o.slug)
          /\ Apply(w, o).project.archived =
               {a \in w.project.archived : a.slug # o.slug} \cup {[slug |-> o.slug, heirs |-> o.heirs]}
          /\ Apply(w, o).project.done = w.project.done /\ Apply(w, o).job = w.job
          /\ Apply(w, o).project.manifest = w.project.manifest /\ Apply(w, o).project.nodes = w.project.nodes
          /\ Apply(w, o).project.matrix = w.project.matrix
          /\ DOMAIN Apply(w, o) = DOMAIN w /\ DOMAIN Apply(w, o).project = DOMAIN w.project
      <3>1. PICK files, gone :
              /\ files = WithoutFile(w.project.drafts, o.slug)
              /\ gone = {a \in w.project.archived : a.slug # o.slug} \cup {[slug |-> o.slug, heirs |-> o.heirs]}
        OBVIOUS
      <3>2. Apply(w, o) = [w EXCEPT !.project.drafts = files, !.project.archived = gone]
        <4>1. PICK v : v = [w EXCEPT !.project.drafts = files]
          OBVIOUS
        <4>2. v.project.archived = w.project.archived
          BY <4>1 DEF WorldOK, ProjectOK, NoProject
        <4> QED  BY <2>1, <3>1, <4>1, <4>2
      <3>3. /\ Apply(w, o).project.drafts = files /\ Apply(w, o).project.archived = gone
            /\ Apply(w, o).project.done = w.project.done /\ Apply(w, o).job = w.job
            /\ Apply(w, o).project.manifest = w.project.manifest /\ Apply(w, o).project.nodes = w.project.nodes
            /\ Apply(w, o).project.matrix = w.project.matrix
            /\ DOMAIN Apply(w, o) = DOMAIN w /\ DOMAIN Apply(w, o).project = DOMAIN w.project
        <4>1. PICK v : v = [w EXCEPT !.project.drafts = files]
          OBVIOUS
        <4>2. Apply(w, o) = [v EXCEPT !.project.archived = gone]
          BY <3>2, <4>1
        <4>3. v.project = [w.project EXCEPT !.drafts = files] /\ v.job = w.job /\ DOMAIN v = DOMAIN w
          BY <4>1 DEF WorldOK
        <4>4. /\ Apply(w, o).project = [v.project EXCEPT !.archived = gone] /\ Apply(w, o).job = v.job
              /\ DOMAIN Apply(w, o) = DOMAIN v
          BY <4>2, <4>3 DEF WorldOK
        <4> QED  BY <4>3, <4>4 DEF WorldOK, ProjectOK, NoProject
      <3> QED  BY <3>1, <3>3
    <2> QED  BY <1>1, <2>2, <2>3 DEF WorldOK, ProjectOK
  <1>3. CASE o.slug \notin DOMAIN w.project.drafts
    BY <1>3 DEF Apply
  <1> QED  BY <1>2, <1>3

\* A pass is recorded in the manifest.
LEMMA Marking ==
    ASSUME NEW w, WorldOK(w), NEW o, OpOK(o), o.op = "mark"
    PROVE  /\ WorldOK(Apply(w, o)) /\ Apply(w, o).job = w.job
           /\ Apply(w, o).project.done = w.project.done \cup {o.pass}
           /\ Apply(w, o).project.drafts = w.project.drafts
           /\ Apply(w, o).project.archived = w.project.archived
  <1>1. o.pass \in Passes
    BY DEF OpOK
  <1>2. Apply(w, o) = [w EXCEPT !.project.done = @ \cup {o.pass}]
    BY DEF Apply
  <1> QED  BY <1>1, <1>2 DEF WorldOK, ProjectOK, NoProject

\* A pass is reported to the database.
LEMMA Mirroring ==
    ASSUME NEW w, WorldOK(w), NEW o, OpOK(o), o.op = "mirror"
    PROVE  /\ WorldOK(Apply(w, o)) /\ Apply(w, o).project = w.project
           /\ \A p \in Passes : Apply(w, o).job.passes[p] = "completed" => p = o.pass \/ w.job.passes[p] = "completed"
  <1>1. o.pass \in Passes
    BY DEF OpOK
  <1>2. Apply(w, o) = [w EXCEPT !.job = CompletePass(w.job, o.pass)]
    BY DEF Apply
  <1>3. Apply(w, o).job = CompletePass(w.job, o.pass) /\ Apply(w, o).project = w.project /\ DOMAIN Apply(w, o) = DOMAIN w
    BY <1>2 DEF WorldOK
  <1>4. w.job \in JobRow
    BY DEF WorldOK
  <1>5. CompletePass(w.job, o.pass) \in JobRow
    BY <1>1, <1>4 DEF CompletePass, JobRow, PassStatuses
  <1>6. \A p \in Passes : CompletePass(w.job, o.pass).passes[p] = "completed" => p = o.pass \/ w.job.passes[p] = "completed"
    BY <1>1, <1>4 DEF CompletePass, JobRow
  <1> QED  BY <1>3, <1>5, <1>6 DEF WorldOK

\* An operation that was cut short takes no draft away and reports nothing.
LEMMA Tearing ==
    ASSUME NEW w, WorldOK(w), NEW o, OpOK(o)
    PROVE  /\ WorldOK(Tear(w, o)) /\ Tear(w, o).job = w.job
           /\ Tear(w, o).project.done = w.project.done
           /\ Tear(w, o).project.archived = w.project.archived
           /\ DOMAIN w.project.drafts \subseteq DOMAIN Tear(w, o).project.drafts
  <1>1. CASE o.op \in {"manifest", "bind", "mark"}
    BY <1>1 DEF Tear, WorldOK, ProjectOK, NoProject
  <1>2. CASE o.op = "write"
    <2>1. CASE o.field = "segments"
      BY <1>2, <2>1 DEF Tear, WorldOK, ProjectOK, NoProject
    <2>2. CASE o.field = "csv"
      BY <1>2, <2>2 DEF Tear, WorldOK, ProjectOK, NoProject
    <2>3. CASE o.field = "matrix"
      <3>1. MatrixOK(Torn)
        BY DEF MatrixOK
      <3> QED  BY <1>2, <2>3, <3>1 DEF Tear, WorldOK, ProjectOK, NoProject
    <2>4. CASE o.field = "edges"
      BY <1>2, <2>4 DEF Tear, WorldOK, ProjectOK, NoProject
    <2> QED  BY <1>2, <2>1, <2>2, <2>3, <2>4 DEF OpOK
  <1>3. CASE o.op = "put"
    <2>1. Tear(w, o) = [w EXCEPT !.project.drafts = With(@, o.slug, Torn)] /\ o.slug \in Slugs
      BY <1>3 DEF Tear, OpOK
    <2>2. DOMAIN With(w.project.drafts, o.slug, Torn) = DOMAIN w.project.drafts \cup {o.slug}
      BY DEF With
    <2> QED  BY <2>1, <2>2 DEF WorldOK, ProjectOK, NoProject
  <1>4. CASE o.op = "copy"
    <2>1. Tear(w, o) = [w EXCEPT !.project.nodes = With(@, o.slug, Torn)] /\ o.slug \in Slugs
      BY <1>4 DEF Tear, OpOK
    <2>2. DOMAIN With(w.project.nodes, o.slug, Torn) \subseteq Slugs
      BY <2>1 DEF With, WorldOK, ProjectOK
    <2> QED  BY <2>1, <2>2 DEF WorldOK, ProjectOK, NoProject
  <1>5. CASE o.op \in {"home", "source", "seed", "retire", "mirror"}
    BY <1>5 DEF Tear
  <1> QED  BY <1>1, <1>2, <1>3, <1>4, <1>5 DEF OpOK

-----------------------------------------------------------------------------
(* Archived drafts.                                                        *)

\* The slugs an archived draft may lead to, and the sets it does not lead out of.
Base(p) == DOMAIN p.drafts \cup {a.slug : a \in {x \in p.archived : x.heirs = {}}}
Enclosed(p, X) == \A a \in p.archived : a.heirs \cap X # {} => a.slug \in X

\* ArchivedReplaced without its bound: whatever set has the drafts and all that
\* leads into it has every draft that was archived.
Replaced(p) ==
    \A X \in SUBSET Slugs : Base(p) \subseteq X /\ Enclosed(p, X) => \A a \in p.archived : a.slug \in X

\* A draft more does no harm.
LEMMA MoreDrafts ==
    ASSUME NEW p, NEW r, Replaced(p), r.archived = p.archived, DOMAIN p.drafts \subseteq DOMAIN r.drafts
    PROVE  Replaced(r)
  BY DEF Replaced, Base, Enclosed

\* A draft whose heirs are all there may be moved away.
LEMMA Retired1 ==
    ASSUME NEW p, NEW r, NEW s \in Slugs, NEW heirs,
           Replaced(p), heirs \subseteq DOMAIN p.drafts \ {s}, DOMAIN p.drafts \subseteq Slugs,
           DOMAIN r.drafts = DOMAIN p.drafts \ {s},
           r.archived = {a \in p.archived : a.slug # s} \cup {[slug |-> s, heirs |-> heirs]}
    PROVE  Replaced(r)
  <1> SUFFICES ASSUME NEW X \in SUBSET Slugs, Base(r) \subseteq X, Enclosed(r, X), NEW a \in r.archived
               PROVE  a.slug \in X
    BY DEF Replaced
  <1>1. PICK new : new \in r.archived /\ new.slug = s /\ new.heirs = heirs
    <2>1. PICK new : new = [slug |-> s, heirs |-> heirs]
      OBVIOUS
    <2>2. new \in r.archived
      BY <2>1
    <2>3. new.slug = s /\ new.heirs = heirs
      BY <2>1
    <2> QED  BY <2>2, <2>3
  <1>2. DOMAIN p.drafts \ {s} \subseteq X
    BY DEF Base
  <1>3. s \in X
    <2>1. CASE heirs = {}
      BY <1>1, <2>1 DEF Base
    <2>2. CASE heirs # {}
      BY <1>1, <1>2, <2>2 DEF Enclosed
    <2> QED  BY <2>1, <2>2
  <1>4. \A b \in p.archived : b.slug # s => b \in r.archived
    OBVIOUS
  <1>5. Base(p) \subseteq X
    BY <1>2, <1>3, <1>4 DEF Base
  <1>6. Enclosed(p, X)
    BY <1>3, <1>4 DEF Enclosed
  <1>7. \A b \in p.archived : b.slug \in X
    BY <1>5, <1>6 DEF Replaced
  <1> QED  BY <1>1, <1>3, <1>7

\* The slugs reached so far and those one more archived draft leads to.
LeadBack(A, H) == H \cup {a.slug : a \in {x \in A : x.heirs \cap H # {}}}

Chain(L, p, n) == L = [k \in 0..n |-> IF k = 0 THEN Base(p) ELSE LeadBack(p.archived, L[k - 1])]

\* The sets ArchivedReplaced builds, one heir further at a time.
LEMMA ChainExists ==
    ASSUME NEW p, NEW n \in Nat, ProjectOK(p)
    PROVE  \E L : Chain(L, p, n)
  <1> DEFINE S == SUBSET Slugs
             F == [k \in Nat |-> [H \in S |-> LeadBack(p.archived, H)]]
             start == Base(p)
  <1>1. start \in S /\ \A H \in S : LeadBack(p.archived, H) \in S
    BY DEF ProjectOK, Base, LeadBack
  <1>2. F \in [Nat -> [S -> S]]
    BY <1>1
  <1>3. PICK h \in [0..n -> S] : h[0] = start /\ \A k \in 1..n : h[k] = F[k][h[k - 1]]
    <2>1. Iterations(S, start, F, n) # {}
      <3>1. start \in S
        BY <1>1
      <3> HIDE DEF F, S, start
      <3> QED  BY <1>2, <3>1, IterationsExist
    <2> HIDE DEF F, S, start
    <2> QED  BY <2>1 DEF Iterations
  <1>4. \A k \in 1..n : h[k] = LeadBack(p.archived, h[k - 1])
    <2> TAKE k \in 1..n
    <2>1. k \in Nat /\ k - 1 \in 0..n /\ h[k - 1] \in S
      BY <1>3
    <2>2. F[k][h[k - 1]] = LeadBack(p.archived, h[k - 1])
      BY <2>1
    <2> QED  BY <1>3, <2>2
  <1>5. \A k \in 0..n : h[k] = IF k = 0 THEN Base(p) ELSE LeadBack(p.archived, h[k - 1])
    BY <1>3, <1>4
  <1>6. h = [k \in 0..n |-> h[k]]
    BY <1>3
  <1> QED  BY <1>5, <1>6 DEF Chain

\* There are as many slugs as files at most.
LEMMA SlugsAreFinite == IsFiniteSet(Slugs) /\ Cardinality(Slugs) \in Nat
  <1>1. Order \in Seq(Slugs) /\ Slugs = {Order[i] : i \in DOMAIN Order}
    BY PipelineAssumption
  <1>2. PICK m \in Nat : m = Len(Order) /\ DOMAIN Order = 1..m
    BY <1>1
  <1>3. Order \in Surjection(1..m, Slugs)
    BY <1>1, <1>2 DEF Surjection
  <1>4. IsFiniteSet(1..m)
    BY FS_Interval
  <1> QED  BY <1>3, <1>4, FS_Surjection, FS_CardinalityType

\* Each round reaches another archived draft for as long as one is left.
LEMMA ChainCovers ==
    ASSUME NEW p, ProjectOK(p), Replaced(p), NEW n, n = Cardinality(Slugs), NEW L, Chain(L, p, n)
    PROVE  \A a \in p.archived : a.slug \in L[n]
  <1> DEFINE gone == {a.slug : a \in p.archived}
             left(k) == gone \ L[k]
             Shrinks(k) == /\ Base(p) \subseteq L[k] /\ L[k] \subseteq Slugs
                           /\ left(k) = {} \/ Cardinality(left(k)) + k <= n
             T == {k \in Nat : k <= n => Shrinks(k)}
  <1>1. IsFiniteSet(Slugs) /\ n \in Nat
    BY SlugsAreFinite
  <1>2. gone \subseteq Slugs
    BY DEF ProjectOK
  <1>3. \A k : left(k) \subseteq Slugs /\ IsFiniteSet(left(k)) /\ Cardinality(left(k)) \in Nat
    BY <1>1, <1>2, FS_Subset, FS_CardinalityType
  <1>4. L[0] = Base(p) /\ \A k \in 1..n : L[k] = LeadBack(p.archived, L[k - 1])
    BY <1>1 DEF Chain
  <1>5. 0 \in T
    <2>1. Cardinality(left(0)) <= n
      <3>1. left(0) \subseteq Slugs
        BY <1>3
      <3> HIDE DEF left
      <3> QED  BY <1>1, <3>1, FS_Subset
    <2>2. Cardinality(left(0)) + 0 <= n
      <3>1. Cardinality(left(0)) \in Nat
        BY <1>3
      <3> HIDE DEF left
      <3> QED  BY <1>1, <2>1, <3>1
    <2>3. Base(p) \subseteq L[0] /\ L[0] \subseteq Slugs
      BY <1>4 DEF Base, ProjectOK
    <2> HIDE DEF left
    <2> QED  BY <2>2, <2>3
  <1>6. ASSUME NEW k \in T \cap Nat PROVE k + 1 \in T
    <2> SUFFICES ASSUME k + 1 <= n PROVE Shrinks(k + 1)
      OBVIOUS
    <2>1. k <= n /\ Shrinks(k)
      BY <1>1, <1>6
    <2>2. L[k + 1] = LeadBack(p.archived, L[k])
      BY <1>1, <1>4
    <2>3. Base(p) \subseteq L[k + 1] /\ L[k + 1] \subseteq Slugs /\ left(k + 1) \subseteq left(k)
      BY <1>2, <2>1, <2>2 DEF LeadBack
    <2>4. CASE left(k + 1) = {}
      BY <2>3, <2>4
    <2>5. CASE left(k + 1) # {}
      <3>1. left(k) # {}
        BY <2>3, <2>5
      <3>2. ~Enclosed(p, L[k])
        BY <2>1, <3>1 DEF Replaced
      <3>3. PICK a \in p.archived : a.heirs \cap L[k] # {} /\ a.slug \notin L[k]
        BY <3>2 DEF Enclosed
      <3>4. a.slug \in left(k) \ left(k + 1)
        BY <2>2, <3>3 DEF LeadBack
      <3>5. Cardinality(left(k + 1)) < Cardinality(left(k))
        <4>1. left(k + 1) # left(k)
          BY <3>4
        <4> HIDE DEF left
        <4> QED  BY <1>3, <2>3, <4>1, FS_Subset
      <3>6. Cardinality(left(k)) + k <= n
        BY <2>1, <3>1
      <3>7. Cardinality(left(k + 1)) + (k + 1) <= n
        <4>1. Cardinality(left(k)) \in Nat /\ Cardinality(left(k + 1)) \in Nat
          BY <1>3
        <4> HIDE DEF left
        <4> QED  BY <1>1, <3>5, <3>6, <4>1
      <3> QED  BY <2>3, <3>7
    <2> QED  BY <2>4, <2>5
  <1>7. n \in T
    <2> HIDE DEF T
    <2> QED  BY <1>1, <1>5, <1>6, SetInduction
  <1>8. left(n) = {}
    <2>1. left(n) = {} \/ Cardinality(left(n)) + n <= n
      BY <1>1, <1>7
    <2>2. Cardinality(left(n)) = 0 => left(n) = {}
      BY <1>3, FS_EmptySet
    <2>3. Cardinality(left(n)) \in Nat
      BY <1>3
    <2> HIDE DEF left
    <2> QED  BY <1>1, <2>1, <2>2, <2>3
  <1> QED  BY <1>8

\* The chain of the property reaches what Replaced speaks of.
LEMMA ReplacedIsEnough ==
    ASSUME ProjectOK(project), Replaced(project)
    PROVE  ArchivedReplaced
  <1> DEFINE n == Cardinality(Slugs)
             Good(L) == L = [k \in 0..n |->
                IF k = 0 THEN DOMAIN project.drafts \cup {a.slug : a \in {x \in project.archived : x.heirs = {}}}
                ELSE L[k - 1] \cup {a.slug : a \in {x \in project.archived : x.heirs \cap L[k - 1] # {}}}]
             Leads == CHOOSE L : Good(L)
  <1>1. PICK p : p = project
    OBVIOUS
  <1>2. n \in Nat
    BY SlugsAreFinite
  <1>3. \A L : Good(L) <=> Chain(L, p, n)
    BY <1>1 DEF Chain, Base, LeadBack
  <1>4. \E L : Chain(L, p, n)
    <2> HIDE DEF n
    <2> QED  BY <1>1, <1>2, ChainExists
  <1>5. Chain(Leads, p, n)
    <2>1. \E L : Good(L)
      BY <1>3, <1>4
    <2>2. Good(Leads)
      <3> HIDE DEF Good
      <3> QED  BY <2>1
    <2> QED  BY <1>3, <2>2
  <1>6. PICK L : L = Leads
    OBVIOUS
  <1>7. \A a \in p.archived : a.slug \in L[n]
    <2>1. Chain(L, p, n)
      BY <1>5, <1>6
    <2> QED  BY <1>1, <2>1, ChainCovers
  <1> QED  BY <1>1, <1>6, <1>7 DEF ArchivedReplaced

-----------------------------------------------------------------------------
(* What every command's operations are like.                               *)

\* A report follows the mark in the manifest.
Marked(ops) ==
    \A i \in 1..Len(ops) : ops[i].op = "mirror" =>
        \E j \in 1..Len(ops) : j < i /\ ops[j].op = "mark" /\ ops[j].pass = ops[i].pass

\* The file of slug s is written by operation j and still there after operation i.
Stands(ops, s, j, i) ==
    /\ j <= i /\ ops[j].op = "put" /\ ops[j].slug = s
    /\ \A m \in 1..Len(ops) : j <= m /\ m <= i => ~(ops[m].op = "retire" /\ ops[m].slug = s)

\* What replaces a draft was written before the draft is moved away.
Backed(ops) ==
    \A i \in 1..Len(ops) : ops[i].op = "retire" =>
        \A s \in ops[i].heirs : \E j \in 1..Len(ops) : j < i /\ Stands(ops, s, j, i)

Orderly(ops) ==
    /\ Listed(ops) /\ \A i \in 1..Len(ops) : OpOK(ops[i])
    /\ Marked(ops) /\ Backed(ops)

\* Orderly lists stay orderly one after the other.
LEMMA OrderlyJoined ==
    ASSUME NEW a, NEW b, Orderly(a), Orderly(b)
    PROVE  Orderly(a \o b)
  <1> DEFINE c == a \o b
             m == Len(a)
  <1>1. /\ Listed(c) /\ Len(c) = m + Len(b)
        /\ \A i \in 1..m : c[i] = a[i]
        /\ \A i \in 1..Len(b) : c[m + i] = b[i]
        /\ \A i \in 1..Len(c) : i \in 1..m \/ i - m \in 1..Len(b)
        /\ m \in Nat /\ Len(b) \in Nat
    BY Joined DEF Orderly, Listed
  <1> HIDE DEF c, m
  <1>2. \A i \in 1..Len(c) : i \notin 1..m => i - m \in 1..Len(b) /\ c[i] = b[i - m]
    <2> TAKE i \in 1..Len(c)
    <2> SUFFICES ASSUME i \notin 1..m PROVE i - m \in 1..Len(b) /\ c[i] = b[i - m]
      OBVIOUS
    <2>1. PICK k \in 1..Len(b) : k = i - m
      BY <1>1
    <2>2. i = m + k
      BY <1>1, <2>1
    <2> QED  BY <1>1, <2>1, <2>2
  <1>3. \A i \in 1..Len(c) : OpOK(c[i])
    BY <1>1, <1>2 DEF Orderly, m
  <1>4. Marked(c)
    <2> SUFFICES ASSUME NEW i \in 1..Len(c), c[i].op = "mirror"
                 PROVE  \E j \in 1..Len(c) : j < i /\ c[j].op = "mark" /\ c[j].pass = c[i].pass
      BY DEF Marked
    <2>1. CASE i \in 1..m
      <3>1. PICK j \in 1..m : j < i /\ a[j].op = "mark" /\ a[j].pass = a[i].pass
        BY <1>1, <2>1 DEF Orderly, Marked, m
      <3> QED  BY <1>1, <2>1, <3>1
    <2>2. CASE i \notin 1..m
      <3>1. i - m \in 1..Len(b) /\ c[i] = b[i - m]
        BY <1>2, <2>2
      <3>2. PICK j \in 1..Len(b) : j < i - m /\ b[j].op = "mark" /\ b[j].pass = b[i - m].pass
        BY <3>1 DEF Orderly, Marked
      <3>3. m + j \in 1..Len(c) /\ m + j < i /\ c[m + j] = b[j]
        BY <1>1, <3>1, <3>2
      <3> QED  BY <3>1, <3>2, <3>3
    <2> QED  BY <2>1, <2>2
  <1>5. Backed(c)
    <2> SUFFICES ASSUME NEW i \in 1..Len(c), c[i].op = "retire", NEW s \in c[i].heirs
                 PROVE  \E j \in 1..Len(c) : j < i /\ Stands(c, s, j, i)
      BY DEF Backed
    <2>1. CASE i \in 1..m
      <3>1. c[i] = a[i]
        BY <1>1, <2>1
      <3>2. PICK j \in 1..m : j < i /\ Stands(a, s, j, i)
        BY <2>1, <3>1 DEF Orderly, Backed, m
      <3>3. \A k \in 1..Len(c) : j <= k /\ k <= i => k \in 1..m /\ c[k] = a[k]
        <4>1. m \in Nat /\ Len(c) \in Nat /\ \A k \in 1..m : c[k] = a[k]
          BY <1>1
        <4>2. \A k \in 1..Len(c) : k <= i => k \in 1..m
          BY ONLY <2>1, <4>1, i \in 1..Len(c)
        <4> QED  BY ONLY <4>1, <4>2
      <3>4. Stands(c, s, j, i) /\ j \in 1..Len(c)
        <4>1. /\ j <= i /\ a[j].op = "put" /\ a[j].slug = s
              /\ \A k \in 1..m : j <= k /\ k <= i => ~(a[k].op = "retire" /\ a[k].slug = s)
          BY ONLY <3>2 DEF Stands, m
        <4>2. j \in 1..Len(c) /\ c[j] = a[j]
          BY ONLY <1>1, <3>2
        <4> QED  BY ONLY <3>3, <4>1, <4>2 DEF Stands
      <3> QED  BY <3>2, <3>4
    <2>2. CASE i \notin 1..m
      <3>1. i - m \in 1..Len(b) /\ c[i] = b[i - m]
        BY <1>2, <2>2
      <3>2. PICK j \in 1..Len(b) : j < i - m /\ Stands(b, s, j, i - m)
        BY <3>1 DEF Orderly, Backed
      <3>3. m + j \in 1..Len(c) /\ m + j < i /\ c[m + j] = b[j]
        BY <1>1, <3>1, <3>2
      <3>4. \A k \in 1..Len(c) : m + j <= k /\ k <= i =>
              k - m \in 1..Len(b) /\ j <= k - m /\ k - m <= i - m /\ c[k] = b[k - m]
        <4> TAKE k \in 1..Len(c)
        <4> SUFFICES ASSUME m + j <= k, k <= i
                     PROVE  k - m \in 1..Len(b) /\ j <= k - m /\ k - m <= i - m /\ c[k] = b[k - m]
          OBVIOUS
        <4>1. k \notin 1..m
          BY <1>1
        <4> QED  BY <1>1, <1>2, <4>1
      <3>5. Stands(c, s, m + j, i)
        BY <3>2, <3>3, <3>4 DEF Stands
      <3> QED  BY <3>3, <3>5
    <2> QED  BY <2>1, <2>2
  <1> QED  BY <1>1, <1>3, <1>4, <1>5 DEF Orderly, c

\* A list that moves nothing away and reports nothing.
LEMMA QuietIsOrderly ==
    ASSUME NEW ops, Listed(ops),
           \A i \in 1..Len(ops) : OpOK(ops[i]) /\ ops[i].op \notin {"mirror", "retire"}
    PROVE  Orderly(ops)
  BY DEF Orderly, Marked, Backed

-----------------------------------------------------------------------------
(* The world after the first operations of a command.                      *)

Told(w) == \A p \in Passes : w.job.passes[p] = "completed" => p \in w.project.done

\* What holds after i operations.
HoldsAfter(w, ops, i) ==
    /\ WorldOK(w) /\ Told(w) /\ Replaced(w.project)
    /\ project.done \subseteq w.project.done
    /\ \A j \in 1..Len(ops) : j <= i /\ ops[j].op = "mark" => ops[j].pass \in w.project.done
    /\ \A s \in Slugs, j \in 1..Len(ops) : Stands(ops, s, j, i) => s \in DOMAIN w.project.drafts

\* One more operation of an orderly list.
LEMMA HoldsNext ==
    ASSUME NEW ops, Orderly(ops), NEW i \in 1..Len(ops), NEW w, HoldsAfter(w, ops, i - 1)
    PROVE  HoldsAfter(Apply(w, ops[i]), ops, i)
  <1> DEFINE o == ops[i]
             v == Apply(w, o)
  <1>1. WorldOK(w) /\ OpOK(o)
    BY DEF HoldsAfter, Orderly
  <1>2. Len(ops) \in Nat
    BY DEF Orderly, Listed
  <1>3. \A j \in 1..Len(ops) : j <= i => j <= i - 1 \/ j = i
    BY <1>2
  \* A file that stands was there before, if it is not the one just written.
  <1>4. ASSUME NEW s \in Slugs, NEW j \in 1..Len(ops), Stands(ops, s, j, i)
        PROVE  \/ j = i /\ o.op = "put" /\ o.slug = s
               \/ s \in DOMAIN w.project.drafts /\ ~(o.op = "retire" /\ o.slug = s)
    <2>1. CASE j = i
      BY <1>4, <2>1 DEF Stands
    <2>2. CASE j # i
      <3>1. j <= i - 1 /\ ~(o.op = "retire" /\ o.slug = s)
        BY <1>2, <1>3, <1>4, <2>2 DEF Stands
      <3>2. Stands(ops, s, j, i - 1)
        BY <1>2, <1>4, <3>1 DEF Stands
      <3> QED  BY <3>1, <3>2 DEF HoldsAfter
    <2> QED  BY <2>1, <2>2
  <1> HIDE DEF v, o
  <1>5. CASE o.op \in {"home", "manifest", "source", "bind", "seed", "write", "copy"}
    <2>1. WorldOK(v) /\ Same(w, v)
      BY <1>1, <1>5, Simple DEF v
    <2>2. Told(v) /\ Replaced(v.project)
      BY <2>1, MoreDrafts DEF Same, Told, HoldsAfter
    <2>3. \A j \in 1..Len(ops) : j <= i /\ ops[j].op = "mark" => ops[j].pass \in v.project.done
      BY <1>3, <1>5, <2>1 DEF HoldsAfter, Same, o
    <2> QED  BY <1>4, <1>5, <2>1, <2>2, <2>3 DEF HoldsAfter, Same, v, o
  <1>6. CASE o.op = "put"
    <2>1. WorldOK(v) /\ v.project.archived = w.project.archived /\ v.project.done = w.project.done /\ v.job = w.job
      BY <1>1, <1>6, Putting DEF v
    <2>2. DOMAIN v.project.drafts = DOMAIN w.project.drafts \cup {o.slug}
      <3>1. v.project.drafts = With(w.project.drafts, o.slug, o.draft)
        BY <1>1, <1>6, Putting DEF v
      <3> QED  BY <3>1 DEF With
    <2>3. Told(v) /\ Replaced(v.project)
      BY <2>1, <2>2, MoreDrafts DEF Told, HoldsAfter
    <2>4. \A j \in 1..Len(ops) : j <= i /\ ops[j].op = "mark" => ops[j].pass \in v.project.done
      BY <1>3, <1>6, <2>1 DEF HoldsAfter, o
    <2> QED  BY <1>4, <2>1, <2>2, <2>3, <2>4 DEF HoldsAfter, v, o
  <1>7. CASE o.op = "retire"
    <2>1. /\ WorldOK(v) /\ v.project.done = w.project.done /\ v.job = w.job
          /\ \/ v = w /\ o.slug \notin DOMAIN w.project.drafts
             \/ /\ DOMAIN v.project.drafts = DOMAIN w.project.drafts \ {o.slug}
                /\ v.project.archived = {a \in w.project.archived : a.slug # o.slug}
                                        \cup {[slug |-> o.slug, heirs |-> o.heirs]}
      BY <1>1, <1>7, Retiring DEF v
    <2>2. o.slug \in Slugs /\ o.heirs \subseteq Slugs \ {o.slug}
      BY <1>1, <1>7 DEF OpOK
    <2>3. o.heirs \subseteq DOMAIN w.project.drafts \ {o.slug}
      <3> SUFFICES ASSUME NEW s \in o.heirs PROVE s \in DOMAIN w.project.drafts
        BY <2>2
      <3>1. PICK j \in 1..Len(ops) : j < i /\ Stands(ops, s, j, i)
        BY <1>7 DEF Orderly, Backed, o
      <3> QED  BY <1>2, <1>4, <2>2, <3>1
    <2>4. Told(v)
      BY <2>1 DEF Told, HoldsAfter
    <2>5. Replaced(v.project)
      <3>1. CASE v = w
        BY <3>1 DEF HoldsAfter
      <3>2. CASE /\ DOMAIN v.project.drafts = DOMAIN w.project.drafts \ {o.slug}
                 /\ v.project.archived = {a \in w.project.archived : a.slug # o.slug}
                                         \cup {[slug |-> o.slug, heirs |-> o.heirs]}
        <4>1. Replaced(w.project) /\ DOMAIN w.project.drafts \subseteq Slugs
          BY DEF HoldsAfter, WorldOK, ProjectOK
        <4> QED  BY <2>2, <2>3, <3>2, <4>1, Retired1
      <3> QED  BY <2>1, <3>1, <3>2
    <2>6. \A j \in 1..Len(ops) : j <= i /\ ops[j].op = "mark" => ops[j].pass \in v.project.done
      BY <1>3, <1>7, <2>1 DEF HoldsAfter, o
    <2>7. \A s \in Slugs, j \in 1..Len(ops) : Stands(ops, s, j, i) => s \in DOMAIN v.project.drafts
      BY <1>4, <1>7, <2>1
    <2> QED  BY <2>1, <2>4, <2>5, <2>6, <2>7 DEF HoldsAfter, v, o
  <1>8. CASE o.op = "mark"
    <2>1. /\ WorldOK(v) /\ v.job = w.job /\ v.project.done = w.project.done \cup {o.pass}
          /\ v.project.drafts = w.project.drafts /\ v.project.archived = w.project.archived
      BY <1>1, <1>8, Marking DEF v
    <2>2. Told(v) /\ Replaced(v.project)
      BY <2>1, MoreDrafts DEF Told, HoldsAfter
    <2>3. \A j \in 1..Len(ops) : j <= i /\ ops[j].op = "mark" => ops[j].pass \in v.project.done
      BY <1>3, <2>1 DEF HoldsAfter, o
    <2> QED  BY <1>4, <1>8, <2>1, <2>2, <2>3 DEF HoldsAfter, v, o
  <1>9. CASE o.op = "mirror"
    <2>1. /\ WorldOK(v) /\ v.project = w.project
          /\ \A p \in Passes : v.job.passes[p] = "completed" => p = o.pass \/ w.job.passes[p] = "completed"
      BY <1>1, <1>9, Mirroring DEF v
    <2>2. o.pass \in w.project.done
      <3>1. PICK j \in 1..Len(ops) : j < i /\ ops[j].op = "mark" /\ ops[j].pass = o.pass
        BY <1>9 DEF Orderly, Marked, o
      <3> QED  BY <1>2, <3>1 DEF HoldsAfter
    <2>3. Told(v)
      BY <2>1, <2>2 DEF Told, HoldsAfter
    <2>4. \A j \in 1..Len(ops) : j <= i /\ ops[j].op = "mark" => ops[j].pass \in v.project.done
      BY <1>3, <1>9, <2>1 DEF HoldsAfter, o
    <2> QED  BY <1>4, <1>9, <2>1, <2>3, <2>4 DEF HoldsAfter, v, o
  <1>10. o.op \in {"home", "manifest", "source", "bind", "seed", "write", "copy", "put", "retire", "mark", "mirror"}
    BY <1>1 DEF OpOK
  <1> QED  BY <1>5, <1>6, <1>7, <1>8, <1>9, <1>10

-----------------------------------------------------------------------------
(* Every command keeps the invariant.                                      *)

PipelineInv ==
    /\ PipelineTypeOK /\ ProjectOK(project) /\ job \in JobRow
    /\ MirrorFollowsManifest /\ Told(World) /\ Replaced(project)

\* Before the first operation.
LEMMA WorldHolds ==
    ASSUME PipelineInv, NEW ops, Orderly(ops)
    PROVE  HoldsAfter(World, ops, 0)
  <1>1. WorldOK(World)
    BY DEF PipelineInv, WorldOK, World
  <1>2. Told(World) /\ Replaced(World.project)
    BY DEF PipelineInv, World
  <1>3. \A j \in 1..Len(ops) : ~(j <= 0)
    BY DEF Orderly, Listed
  <1> QED  BY <1>1, <1>2, <1>3 DEF HoldsAfter, Stands, World

\* After any of the operations a command carries out.
LEMMA WorldsHold ==
    ASSUME PipelineInv, NEW pass, NEW ops, Orderly(ops), NEW k, NEW torn, NEW h, Cut(pass, ops, k, torn, h)
    PROVE  k \in Nat /\ k <= Len(ops) /\ \A i \in 0..k : HoldsAfter(h[i], ops, i)
  <1>1. Len(ops) \in Nat
    BY DEF Orderly, Listed
  <1>2. k \in Nat /\ k <= Len(ops)
    <2>1. k \in 0..Len(ops)
      BY Zenon DEF Cut
    <2> QED  BY <1>1, <2>1
  <1> DEFINE T == {i \in Nat : i <= k => HoldsAfter(h[i], ops, i)}
  <1>3. 0 \in T
    BY WorldHolds DEF Cut
  <1>4. ASSUME NEW i \in T \cap Nat PROVE i + 1 \in T
    <2> SUFFICES ASSUME i + 1 <= k PROVE HoldsAfter(h[i + 1], ops, i + 1)
      OBVIOUS
    <2>1. i <= k /\ i + 1 \in 1..k /\ i + 1 \in 1..Len(ops) /\ (i + 1) - 1 = i
      BY <1>1, <1>2, <1>4
    <2>2. HoldsAfter(h[i], ops, i)
      BY <1>4, <2>1
    <2>3. h[i + 1] = Apply(h[i], ops[i + 1])
      BY <2>1 DEF Cut
    <2>4. PICK n \in 1..Len(ops) : n = i + 1 /\ n - 1 = i
      BY <2>1
    <2> HIDE DEF T
    <2>5. HoldsAfter(Apply(h[i], ops[n]), ops, n)
      BY <2>2, <2>4, HoldsNext
    <2> QED  BY <2>3, <2>4, <2>5
  <1>5. ASSUME NEW i \in 0..k PROVE HoldsAfter(h[i], ops, i)
    <2>1. i \in Nat /\ i <= k
      BY <1>2
    <2>2. i \in T
      <3> HIDE DEF T
      <3> QED  BY <2>1, <1>3, <1>4, SetInduction
    <2> QED  BY <2>1, <2>2
  <1> QED  BY <1>2, <1>5

\* Orderly operations keep the invariant, whole or cut short.
LEMMA Kept ==
    ASSUME PipelineInv, NEW pass, NEW ops, Orderly(ops), Execute(pass, ops)
    PROVE  PipelineInv'
  <1>1. Len(ops) \in Nat
    BY DEF Orderly, Listed
  <1>2. PICK k, torn, h : Cut(pass, ops, k, torn, h)
    BY <1>1, Carried
  <1>3. k \in Nat /\ k <= Len(ops) /\ \A i \in 0..k : HoldsAfter(h[i], ops, i)
    BY <1>2, WorldsHold
  <1>4. HoldsAfter(h[k], ops, k)
    BY <1>3
  <1>5. PICK w : w = Left(h, k, torn, ops)
    OBVIOUS
  <1>6. WorldOK(w) /\ Told(w) /\ Replaced(w.project) /\ project.done \subseteq w.project.done
    <2>1. CASE torn = FALSE
      BY <1>4, <1>5, <2>1 DEF HoldsAfter, Left
    <2>2. CASE torn = TRUE
      <3>1. PICK v, o : v = h[k] /\ o = ops[k + 1]
        OBVIOUS
      <3>2. k + 1 \in 1..Len(ops)
        BY <1>1, <1>2, <1>3, <2>2 DEF Cut
      <3>3. WorldOK(v) /\ OpOK(o)
        BY <1>4, <3>1, <3>2 DEF HoldsAfter, Orderly
      <3>4. w = Tear(v, o)
        BY <1>5, <2>2, <3>1 DEF Left
      <3>5. /\ WorldOK(w) /\ w.job = v.job /\ w.project.done = v.project.done
            /\ w.project.archived = v.project.archived
            /\ DOMAIN v.project.drafts \subseteq DOMAIN w.project.drafts
        BY <3>3, <3>4, Tearing
      <3>6. Told(v) /\ Replaced(v.project) /\ project.done \subseteq v.project.done
        BY <1>4, <3>1 DEF HoldsAfter
      <3> QED  BY <3>5, <3>6, MoreDrafts DEF Told
    <2>3. torn \in BOOLEAN
      BY <1>2, Zenon DEF Cut
    <2> QED  BY <2>1, <2>2, <2>3
  <1>7. project' = w.project /\ job' \in {job, w.job}
    BY <1>2, <1>5 DEF Cut
  <1>8. ProjectOK(project') /\ Replaced(project')
    BY <1>6, <1>7 DEF WorldOK
  <1>9. job' \in JobRow
    BY <1>6, <1>7 DEF WorldOK, PipelineInv
  <1>10. \A p \in Passes : job'.passes[p] = "completed" => p \in project'.done
    <2>1. \A p \in Passes : job.passes[p] = "completed" => p \in project.done
      BY DEF PipelineInv, Told, World
    <2> QED  BY <1>6, <1>7, <2>1 DEF Told
  <1>11. PipelineTypeOK'
    <2>1. commands' \in 0..MaxCommands /\ crashes' \in 0..MaxCrashes
      <3>1. /\ commands < MaxCommands /\ commands' = commands + 1
            /\ crashes' = crashes \/ (crashes < MaxCrashes /\ crashes' = crashes + 1)
        BY <1>1, Carried
      <3>2. commands \in 0..MaxCommands /\ crashes \in 0..MaxCrashes
        BY DEF PipelineInv, PipelineTypeOK
      <3>3. MaxCommands \in Nat /\ MaxCrashes \in Nat
        BY PipelineAssumption
      <3> QED  BY ONLY <3>1, <3>2, <3>3
    <2> QED  BY <1>8, <2>1 DEF PipelineTypeOK, ProjectOK
  <1>12. World'.job = job' /\ World'.project = project'
    BY DEF World
  <1> QED  BY <1>8, <1>9, <1>10, <1>11, <1>12 DEF PipelineInv, MirrorFollowsManifest, Told, ProjectOK, Replaced, Base, Enclosed

-----------------------------------------------------------------------------
(* Choosing from a sequence.                                               *)

NoneTwice(s) == \A i, j \in 1..Len(s) : s[i] = s[j] => i = j

\* What is chosen from a sequence, and that nothing is chosen twice.
LEMMA OnlyKeeps ==
    ASSUME NEW T, NEW s \in Seq(T), NEW S
    PROVE  Only(s, S) \in Seq(T \cap S) /\ (NoneTwice(s) => NoneTwice(Only(s, S)))
  <1>1. PICK top \in Nat : top = Len(s)
    OBVIOUS
  <1> DEFINE Q == Seq(T \cap S)
             start == <<>>
             Add(i, r) == IF i \in 1..top /\ s[i] \in S THEN Append(r, s[i]) ELSE r
             F == [i \in Nat |-> [r \in Q |-> Add(i, r)]]
             Good(K) == K = [i \in 0..Len(s) |->
                                IF i = 0 THEN <<>> ELSE IF s[i] \in S THEN Append(K[i - 1], s[i]) ELSE K[i - 1]]
  <1>2. \A i \in Nat, r \in Q : Add(i, r) \in Q
    <2>1. ASSUME NEW i \in 1..top, NEW r \in Q, s[i] \in S PROVE Append(r, s[i]) \in Q
      <3>1. s[i] \in T \cap S
        BY <1>1, <2>1
      <3> QED  BY <3>1, AppendProperties
    <2> QED  BY <2>1
  <1>3. start \in Q /\ F \in [Nat -> [Q -> Q]]
    <2> HIDE DEF Add
    <2> QED  BY <1>2
  <1>4. PICK h \in [0..top -> Q] : h[0] = start /\ \A k \in 1..top : h[k] = F[k][h[k - 1]]
    <2> HIDE DEF Q, F, start
    <2>1. Iterations(Q, start, F, top) # {}
      BY <1>3, IterationsExist
    <2> QED  BY <2>1 DEF Iterations
  <1>5. \A i \in 1..top : h[i] = Add(i, h[i - 1])
    <2>1. \A i \in 1..top : i \in Nat /\ h[i - 1] \in Q
      OBVIOUS
    <2> HIDE DEF Add, Q
    <2> QED  BY <1>4, <2>1
  <1>6. Good(h)
    <2>1. ASSUME NEW i \in 0..Len(s)
          PROVE  h[i] = IF i = 0 THEN <<>> ELSE IF s[i] \in S THEN Append(h[i - 1], s[i]) ELSE h[i - 1]
      <3> HIDE DEF F, Q
      <3>1. CASE i = 0
        BY <1>4, <3>1
      <3>2. CASE i # 0
        <4>1. i \in 1..top
          BY <1>1, <3>2
        <4>2. h[i] = Add(i, h[i - 1])
          BY <1>5, <4>1
        <4> QED  BY <3>2, <4>1, <4>2
      <3> QED  BY <3>1, <3>2
    <2> HIDE DEF Q
    <2> QED  BY <1>1, <1>4, <2>1
  <1> DEFINE K == CHOOSE g : Good(g)
  <1>7. Good(K)
    BY <1>6
  <1>8. Only(s, S) = K[top]
    <2>1. Only(s, S) = K[Len(s)]
      BY DEF Only
    <2> QED  BY <1>1, <2>1
  <1> HIDE DEF K
  <1>9. K[0] = <<>> /\ \A i \in 1..top : K[i] = IF s[i] \in S THEN Append(K[i - 1], s[i]) ELSE K[i - 1]
    <2>1. \A i \in 0..Len(s) : K[i] = IF i = 0 THEN <<>> ELSE IF s[i] \in S THEN Append(K[i - 1], s[i]) ELSE K[i - 1]
      BY <1>7
    <2>2. \A i \in 1..top : i \in 0..Len(s) /\ i # 0
      BY <1>1
    <2>3. 0 \in 0..Len(s)
      BY <1>1
    <2> QED  BY <2>1, <2>2, <2>3
  <1> DEFINE Kept1(i) == /\ K[i] \in Seq(T \cap S) /\ (NoneTwice(s) => NoneTwice(K[i]))
                         /\ \A k \in 1..Len(K[i]) : \E j \in 1..i : K[i][k] = s[j]
             N == {i \in Nat : i <= top => Kept1(i)}
  <1>10. 0 \in N
    <2>1. Kept1(0)
      BY <1>9 DEF NoneTwice
    <2> QED  BY <2>1
  <1>11. ASSUME NEW i \in N \cap Nat PROVE i + 1 \in N
    <2> SUFFICES ASSUME i + 1 <= top PROVE Kept1(i + 1)
      <3> HIDE DEF Kept1
      <3> QED  BY <1>1, <1>11
    <2>1. Kept1(i)
      <3> HIDE DEF Kept1
      <3> QED  BY <1>1, <1>11
    <2>2. K[i + 1] = IF s[i + 1] \in S THEN Append(K[i], s[i + 1]) ELSE K[i]
      BY <1>1, <1>9
    <2>3. CASE s[i + 1] \notin S
      BY <2>1, <2>2, <2>3
    <2>4. CASE s[i + 1] \in S
      <3> DEFINE r == K[i]
                 x == s[i + 1]
      <3>1. x \in T \cap S /\ i + 1 \in 1..Len(s)
        BY <1>1, <2>4
      <3>2. r \in Seq(T \cap S) /\ Len(r) \in Nat
        BY <2>1
      <3>3. /\ K[i + 1] = Append(r, x) /\ Append(r, x) \in Seq(T \cap S) /\ Len(Append(r, x)) = Len(r) + 1
            /\ \A k \in 1..Len(r) : Append(r, x)[k] = r[k]
            /\ Append(r, x)[Len(r) + 1] = x
        BY <2>2, <2>4, <3>1, <3>2, AppendProperties
      <3>4. \A k \in 1..Len(r) : \E j \in 1..i : r[k] = s[j]
        BY <2>1
      <3>5. NoneTwice(s) => \A k \in 1..Len(r) : r[k] # x
        <4>1. \A j \in 1..i : j \in 1..Len(s) /\ j # i + 1
          BY <1>1, <3>1
        <4>2. NoneTwice(s) => \A j \in 1..i : s[j] # s[i + 1]
          BY <3>1, <4>1 DEF NoneTwice
        <4> QED  BY <3>4, <4>2
      <3>6. NoneTwice(s) => NoneTwice(r)
        BY <2>1
      <3>10. i + 1 \in 1..i + 1 /\ \A j \in 1..i : j \in 1..i + 1
        OBVIOUS
      <3> HIDE DEF r, x
      <3>7. \A k \in 1..Len(r) + 1 : k \in 1..Len(r) \/ k = Len(r) + 1
        <4>1. \A m \in Nat : \A k \in 1..m + 1 : k \in 1..m \/ k = m + 1
          OBVIOUS
        <4>2. Len(r) \in Nat
          BY <3>2
        <4> QED  BY <4>1, <4>2
      <3>8. NoneTwice(s) => NoneTwice(Append(r, x))
        BY <3>2, <3>3, <3>5, <3>6, <3>7 DEF NoneTwice
      <3>9. \A k \in 1..Len(r) + 1 : \E j \in 1..i + 1 : Append(r, x)[k] = s[j]
        <4>1. x = s[i + 1]
          BY DEF x
        <4> QED  BY <3>3, <3>4, <3>7, <3>10, <4>1
      <3>11. K[i + 1] = Append(r, x) /\ Len(K[i + 1]) = Len(r) + 1
        BY <3>3
      <3>12. K[i + 1] \in Seq(T \cap S) /\ (NoneTwice(s) => NoneTwice(K[i + 1]))
        BY <3>3, <3>8, <3>11
      <3>13. \A k \in 1..Len(K[i + 1]) : \E j \in 1..i + 1 : K[i + 1][k] = s[j]
        BY <3>9, <3>11
      <3> QED  BY <3>12, <3>13
    <2> QED  BY <2>3, <2>4
  <1>12. Kept1(top)
    <2>1. top \in N
      <3> HIDE DEF N
      <3> QED  BY <1>1, <1>10, <1>11, SetInduction
    <2> QED  BY <1>1, <2>1
  <1> QED  BY <1>8, <1>12

\* The files of a set in order: only files of the set, each once.
LEMMA InOrderFacts ==
    ASSUME NEW S
    PROVE  InOrder(S) \in Seq(Slugs \cap S) /\ NoneTwice(InOrder(S))
  <1>1. Order \in Seq(Slugs) /\ NoneTwice(Order)
    <2>1. Order \in Seq(Slugs) /\ \A i, j \in DOMAIN Order : Order[i] = Order[j] => i = j
      BY PipelineAssumption
    <2>2. DOMAIN Order = 1..Len(Order)
      BY <2>1
    <2> QED  BY <2>1, <2>2 DEF NoneTwice
  <1>2. Only(Order, S) \in Seq(Slugs \cap S) /\ (NoneTwice(Order) => NoneTwice(Only(Order, S)))
    BY <1>1, OnlyKeeps
  <1> QED  BY <1>1, <1>2 DEF InOrder

\* The readable files are files.
LEMMA ReadableFacts ==
    ASSUME NEW files, NEW S
    PROVE  Readable(files, S) \in Seq(Slugs \cap S)
  <1>1. PICK all : all = InOrder(S)
    OBVIOUS
  <1>2. all \in Seq(Slugs \cap S) /\ Len(all) \in Nat
    BY <1>1, InOrderFacts
  <1> DEFINE torn == {i \in DOMAIN all : files[all[i]] = Torn}
  <1>3. CASE torn = {}
    BY <1>1, <1>2, <1>3 DEF Readable
  <1>4. CASE torn # {}
    <2>1. torn \subseteq Nat
      BY <1>2
    <2>2. \E m \in torn : \A j \in torn : m <= j
      <3> HIDE DEF torn
      <3> QED  BY <1>4, <2>1, LeastNatural
    <2>3. PICK m \in torn : m = CHOOSE i \in torn : \A j \in torn : i <= j
      <3> HIDE DEF torn
      <3> QED  BY <2>2
    <2>4. m \in 1..Len(all)
      BY <1>2
    <2>5. Readable(files, S) = SubSeq(all, 1, m - 1)
      BY <1>1, <1>4, <2>3 DEF Readable
    <2>6. SubSeq(all, 1, m - 1) \in Seq(Slugs \cap S)
      BY <1>2, <2>4
    <2> QED  BY <2>5, <2>6
  <1> QED  BY <1>3, <1>4

-----------------------------------------------------------------------------
(* The operations of the commands.                                         *)

\* No operations at all.
LEMMA NothingIsOrderly == Orderly(<<>>)
  BY DEF Orderly, Listed, Marked, Backed

\* One operation.
LEMMA OneIsOrderly ==
    ASSUME NEW o, OpOK(o), o.op \notin {"mirror", "retire"}
    PROVE  Orderly(<<o>>)
  <1>1. Listed(<<o>>) /\ Len(<<o>>) = 1 /\ <<o>>[1] = o
    BY DEF Listed
  <1> QED  BY <1>1, QuietIsOrderly

\* The mark, and the report after it.
LEMMA MarkIsOrderly ==
    ASSUME NEW pass \in Passes
    PROVE  Orderly(MarkSteps(pass))
  <1>1. PICK a, b : a = [op |-> "mark", pass |-> pass] /\ b = [op |-> "mirror", pass |-> pass]
    OBVIOUS
  <1>2. OpOK(a) /\ OpOK(b) /\ a.op = "mark" /\ b.op = "mirror" /\ a.pass = pass /\ b.pass = pass
    BY <1>1 DEF OpOK
  <1>3. MarkSteps(pass) = <<a>> \o <<b>> \/ MarkSteps(pass) = <<a>> \o <<>>
    BY <1>1 DEF MarkSteps
  <1>4. <<a>> \o <<b>> = <<a, b>> /\ <<a>> \o <<>> = <<a>>
    <2>1. PICK x, y, z : x = <<a>> /\ y = <<b>> /\ z = <<>>
      OBVIOUS
    <2>2. Listed(x) /\ Len(x) = 1 /\ x[1] = a /\ Listed(y) /\ Len(y) = 1 /\ y[1] = b /\ Listed(z) /\ Len(z) = 0
      BY <2>1 DEF Listed
    <2>3. PICK v, w : v = x \o y /\ w = x \o z
      OBVIOUS
    <2>4. Listed(v) /\ Len(v) = 2 /\ v[1] = a /\ v[2] = b
      <3>1. /\ Listed(v) /\ Len(v) = Len(x) + Len(y)
            /\ \A i \in 1..Len(x) : v[i] = x[i]
            /\ \A i \in 1..Len(y) : v[Len(x) + i] = y[i]
        <4>1. /\ Listed(x \o y) /\ Len(x \o y) = Len(x) + Len(y)
              /\ \A i \in 1..Len(x) : (x \o y)[i] = x[i]
              /\ \A i \in 1..Len(y) : (x \o y)[Len(x) + i] = y[i]
          BY <2>2, Joined
        <4> QED  BY <2>3, <4>1
      <3>2. PICK k \in 1..Len(y) : k = 1 /\ Len(x) + k = 2
        BY <2>2
      <3>3. v[Len(x) + k] = y[k]
        BY <3>1
      <3>4. v[2] = b
        BY <2>2, <3>2, <3>3
      <3> QED  BY <2>2, <3>1, <3>4
    <2>5. Listed(w) /\ Len(w) = 1 /\ w[1] = a
      <3>1. /\ Listed(w) /\ Len(w) = Len(x) + Len(z)
            /\ \A i \in 1..Len(x) : w[i] = x[i]
        BY <2>2, <2>3, Joined
      <3> QED  BY <2>2, <3>1
    <2>6. v = <<a, b>>
      <3>1. PICK ab : ab = <<a, b>>
        OBVIOUS
      <3>2. Listed(ab) /\ Len(ab) = 2 /\ ab[1] = a /\ ab[2] = b
        BY <3>1 DEF Listed
      <3>3. \A i \in 1..2 : v[i] = ab[i]
        BY <2>4, <3>2
      <3>4. v = [i \in 1..2 |-> v[i]] /\ ab = [i \in 1..2 |-> ab[i]]
        BY <2>4, <3>2 DEF Listed
      <3> QED  BY <3>1, <3>3, <3>4
    <2>7. w = x
      <3>1. \A i \in 1..1 : w[i] = x[i]
        BY <2>2, <2>5
      <3>2. w = [i \in 1..1 |-> w[i]] /\ x = [i \in 1..1 |-> x[i]]
        BY <2>2, <2>5 DEF Listed
      <3> QED  BY <3>1, <3>2
    <2> QED  BY <2>1, <2>3, <2>6, <2>7
  <1>5. Orderly(<<a>>)
    BY <1>2, OneIsOrderly
  <1>6. Orderly(<<a, b>>)
    <2>1. PICK ops : ops = <<a, b>>
      OBVIOUS
    <2>2. Listed(ops) /\ Len(ops) = 2 /\ ops[1] = a /\ ops[2] = b
      BY <2>1 DEF Listed
    <2>3. \A i \in 1..Len(ops) : i = 1 \/ i = 2
      BY <2>2
    <2>4. Marked(ops)
      BY <1>2, <2>2, <2>3 DEF Marked
    <2>5. Backed(ops)
      BY <1>2, <2>2, <2>3 DEF Backed
    <2> QED  BY <1>2, <2>1, <2>2, <2>3, <2>4, <2>5 DEF Orderly
  <1> QED  BY <1>3, <1>4, <1>5, <1>6

\* A list with one write or copy per file of s.
LEMMA FilesAreOrderly ==
    ASSUME NEW s \in Seq(Slugs), NEW ops, ops = [i \in DOMAIN s |-> ops[i]],
           \A i \in DOMAIN s : ops[i].op \in {"put", "copy"} /\ ops[i].slug = s[i]
    PROVE  Orderly(ops)
  <1>1. PICK n \in Nat : n = Len(s) /\ DOMAIN s = 1..n
    OBVIOUS
  <1>2. ops = [i \in 1..n |-> ops[i]]
    BY <1>1
  <1>3. ops \in [1..n -> {ops[i] : i \in 1..n}]
    BY <1>2
  <1>4. Len(ops) = n /\ Listed(ops)
    BY <1>2, <1>3 DEF Listed
  <1>5. \A i \in 1..n : s[i] \in Slugs
    BY <1>1
  <1>6. \A i \in 1..n : OpOK(ops[i]) /\ ops[i].op \notin {"mirror", "retire"}
    BY <1>1, <1>5 DEF OpOK
  <1> QED  BY <1>4, <1>6, QuietIsOrderly

\* A file is written.
LEMMA WriteIsOrderly ==
    ASSUME NEW field \in {"segments", "matrix", "edges", "csv"}, NEW content, field = "matrix" => MatrixOK(content)
    PROVE  Orderly(<<Write(field, content)>>)
  <1>1. PICK o : o = Write(field, content)
    OBVIOUS
  <1>2. OpOK(o) /\ o.op = "write"
    BY <1>1 DEF Write, OpOK
  <1> QED  BY <1>1, <1>2, OneIsOrderly

\* An operation without parameters.
LEMMA StepIsOrderly ==
    ASSUME NEW name \in {"home", "manifest", "source", "bind", "seed"}
    PROVE  Orderly(<<Step(name)>>)
  <1>1. PICK o : o = Step(name)
    OBVIOUS
  <1>2. OpOK(o) /\ o.op = name
    BY <1>1 DEF Step, OpOK
  <1> QED  BY <1>1, <1>2, OneIsOrderly

\* All commands but the load leave the nodes and the database alone.
Calm(ops) ==
    /\ Orderly(ops)
    /\ \A i \in 1..Len(ops) : /\ ops[i].op \notin {"copy", "seed"}
                              /\ ops[i].op = "put" => FileOK(ops[i].draft)

\* Calm lists stay calm one after the other.
LEMMA CalmJoined ==
    ASSUME NEW a, NEW b, Calm(a), Calm(b)
    PROVE  Calm(a \o b)
  <1>1. PICK c, m : c = a \o b /\ m = Len(a)
    OBVIOUS
  <1>2. Orderly(c)
    BY <1>1, OrderlyJoined DEF Calm
  <1>3. /\ \A i \in 1..m : c[i] = a[i]
        /\ \A i \in 1..Len(b) : c[m + i] = b[i]
        /\ \A i \in 1..Len(c) : i \in 1..m \/ i - m \in 1..Len(b)
        /\ m \in Nat /\ Len(c) \in Nat
    BY <1>1, <1>2, Joined DEF Calm, Orderly, Listed
  <1>4. ASSUME NEW i \in 1..Len(c)
        PROVE  (\E j \in 1..m : c[i] = a[j]) \/ (\E j \in 1..Len(b) : c[i] = b[j])
    <2>1. CASE i \in 1..m
      BY <1>3, <2>1
    <2>2. CASE i - m \in 1..Len(b)
      <3>1. PICK j \in 1..Len(b) : j = i - m
        BY <2>2
      <3>2. i = m + j
        BY <1>3, <3>1
      <3> QED  BY <1>3, <3>2
    <2> QED  BY <1>3, <2>1, <2>2
  <1>5. /\ \A j \in 1..m : a[j].op \notin {"copy", "seed"} /\ (a[j].op = "put" => FileOK(a[j].draft))
        /\ \A j \in 1..Len(b) : b[j].op \notin {"copy", "seed"} /\ (b[j].op = "put" => FileOK(b[j].draft))
    BY <1>1 DEF Calm
  <1>6. \A i \in 1..Len(c) : c[i].op \notin {"copy", "seed"} /\ (c[i].op = "put" => FileOK(c[i].draft))
    BY <1>4, <1>5
  <1> QED  BY <1>1, <1>2, <1>6 DEF Calm

\* No operations, and one.
LEMMA NothingIsCalm == Calm(<<>>)
  BY NothingIsOrderly DEF Calm

LEMMA OneIsCalm ==
    ASSUME NEW o, OpOK(o), o.op \notin {"mirror", "retire", "copy", "seed", "put"}
    PROVE  Calm(<<o>>)
  <1>1. PICK ops : ops = <<o>>
    OBVIOUS
  <1>2. Orderly(ops)
    BY <1>1, OneIsOrderly
  <1>3. Len(ops) = 1 /\ ops[1] = o
    BY <1>1
  <1>4. \A i \in 1..Len(ops) : ops[i] = o
    BY <1>3
  <1> QED  BY <1>1, <1>2, <1>4 DEF Calm

\* The lists the passes end with or consist of.
LEMMA WriteIsCalm ==
    ASSUME NEW field \in {"segments", "matrix", "edges", "csv"}, NEW content, field = "matrix" => MatrixOK(content)
    PROVE  Calm(<<Write(field, content)>>)
  <1>1. PICK o : o = Write(field, content)
    OBVIOUS
  <1>2. OpOK(o) /\ o.op = "write"
    BY <1>1 DEF Write, OpOK
  <1> QED  BY <1>1, <1>2, OneIsCalm

LEMMA StepIsCalm ==
    ASSUME NEW name \in {"home", "manifest", "source", "bind"}
    PROVE  Calm(<<Step(name)>>)
  <1>1. PICK o : o = Step(name)
    OBVIOUS
  <1>2. OpOK(o) /\ o.op = name
    BY <1>1 DEF Step, OpOK
  <1> QED  BY <1>1, <1>2, OneIsCalm

LEMMA MarkIsCalm ==
    ASSUME NEW pass \in Passes
    PROVE  Calm(MarkSteps(pass))
  <1>1. PICK ops : ops = MarkSteps(pass)
    OBVIOUS
  <1>2. Orderly(ops)
    BY <1>1, MarkIsOrderly
  <1>3. PICK a, b : a = <<[op |-> "mark", pass |-> pass]>> /\ b = <<[op |-> "mirror", pass |-> pass]>>
    OBVIOUS
  <1>4. ops = a \o b \/ ops = a \o <<>>
    BY <1>1, <1>3 DEF MarkSteps
  <1>5. /\ a \in Seq({[op |-> "mark", pass |-> pass], [op |-> "mirror", pass |-> pass]})
        /\ b \in Seq({[op |-> "mark", pass |-> pass], [op |-> "mirror", pass |-> pass]})
    BY <1>3
  <1>6. PICK T : T = {[op |-> "mark", pass |-> pass], [op |-> "mirror", pass |-> pass]}
    OBVIOUS
  <1>7. ops \in Seq(T)
    <2>1. PICK z : z = <<>>
      OBVIOUS
    <2>2. a \in Seq(T) /\ b \in Seq(T) /\ z \in Seq(T)
      BY <1>5, <1>6, <2>1
    <2>3. ops = a \o b \/ ops = a \o z
      BY <1>4, <2>1
    <2>4. \A u, v \in Seq(T) : u \o v \in Seq(T)
      OBVIOUS
    <2> QED  BY ONLY <2>2, <2>3, <2>4
  <1>8. \A i \in 1..Len(ops) : ops[i] \in T
    BY ONLY <1>7
  <1>9. \A o \in T : o.op \in {"mark", "mirror"}
    BY <1>6
  <1> QED  BY <1>1, <1>2, <1>8, <1>9 DEF Calm

\* One draft per file of s.
LEMMA DraftsAreCalm ==
    ASSUME NEW s \in Seq(Slugs), NEW ops, ops = [i \in DOMAIN s |-> ops[i]],
           \A i \in DOMAIN s : ops[i].op = "put" /\ ops[i].slug = s[i] /\ FileOK(ops[i].draft)
    PROVE  Calm(ops)
  <1>1. Orderly(ops)
    BY FilesAreOrderly
  <1>2. DOMAIN ops = DOMAIN s
    BY Zenon
  <1>3. DOMAIN ops = 1..Len(ops)
    BY <1>1 DEF Orderly, Listed
  <1> QED  BY <1>1, <1>2, <1>3 DEF Calm

\* What the passes fill in.
LEMMA FilledOK ==
    ASSUME NEW shape, NEW segs, NEW cites,
           "life" \in DOMAIN shape, shape.life \in LifecycleState, IsFiniteSet(cites)
    PROVE  NodeOK(Filled(shape, segs, cites))
  BY DEF Filled, NodeOK

\* A merge keeps finitely many citations: there are finitely many drafts.
LEMMA CarriedOK ==
    ASSUME NEW object, object.shape \in Shapes, NEW d, NEW snapshot,
           DOMAIN snapshot \subseteq Slugs, \A s \in DOMAIN snapshot : NodeOK(snapshot[s])
    PROVE  NodeOK(Carry(object, Originals(d, snapshot)))
  <1>1. PICK O : O = Originals(d, snapshot)
    OBVIOUS
  <1>2. PICK S : S = d.deprecated \cap DOMAIN snapshot
    OBVIOUS
  <1>3. O = {snapshot[s] : s \in S}
    BY <1>1, <1>2 DEF Originals
  <1>4. IsFiniteSet(S)
    BY <1>2, SlugsAreFinite, FS_Subset
  <1>5. PICK C : C = {o.cites : o \in O}
    OBVIOUS
  <1>6. IsFiniteSet(C)
    <2>1. PICK F : F = [s \in S |-> snapshot[s].cites]
      OBVIOUS
    <2>2. C = {F[s] : s \in S}
      <3>1. \A s \in S : F[s] = snapshot[s].cites
        BY <2>1
      <3>2. ASSUME NEW c \in C PROVE \E s \in S : c = F[s]
        <4>1. PICK o \in O : c = o.cites
          BY <1>5, <3>2
        <4>2. PICK s \in S : o = snapshot[s]
          BY <1>3
        <4> QED  BY <3>1, <4>1, <4>2
      <3>3. ASSUME NEW s \in S PROVE F[s] \in C
        <4>1. snapshot[s] \in O
          BY <1>3
        <4> QED  BY <1>5, <3>1, <4>1
      <3> QED  BY <3>2, <3>3
    <2>3. F \in [S -> C]
      <3>1. \A s \in S : F[s] \in C
        BY <2>2
      <3> QED  BY <2>1, <3>1
    <2>4. F \in Surjection(S, C)
      BY <2>2, <2>3 DEF Surjection
    <2> QED  BY <1>4, <2>4, FS_Surjection
  <1>7. \A c \in C : IsFiniteSet(c)
    BY <1>2, <1>3, <1>5 DEF NodeOK
  <1>8. IsFiniteSet(UNION C)
    BY <1>6, <1>7, FS_UNION
  <1>9. PICK shape \in Shapes : shape = object.shape
    OBVIOUS
  <1>10. \E new, segs, cites : /\ Carry(object, O) = Filled(new, segs, cites)
                               /\ cites = UNION C \/ cites = shape.cites
                               /\ DOMAIN new = DOMAIN shape /\ ("life" \in DOMAIN shape => new.life = shape.life)
    <2> DEFINE risks == {shape.risk} \cup {o.risk : o \in O}
               risk == CHOOSE r \in risks : \A q \in risks : RiskRank[q] <= RiskRank[r]
    <2>1. PICK safety : safety = (shape.safety \/ \E o \in O : o.safety)
      OBVIOUS
    <2>2. PICK r : r = risk
      OBVIOUS
    <2>3. PICK segs : segs = IF object.lineage = {} THEN UNION {o.segs : o \in O} ELSE UNION object.lineage
      OBVIOUS
    <2>4. PICK cites : cites = IF shape.cites = {} THEN UNION {o.cites : o \in O} ELSE shape.cites
      OBVIOUS
    <2>5. PICK new : new = [shape EXCEPT !.risk = r, !.safety = safety]
      OBVIOUS
    <2>6. Carry(object, O) = Filled(new, segs, cites)
      <3>1. Carry(object, O) = Filled([shape EXCEPT !.risk = risk,
                                                    !.safety = (shape.safety \/ \E o \in O : o.safety)],
                                      IF object.lineage = {} THEN UNION {o.segs : o \in O} ELSE UNION object.lineage,
                                      IF shape.cites = {} THEN UNION {o.cites : o \in O} ELSE shape.cites)
        BY <1>9 DEF Carry
      <3> HIDE DEF risk
      <3> QED  BY <2>1, <2>2, <2>3, <2>5, <2>4, <3>1
    <2>7. DOMAIN new = DOMAIN shape /\ ("life" \in DOMAIN shape => new.life = shape.life)
      BY <2>5
    <2>8. cites = UNION C \/ cites = shape.cites
      BY <1>5, <2>4
    <2> QED  BY <2>6, <2>7, <2>8
  <1>11. "life" \in DOMAIN shape /\ shape.life \in LifecycleState /\ IsFiniteSet(shape.cites)
    BY PipelineAssumption
  <1>12. PICK new, segs, cites : /\ Carry(object, O) = Filled(new, segs, cites)
                                 /\ cites = UNION C \/ cites = shape.cites
                                 /\ DOMAIN new = DOMAIN shape /\ ("life" \in DOMAIN shape => new.life = shape.life)
    BY <1>10
  <1>13. NodeOK(Filled(new, segs, cites))
    BY ONLY <1>8, <1>11, <1>12, FilledOK
  <1> QED  BY <1>1, <1>12, <1>13

\* New drafts first, then the old ones are moved away.
LEMMA DecisionIsCalm ==
    ASSUME NEW d \in Decisions \cup {NoDecision}, NEW snapshot,
           DOMAIN snapshot \subseteq Slugs, \A s \in DOMAIN snapshot : NodeOK(snapshot[s])
    PROVE  Calm(DecisionSteps(d, snapshot))
  <1> DEFINE Rows == [slug : Slugs \cup {""}, shape : Shapes, lineage : SUBSET SUBSET SegmentId]
             kept == {o \in {d.objects[i] : i \in DOMAIN d.objects} : o.slug # ""}
             named == Only(d.objects, kept)
             objects == IF d.action = "merge" THEN [i \in 1..1 |-> [d.objects[1] EXCEPT !.slug = d.canonical]] ELSE named
             drafts == [i \in DOMAIN objects |-> Carry(objects[i], Originals(d, snapshot))]
             written == {objects[i].slug : i \in DOMAIN objects}
             retired == Retired(d, written)
             puts == [i \in DOMAIN drafts |-> Put(objects[i].slug, drafts[i])]
             retires == [i \in DOMAIN retired |-> Retire(retired[i], written)]
  <1>1. DecisionSteps(d, snapshot) =
          IF d.action = "keep" \/ d.objects = <<>> \/ d.deprecated = {} THEN <<>>
          ELSE IF \E i \in DOMAIN drafts : ~ValidDraft(drafts[i]) THEN <<>>
          ELSE puts \o retires
    BY DEF DecisionSteps
  <1>2. CASE d = NoDecision
    <2>1. d.action = "keep"
      BY <1>2 DEF NoDecision
    <2> HIDE DEF puts, retires, drafts
    <2> QED  BY <1>1, <2>1, NothingIsCalm
  <1>3. CASE d \in Decisions /\ d.objects = <<>>
    <2> HIDE DEF puts, retires, drafts
    <2> QED  BY <1>1, <1>3, NothingIsCalm
  <1>4. CASE d \in Decisions /\ d.objects # <<>>
    <2>1. d.objects \in Seq(Rows) /\ d.canonical \in Slugs
      BY <1>4, PipelineAssumption
    <2>2. PICK m \in Nat : DOMAIN objects = 1..m /\ \A i \in 1..m : objects[i].slug \in Slugs /\ objects[i].shape \in Shapes
      <3>1. CASE d.action = "merge"
        <4>1. d.objects[1] \in Rows
          <5> HIDE DEF Rows
          <5>1. Len(d.objects) \in Nat /\ Len(d.objects) # 0
            BY <1>4, <2>1
          <5>2. 1 \in 1..Len(d.objects)
            BY <5>1
          <5> QED  BY <2>1, <5>2
        <4>2. PICK row : row = [d.objects[1] EXCEPT !.slug = d.canonical]
          OBVIOUS
        <4>3. row.slug = d.canonical /\ row.shape \in Shapes
          BY <4>1, <4>2
        <4>5. objects = [i \in 1..1 |-> row]
          <5> HIDE DEF named
          <5> QED  BY <3>1, <4>2
        <4>4. DOMAIN objects = 1..1 /\ \A i \in 1..1 : objects[i].slug = d.canonical /\ objects[i].shape \in Shapes
          <5> HIDE DEF objects
          <5> QED  BY <4>3, <4>5
        <4> HIDE DEF objects
        <4> QED  BY <2>1, <4>4
      <3>2. CASE d.action # "merge"
        <4>1. objects = named
          BY <3>2
        <4>2. named \in Seq(Rows \cap kept)
          <5> HIDE DEF Rows, kept
          <5> QED  BY <2>1, OnlyKeeps
        <4>3. \A o \in Rows \cap kept : o.slug \in Slugs /\ o.shape \in Shapes
          OBVIOUS
        <4>4. /\ DOMAIN named = 1..Len(named) /\ Len(named) \in Nat
              /\ \A i \in 1..Len(named) : named[i].slug \in Slugs /\ named[i].shape \in Shapes
          <5> HIDE DEF Rows, kept, named
          <5> QED  BY <4>2, <4>3
        <4> HIDE DEF objects, named
        <4> QED  BY <4>1, <4>4
      <3> QED  BY <3>1, <3>2
    <2>3. PICK n \in Nat : /\ DOMAIN retired = 1..n
                           /\ \A i \in 1..n : retired[i] \in Slugs /\ retired[i] \notin written
      <3> HIDE DEF written
      <3>1. PICK gone : gone = Slugs \cap (d.deprecated \ written)
        OBVIOUS
      <3>2. retired \in Seq(gone)
        BY <3>1, InOrderFacts DEF Retired
      <3> HIDE DEF retired
      <3>3. DOMAIN retired = 1..Len(retired) /\ Len(retired) \in Nat
            /\ \A i \in 1..Len(retired) : retired[i] \in gone
        BY <3>2
      <3> QED  BY <3>1, <3>3
    <2>4. written \subseteq Slugs /\ \A s \in written : \E j \in 1..m : objects[j].slug = s
      <3> HIDE DEF objects
      <3> QED  BY <2>2
    <2>5. DOMAIN drafts = 1..m /\ \A i \in 1..m : FileOK(drafts[i])
      <3> HIDE DEF objects
      <3>1. \A i \in 1..m : NodeOK(Carry(objects[i], Originals(d, snapshot)))
        BY <2>2, CarriedOK
      <3> QED  BY <2>2, <3>1 DEF FileOK
    <2> HIDE DEF objects, drafts, written, retired, named, kept, Rows
    <2>6. Len(puts) = m /\ Listed(puts)
          /\ \A i \in 1..m : puts[i].op = "put" /\ puts[i].slug = objects[i].slug /\ FileOK(puts[i].draft)
      <3>1. puts \in [1..m -> {Put(objects[i].slug, drafts[i]) : i \in 1..m}]
        BY <2>5
      <3>2. \A i \in 1..m : puts[i] = Put(objects[i].slug, drafts[i])
        BY <2>5
      <3>3. Len(puts) = m /\ puts = [i \in 1..m |-> puts[i]]
        BY <3>1
      <3> HIDE DEF puts
      <3> QED  BY <2>5, <3>2, <3>3 DEF Put, Listed
    <2>7. Len(retires) = n /\ Listed(retires)
          /\ \A i \in 1..n : retires[i].op = "retire" /\ retires[i].slug = retired[i] /\ retires[i].heirs = written
      <3>1. retires \in [1..n -> {Retire(retired[i], written) : i \in 1..n}]
        BY <2>3
      <3>2. \A i \in 1..n : retires[i] = Retire(retired[i], written)
        BY <2>3
      <3>3. Len(retires) = n /\ retires = [i \in 1..n |-> retires[i]]
        BY <3>1
      <3> HIDE DEF retires
      <3> QED  BY <3>2, <3>3 DEF Retire, Listed
    <2> HIDE DEF puts, retires
    <2>8. PICK ops : ops = puts \o retires
      OBVIOUS
    <2>9. /\ Listed(ops) /\ Len(ops) = m + n
          /\ \A i \in 1..m : ops[i] = puts[i]
          /\ \A i \in 1..n : ops[m + i] = retires[i]
          /\ \A i \in 1..Len(ops) : i \in 1..m \/ i - m \in 1..n
      <3>1. PICK a, b : a = puts /\ b = retires
        OBVIOUS
      <3>2. Listed(a) /\ Listed(b) /\ Len(a) = m /\ Len(b) = n
        BY <2>6, <2>7, <3>1
      <3>3. /\ Listed(a \o b) /\ Len(a \o b) = Len(a) + Len(b)
            /\ \A i \in 1..Len(a) : (a \o b)[i] = a[i]
            /\ \A i \in 1..Len(b) : (a \o b)[Len(a) + i] = b[i]
            /\ \A i \in 1..Len(a \o b) : i \in 1..Len(a) \/ i - Len(a) \in 1..Len(b)
        BY <3>2, Joined
      <3>4. ops = a \o b
        BY <2>8, <3>1
      <3> QED  BY <3>1, <3>2, <3>3, <3>4
    <2>10. \A i \in 1..Len(ops) : \/ /\ i \in 1..m /\ ops[i].op = "put" /\ ops[i].slug \in Slugs
                                     /\ FileOK(ops[i].draft)
                                  \/ /\ ~(i \in 1..m) /\ ops[i].op = "retire" /\ ops[i].slug \in Slugs \ written
                                     /\ ops[i].heirs = written
      <3> TAKE i \in 1..Len(ops)
      <3>1. CASE i \in 1..m
        BY <2>2, <2>6, <2>9, <3>1
      <3>2. CASE i \notin 1..m
        <4>1. PICK k \in 1..n : k = i - m
          BY <2>9, <3>2
        <4>2. ops[i] = retires[k]
          <5>1. i = m + k
            BY <2>9, <4>1
          <5> QED  BY <2>9, <5>1
        <4> QED  BY <2>3, <2>7, <3>2, <4>2
      <3> QED  BY <3>1, <3>2
    <2>11. \A i \in 1..Len(ops) : OpOK(ops[i])
      BY <2>4, <2>10 DEF OpOK
    <2>12. Marked(ops)
      BY <2>10 DEF Marked
    <2>13. Backed(ops)
      <3> SUFFICES ASSUME NEW i \in 1..Len(ops), ops[i].op = "retire", NEW s \in ops[i].heirs
                   PROVE  \E j \in 1..Len(ops) : j < i /\ Stands(ops, s, j, i)
        BY DEF Backed
      <3>1. i \notin 1..m /\ s \in written
        BY <2>10
      <3>2. PICK j \in 1..m : objects[j].slug = s
        BY <2>4, <3>1
      <3>3. j \in 1..Len(ops) /\ j < i
        BY <2>9, <3>1
      <3>4. ops[j].op = "put" /\ ops[j].slug = s
        BY <2>6, <2>9, <3>2
      <3>5. \A k \in 1..Len(ops) : ~(ops[k].op = "retire" /\ ops[k].slug = s)
        BY <2>10, <3>1
      <3>6. j <= i
        BY <3>3
      <3> QED  BY <3>3, <3>4, <3>5, <3>6 DEF Stands
    <2>14. Orderly(ops)
      BY <2>9, <2>11, <2>12, <2>13 DEF Orderly
    <2>15. Calm(ops)
      BY <2>10, <2>14 DEF Calm
    <2> QED  BY <1>1, <2>8, <2>15, NothingIsCalm
  <1> QED  BY <1>2, <1>3, <1>4

\* The same, as a sequence of slugs.
LEMMA InOrderIsListed ==
    ASSUME NEW S
    PROVE  InOrder(S) \in Seq(Slugs)
  <1>1. PICK s : s = InOrder(S)
    OBVIOUS
  <1>2. s \in Seq(Slugs \cap S)
    BY <1>1, InOrderFacts
  <1>3. s \in Seq(Slugs)
    BY <1>2
  <1> QED  BY <1>1, <1>3

\* The same, as a sequence of slugs.
LEMMA ReadableIsListed ==
    ASSUME NEW files, NEW S
    PROVE  Readable(files, S) \in Seq(Slugs)
  <1>1. PICK s : s = Readable(files, S)
    OBVIOUS
  <1>2. s \in Seq(Slugs \cap S)
    BY <1>1, ReadableFacts
  <1>3. s \in Seq(Slugs)
    BY <1>2
  <1> QED  BY <1>1, <1>3

\* A command that runs calm operations.
Does(pass, ops) == Calm(ops) /\ Execute(pass, ops)

\* The files of a directory.
FilesOK(p) ==
    /\ p.nodes = [s \in DOMAIN p.nodes |-> p.nodes[s]]
    /\ \A s \in DOMAIN p.drafts : FileOK(p.drafts[s])
    /\ \A s \in DOMAIN p.nodes : FileOK(p.nodes[s])

\* The commands, one by one.
LEMMA InitDoes ==
    ASSUME CmdInit
    PROVE  \E ops : Does("init", ops)
  <1>1. PICK a, b, c : a = Step("home") /\ b = Step("manifest") /\ c = Step("source")
    OBVIOUS
  <1>2. PICK ops : ops = <<a, b, c>>
    OBVIOUS
  <1>3. Listed(ops) /\ Len(ops) = 3 /\ ops[1] = a /\ ops[2] = b /\ ops[3] = c
    BY <1>2 DEF Listed
  <1>4. \A i \in 1..Len(ops) : i = 1 \/ i = 2 \/ i = 3
    BY <1>3
  <1>5. a.op = "home" /\ b.op = "manifest" /\ c.op = "source"
    BY <1>1 DEF Step
  <1>6. \A i \in 1..Len(ops) : OpOK(ops[i]) /\ ops[i].op \notin {"mirror", "retire"}
    BY <1>3, <1>4, <1>5 DEF OpOK
  <1>7. Calm(ops)
    BY <1>3, <1>4, <1>5, <1>6, QuietIsOrderly DEF Calm
  <1>8. Execute("init", ops)
    BY <1>1, <1>2 DEF CmdInit
  <1> QED  BY <1>7, <1>8 DEF Does

LEMMA BindDoes ==
    ASSUME BindJob
    PROVE  \E ops : Does("bind", ops)
  <1>1. PICK ops : ops = <<Step("bind")>>
    OBVIOUS
  <1>2. Calm(ops)
    BY <1>1, StepIsCalm
  <1> QED  BY <1>1, <1>2 DEF BindJob, Command, Does

LEMMA ParseDoes ==
    ASSUME CmdParse
    PROVE  \E ops : Does("parse", ops)
  <1>1. PICK a, b : a = <<Write("segments", [rows |-> Source])>> /\ b = MarkSteps("parse")
    OBVIOUS
  <1>2. Calm(a)
    BY <1>1, WriteIsCalm
  <1>3. Calm(b)
    BY <1>1, MarkIsCalm DEF Passes
  <1>4. Calm(a \o b)
    BY <1>2, <1>3, CalmJoined
  <1>5. Execute("parse", a \o b)
    BY <1>1 DEF CmdParse, Command
  <1> QED  BY <1>4, <1>5 DEF Does

LEMMA ExtractDoes ==
    ASSUME CmdExtract
    PROVE  \E ops : Does("extract", ops)
  <1>1. PICK rows \in Matrices \cup {<<>>} :
          Execute("extract", (IF rows = <<>> \/ SegmentIds = {} THEN <<>> ELSE <<Write("matrix", [rows |-> rows])>>)
                             \o MarkSteps("extract"))
    BY DEF CmdExtract, Command
  <1>2. PICK a : a = IF rows = <<>> \/ SegmentIds = {} THEN <<>> ELSE <<Write("matrix", [rows |-> rows])>>
    OBVIOUS
  <1>3. PICK b : b = MarkSteps("extract")
    OBVIOUS
  <1>4. Calm(a)
    <2>1. a = <<>> \/ (a = <<Write("matrix", [rows |-> rows])>> /\ rows # <<>>)
      BY <1>2
    <2>2. CASE a = <<Write("matrix", [rows |-> rows])>> /\ rows # <<>>
      <3>1. rows \in MatrixRows
        BY <2>2, PipelineAssumption
      <3>2. MatrixOK([rows |-> rows])
        BY <3>1 DEF MatrixOK
      <3> QED  BY <2>2, <3>2, WriteIsCalm
    <2> QED  BY <2>1, <2>2, NothingIsCalm
  <1>5. Calm(b)
    BY <1>3, MarkIsCalm DEF Passes
  <1>6. Calm(a \o b)
    BY <1>4, <1>5, CalmJoined
  <1>7. Execute("extract", a \o b)
    BY <1>1, <1>2, <1>3
  <1> QED  BY <1>6, <1>7 DEF Does

LEMMA EdgesDoes ==
    ASSUME CmdEdges
    PROVE  \E ops : Does("edges", ops)
  <1>1. PICK all :
          Execute("edges", (IF all = {} THEN <<>> ELSE <<Write("edges", [rows |-> all])>>) \o MarkSteps("edges"))
    BY DEF CmdEdges, Command
  <1>2. PICK a : a = IF all = {} THEN <<>> ELSE <<Write("edges", [rows |-> all])>>
    OBVIOUS
  <1>3. PICK b : b = MarkSteps("edges")
    OBVIOUS
  <1>4. Calm(a)
    <2>1. a = <<>> \/ a = <<Write("edges", [rows |-> all])>>
      BY <1>2
    <2> QED  BY <2>1, WriteIsCalm, NothingIsCalm
  <1>5. Calm(b)
    BY <1>3, MarkIsCalm DEF Passes
  <1>6. Calm(a \o b)
    BY <1>4, <1>5, CalmJoined
  <1>7. Execute("edges", a \o b)
    BY <1>1, <1>2, <1>3
  <1> QED  BY <1>6, <1>7 DEF Does

LEMMA CanonicalizeDoes ==
    ASSUME CmdCanonicalize, ProjectOK(project), FilesOK(project)
    PROVE  \E ops : Does("canonicalize", ops)
  <1>1. PICK first \in Decisions \cup {NoDecision}, second \in Decisions \cup {NoDecision} :
          Execute("canonicalize", DecisionSteps(first, project.drafts) \o DecisionSteps(second, project.drafts)
                                  \o MarkSteps("canonicalize"))
    BY DEF CmdCanonicalize, Command
  <1>2. PICK snapshot : snapshot = project.drafts
    OBVIOUS
  <1>3. PICK a, b, c : a = DecisionSteps(first, snapshot) /\ b = DecisionSteps(second, snapshot)
                       /\ c = MarkSteps("canonicalize")
    OBVIOUS
  <1>4. Calm(a) /\ Calm(b)
    <2>1. \A s \in DOMAIN snapshot : NodeOK(snapshot[s])
      BY <1>2 DEF CmdCanonicalize, AllWhole, FilesOK, FileOK
    <2>2. DOMAIN snapshot \subseteq Slugs
      BY <1>2 DEF ProjectOK
    <2> QED  BY <1>3, <2>1, <2>2, DecisionIsCalm
  <1>5. Calm(c)
    BY <1>3, MarkIsCalm DEF Passes
  <1>6. Calm((a \o b) \o c)
    <2>1. PICK ab : ab = a \o b
      OBVIOUS
    <2>2. Calm(ab)
      BY <1>4, <2>1, CalmJoined
    <2>3. Calm(ab \o c)
      BY <1>5, <2>2, CalmJoined
    <2> QED  BY <2>1, <2>3
  <1>7. Execute("canonicalize", (a \o b) \o c)
    BY <1>1, <1>2, <1>3
  <1> QED  BY <1>6, <1>7 DEF Does

LEMMA BundlesDoes ==
    ASSUME CmdBundles, FilesOK(project)
    PROVE  \E ops : Does("bundles", ops)
  <1>1. PICK made \in SUBSET DOMAIN project.drafts :
          Execute("bundles",
                  [i \in DOMAIN InOrder(made) |->
                     Put(InOrder(made)[i], [project.drafts[InOrder(made)[i]] EXCEPT !.bundle = TRUE])]
                  \o MarkSteps("bundles"))
    BY DEF CmdBundles, Command
  <1>2. PICK files : files = InOrder(made)
    OBVIOUS
  <1>3. PICK a : a = [i \in DOMAIN files |-> Put(files[i], [project.drafts[files[i]] EXCEPT !.bundle = TRUE])]
    OBVIOUS
  <1>4. PICK b : b = MarkSteps("bundles")
    OBVIOUS
  <1>5. Calm(a)
    <2>1. files \in Seq(Slugs)
      BY <1>2, InOrderIsListed
    <2>2. a = [i \in DOMAIN files |-> a[i]] /\ \A i \in DOMAIN files : a[i].op = "put" /\ a[i].slug = files[i]
      BY <1>3 DEF Put
    <2>3. ASSUME NEW i \in DOMAIN files PROVE FileOK(a[i].draft)
      <3>1. PICK d, e : d = project.drafts[files[i]] /\ e = [d EXCEPT !.bundle = TRUE]
        OBVIOUS
      <3>2. files[i] \in DOMAIN project.drafts
        <4>1. InOrder(made) \in Seq(Slugs \cap made)
          BY InOrderFacts
        <4>2. files[i] \in Slugs \cap made
          BY <1>2, <2>3, <4>1
        <4> QED  BY <1>1, <4>2
      <3>3. FileOK(d)
        BY <3>1, <3>2 DEF FilesOK
      <3>4. FileOK(e)
        BY <3>1, <3>3 DEF FileOK, NodeOK, Torn
      <3> QED  BY <1>3, <2>3, <3>1, <3>4 DEF Put
    <2> QED  BY <2>1, <2>2, <2>3, DraftsAreCalm
  <1>6. Calm(b)
    BY <1>4, MarkIsCalm DEF Passes
  <1>7. Calm(a \o b)
    BY <1>5, <1>6, CalmJoined
  <1>8. Execute("bundles", a \o b)
    BY <1>1, <1>2, <1>3, <1>4
  <1> QED  BY <1>7, <1>8 DEF Does

\* The drafts of a draft pass, and what they were made from.
DraftSteps(ops, made, rows) ==
    /\ made \in Seq(Slugs) /\ NoneTwice(made)
    /\ ops = [n \in DOMAIN made |-> ops[n]]
    /\ \A n \in DOMAIN made : /\ ops[n].op = "put" /\ ops[n].slug = made[n]
                              /\ ops[n].draft.segs = SegmentsOf(rows[made[n]])

\* One command's drafts, of the slugs the model has answered for.
DraftsWritten(rows, todo) ==
    \E shapes \in [todo -> Generated] :
       LET made == InOrder({s \in todo : shapes[s] # Failed})
       IN  Command("draft",
              [n \in DOMAIN made |-> Put(made[n], NewDraft(shapes[made[n]], rows[made[n]]))]
              \o MarkSteps("draft"))

LEMMA DraftDoes ==
    ASSUME CmdDraft
    PROVE  \E puts, made, rest : /\ DraftSteps(puts, made, MergeRows(project.matrix.rows))
                                 /\ Calm(puts) /\ rest = MarkSteps("draft")
                                 /\ Does("draft", puts \o rest)
  <1>1. PICK rows : rows = MergeRows(project.matrix.rows)
    OBVIOUS
  <1>2. PICK todo : DraftsWritten(rows, todo)
    <2>1. \E todo : DraftsWritten(MergeRows(project.matrix.rows), todo)
      BY Zenon DEF CmdDraft, DraftsWritten
    <2> QED  BY ONLY <1>1, <2>1
  <1>3. PICK shapes \in [todo -> Generated] :
             LET made == InOrder({s \in todo : shapes[s] # Failed})
             IN  Execute("draft",
                    [n \in DOMAIN made |-> Put(made[n], NewDraft(shapes[made[n]], rows[made[n]]))]
                    \o MarkSteps("draft"))
    BY ONLY <1>2, Zenon DEF DraftsWritten, Command
  <1>4. PICK made : made = InOrder({s \in todo : shapes[s] # Failed})
    OBVIOUS
  <1>5. PICK a, b : /\ a = [n \in DOMAIN made |-> Put(made[n], NewDraft(shapes[made[n]], rows[made[n]]))]
                    /\ b = MarkSteps("draft")
    OBVIOUS
  <1>6. made \in Seq(Slugs \cap {s \in todo : shapes[s] # Failed}) /\ NoneTwice(made) /\ made \in Seq(Slugs)
    <2>1. InOrder({s \in todo : shapes[s] # Failed}) \in Seq(Slugs \cap {s \in todo : shapes[s] # Failed})
      BY InOrderFacts
    <2>2. NoneTwice(InOrder({s \in todo : shapes[s] # Failed})) /\ InOrder({s \in todo : shapes[s] # Failed}) \in Seq(Slugs)
      BY InOrderFacts, InOrderIsListed
    <2> QED  BY <1>4, <2>1, <2>2
  <1>7. \A n \in DOMAIN made : a[n].op = "put" /\ a[n].slug = made[n]
                               /\ a[n].draft = NewDraft(shapes[made[n]], rows[made[n]])
    BY <1>5 DEF Put
  <1>8. \A n \in DOMAIN made : a[n].draft.segs = SegmentsOf(rows[made[n]])
    BY <1>7 DEF NewDraft, Filled
  <1>9. DraftSteps(a, made, rows)
    <2>1. a = [n \in DOMAIN made |-> a[n]]
      BY <1>5
    <2> QED  BY <1>6, <1>7, <1>8, <2>1 DEF DraftSteps
  <1>10. Calm(a)
    <2>1. ASSUME NEW n \in DOMAIN made PROVE FileOK(a[n].draft)
      <3>1. made[n] \in todo /\ shapes[made[n]] # Failed
        <4>1. made[n] \in Slugs \cap {s \in todo : shapes[s] # Failed}
          BY <1>6, <2>1
        <4> QED  BY <4>1
      <3>2. shapes[made[n]] \in Shapes
        BY <3>1 DEF Generated
      <3>3. PICK shape, segs : shape = shapes[made[n]] /\ segs = SegmentsOf(rows[made[n]])
        OBVIOUS
      <3>4. NodeOK(Filled(shape, segs, shape.cites))
        BY <3>2, <3>3, PipelineAssumption, FilledOK
      <3> QED  BY <1>7, <2>1, <3>3, <3>4 DEF NewDraft, FileOK
    <2> QED  BY <1>9, <2>1, DraftsAreCalm DEF DraftSteps
  <1>11. Calm(b)
    BY <1>5, MarkIsCalm DEF Passes
  <1>12. Calm(a \o b)
    BY <1>10, <1>11, CalmJoined
  <1>13. Execute("draft", a \o b)
    BY <1>5, <1>3, <1>4
  <1> QED  BY <1>1, <1>5, <1>9, <1>10, <1>12, <1>13 DEF Does

\* Finitely many citations are taken for finitely many segments.
LEMMA ReadingsFinite ==
    ASSUME NEW ids, IsFiniteSet(ids), NEW shown, NEW c \in Readings(ids, shown)
    PROVE  IsFiniteSet(c)
  <1>1. PICK known, read : known \subseteq ids /\ read \in [known -> shown] /\ c = {read[id] : id \in known}
    <2>1. PICK known : known = {id \in ids : \E s \in shown : id = s \/ id = Bare(s[2])}
      OBVIOUS
    <2>2. PICK read \in [known -> shown] : c = {read[id] : id \in known}
      BY <2>1 DEF Readings
    <2> QED  BY <2>1, <2>2
  <1>2. IsFiniteSet(known)
    BY <1>1, FS_Subset
  <1>3. read \in Surjection(known, c)
    <2>1. \A id \in known : read[id] \in c
      BY <1>1
    <2>2. read \in [known -> c]
      BY <1>1, <2>1
    <2> QED  BY <1>1, <2>2 DEF Surjection
  <1> QED  BY <1>2, <1>3, FS_Surjection

LEMMA CiteDoes ==
    ASSUME CmdCite, FilesOK(project)
    PROVE  \E ops : Does("cite", ops)
  <1> DEFINE Own(s) == project.drafts[s].segs \cap SegmentIds
             Fits(s) == UNION {Readings(a.segs, Window(Own(s))) : a \in Answers}
             Steps(cited, cites) ==
                [n \in DOMAIN cited |-> Put(cited[n], [project.drafts[cited[n]] EXCEPT !.cites = cites[cited[n]]])]
  <1>1. PICK answered, cites, read, files :
          /\ answered \subseteq DOMAIN project.drafts
          /\ \A s \in answered : cites[s] \in Fits(s)
          /\ Execute("cite", Steps(InOrder(answered), cites)
                             \o (IF Len(read) = Len(files) THEN MarkSteps("cite") ELSE <<>>))
    <2> DEFINE Citing(files, read, todo, kept) ==
                 \E answered \in SUBSET todo :
                 \E cites \in [answered -> UNION {kept[s] : s \in answered}] :
                    /\ \A s \in answered : cites[s] \in kept[s]
                    /\ Execute("cite", Steps(InOrder(answered), cites)
                                       \o (IF Len(read) = Len(files) THEN MarkSteps("cite") ELSE <<>>))
    <2>1. PICK chosen \in Filters :
            LET files == InOrder(DOMAIN project.drafts \cap chosen)
                read == Readable(project.drafts, DOMAIN project.drafts \cap chosen)
                todo == {s \in {read[i] : i \in DOMAIN read} : Own(s) # {}}
            IN  Citing(files, read, todo, [s \in todo |-> Fits(s)])
      BY DEF CmdCite, Command
    <2> HIDE DEF Steps, Fits, Citing
    <2>2. PICK files, read, todo, kept :
            /\ read = Readable(project.drafts, DOMAIN project.drafts \cap chosen)
            /\ todo = {s \in {read[i] : i \in DOMAIN read} : Own(s) # {}}
            /\ kept = [s \in todo |-> Fits(s)]
            /\ Citing(files, read, todo, kept)
      BY ONLY <2>1
    <2>3. todo \subseteq DOMAIN project.drafts
      <3>1. read \in Seq(Slugs \cap (DOMAIN project.drafts \cap chosen))
        BY <2>2, ReadableFacts
      <3>2. \A i \in DOMAIN read : read[i] \in Slugs \cap (DOMAIN project.drafts \cap chosen)
        BY <3>1
      <3> HIDE DEF Own
      <3> QED  BY <2>2, <3>2
    <2> HIDE DEF Own
    <2>4. PICK answered \in SUBSET todo : \E cites \in [answered -> UNION {kept[s] : s \in answered}] :
                   /\ \A s \in answered : cites[s] \in kept[s]
                   /\ Execute("cite", Steps(InOrder(answered), cites)
                                      \o (IF Len(read) = Len(files) THEN MarkSteps("cite") ELSE <<>>))
      BY <2>2 DEF Citing
    <2>5. PICK cites : /\ \A s \in answered : cites[s] \in kept[s]
                       /\ Execute("cite", Steps(InOrder(answered), cites)
                                          \o (IF Len(read) = Len(files) THEN MarkSteps("cite") ELSE <<>>))
      BY <2>4
    <2>6. \A s \in answered : cites[s] \in Fits(s)
      BY <2>2, <2>5
    <2> QED  BY <2>3, <2>5, <2>6
  <1>3. PICK cited : cited = InOrder(answered)
    OBVIOUS
  <1>4. PICK a, b : a = Steps(cited, cites) /\ b = IF Len(read) = Len(files) THEN MarkSteps("cite") ELSE <<>>
    OBVIOUS
  <1>5. Calm(a)
    <2>1. cited \in Seq(Slugs)
      BY <1>3, InOrderIsListed
    <2>2. a = [i \in DOMAIN cited |-> a[i]] /\ \A i \in DOMAIN cited : a[i].op = "put" /\ a[i].slug = cited[i]
      BY <1>4 DEF Put
    <2>3. ASSUME NEW i \in DOMAIN cited PROVE FileOK(a[i].draft)
      <3>1. PICK s, d, C : /\ s = cited[i] /\ d = project.drafts[s] /\ C = cites[s]
        OBVIOUS
      <3>2. s \in answered
        <4>1. cited \in Seq(Slugs \cap answered)
          BY <1>3, InOrderFacts
        <4> QED  BY <2>3, <3>1, <4>1
      <3>3. IsFiniteSet(C)
        <4>1. PICK answer \in Answers : C \in Readings(answer.segs, Window(Own(s)))
          BY <1>1, <3>1, <3>2
        <4>2. IsFiniteSet(answer.segs)
          BY PipelineAssumption
        <4> HIDE DEF Own
        <4> QED  BY <4>1, <4>2, ReadingsFinite
      <3>4. FileOK(d)
        BY <1>1, <3>1, <3>2 DEF FilesOK
      <3>5. PICK e : e = [d EXCEPT !.cites = C]
        OBVIOUS
      <3>6. FileOK(e)
        BY <3>3, <3>4, <3>5 DEF FileOK, NodeOK, Torn
      <3>7. a[i].draft = e
        BY <1>4, <2>3, <3>1, <3>5 DEF Put
      <3> QED  BY <3>6, <3>7
    <2> QED  BY <2>1, <2>2, <2>3, DraftsAreCalm
  <1>6. Calm(b)
    <2>1. PICK m : m = MarkSteps("cite")
      OBVIOUS
    <2>2. Calm(m)
      BY <2>1, MarkIsCalm DEF Passes
    <2> QED  BY <1>4, <2>1, <2>2, NothingIsCalm
  <1>7. Calm(a \o b)
    BY <1>5, <1>6, CalmJoined
  <1>8. Execute("cite", a \o b)
    <2> HIDE DEF Steps
    <2> QED  BY <1>1, <1>3, <1>4
  <1> QED  BY <1>7, <1>8 DEF Does

\* What MarkSteps consists of.
LEMMA MarkStepsAre ==
    ASSUME NEW pass, NEW rest, rest = MarkSteps(pass)
    PROVE  \A i \in 1..Len(rest) : rest[i].op \in {"mark", "mirror"}
  <1>1. PICK a, b : a = [op |-> "mark", pass |-> pass] /\ b = [op |-> "mirror", pass |-> pass]
    OBVIOUS
  <1>2. PICK c : c = IF project.bound /\ pass = "parse" THEN <<b>> ELSE <<>>
    OBVIOUS
  <1>3. rest = <<a>> \o c
    BY <1>1, <1>2 DEF MarkSteps
  <1>4. PICK S : S = {a, b}
    OBVIOUS
  <1>5. <<a>> \in Seq(S) /\ c \in Seq(S)
    <2>1. a \in S /\ b \in S
      BY <1>4
    <2>2. <<a>> \in Seq(S) /\ <<b>> \in Seq(S) /\ <<>> \in Seq(S)
      BY <2>1
    <2>3. c = <<b>> \/ c = <<>>
      BY <1>2
    <2> QED  BY <2>2, <2>3
  <1>6. rest \in Seq(S)
    BY <1>3, <1>5
  <1>7. \A x \in S : x.op \in {"mark", "mirror"}
    BY <1>1, <1>4
  <1>8. \A i \in 1..Len(rest) : rest[i] \in S
    BY <1>6
  <1> QED  BY <1>7, <1>8

\* The pack a load finds in the directory when it comes to the seed.
PackLeft(marked, rows) ==
    [nodes |-> Adding(marked, project.nodes), csv |-> IF project.edges = Missing THEN project.csv ELSE rows]

\* What a load consists of: the drafts of s are marked or are as they have to be,
\* they are copied, and the rows are written.  It goes on to the seed only with a
\* pack that can be read and that the seed does not fail on.
LoadSteps(ops, s, marked, rows, na, nc) ==
    /\ s \in Seq(Slugs) /\ DOMAIN marked = {s[j] : j \in 1..Len(s)} /\ DOMAIN marked \subseteq DOMAIN project.drafts
    /\ \A x \in DOMAIN marked : FileOK(marked[x])
    /\ na \in {0, Len(s)} /\ (na = 0 => \A x \in DOMAIN marked : marked[x] = project.drafts[x])
    /\ nc = IF project.edges = Missing THEN 0 ELSE 1
    /\ \A i \in 1..Len(ops) :
         \/ i \in 1..na /\ ops[i].op = "put" /\ ops[i].slug = s[i] /\ ops[i].draft = marked[s[i]]
         \/ i - na \in 1..Len(s) /\ ops[i].op = "copy" /\ ops[i].slug = s[i - na]
         \/ nc = 1 /\ i = na + Len(s) + 1 /\ ops[i].op = "write" /\ ops[i].field = "csv" /\ ops[i].content = rows
         \/ i = na + Len(s) + nc + 1 /\ ops[i].op = "seed"
         \/ i > na + Len(s) + nc + 1 /\ ops[i].op \in {"mark", "mirror"}
    /\ na + Len(s) + nc < Len(ops) => /\ ~SeedFails(db, PackLeft(marked, rows))
                                      /\ \A x \in DOMAIN PackLeft(marked, rows).nodes :
                                            PackLeft(marked, rows).nodes[x] # Torn

\* Where the parts of a load are.
LEMMA LoadParts ==
    ASSUME NEW a, NEW b, NEW c, NEW e, Listed(a), Listed(b), Listed(c), Listed(e),
           NEW ops, ops = (a \o (b \o c)) \o e
    PROVE  /\ Len(ops) = Len(a) + Len(b) + Len(c) + Len(e)
           /\ \A i \in 1..Len(ops) :
                \/ i \in 1..Len(a) /\ ops[i] = a[i]
                \/ i - Len(a) \in 1..Len(b) /\ ops[i] = b[i - Len(a)]
                \/ i - Len(a) - Len(b) \in 1..Len(c) /\ ops[i] = c[i - Len(a) - Len(b)]
                \/ i - Len(a) - Len(b) - Len(c) \in 1..Len(e) /\ ops[i] = e[i - Len(a) - Len(b) - Len(c)]
  <1>1. PICK bc, abc : bc = b \o c /\ abc = a \o bc
    OBVIOUS
  <1>2. PICK na, nb, nc, ne : na = Len(a) /\ nb = Len(b) /\ nc = Len(c) /\ ne = Len(e)
    OBVIOUS
  <1>3. na \in Nat /\ nb \in Nat /\ nc \in Nat /\ ne \in Nat
    BY <1>2 DEF Listed
  <1>4. /\ Listed(bc) /\ Len(bc) = nb + nc
        /\ \A i \in 1..nb : bc[i] = b[i]
        /\ \A i \in 1..nc : bc[nb + i] = c[i]
    BY <1>1, <1>2, Joined
  <1>5. /\ Listed(abc) /\ Len(abc) = na + (nb + nc)
        /\ \A i \in 1..na : abc[i] = a[i]
        /\ \A i \in 1..nb + nc : abc[na + i] = bc[i]
    BY <1>1, <1>2, <1>4, Joined
  <1>6. /\ Len(ops) = na + (nb + nc) + ne
        /\ \A i \in 1..na + (nb + nc) : ops[i] = abc[i]
        /\ \A i \in 1..ne : ops[na + (nb + nc) + i] = e[i]
    BY <1>1, <1>2, <1>5, Joined
  <1>7. ASSUME NEW i \in 1..Len(ops)
        PROVE  \/ i \in 1..na /\ ops[i] = a[i]
               \/ i - na \in 1..nb /\ ops[i] = b[i - na]
               \/ i - na - nb \in 1..nc /\ ops[i] = c[i - na - nb]
               \/ i - na - nb - nc \in 1..ne /\ ops[i] = e[i - na - nb - nc]
    <2>1. i \in 1..na \/ i - na \in 1..nb \/ i - na - nb \in 1..nc \/ i - na - nb - nc \in 1..ne
      BY <1>3, <1>6
    <2>2. CASE i \in 1..na
      <3>1. i \in 1..na + (nb + nc)
        BY <1>3, <2>2
      <3> QED  BY <1>5, <1>6, <2>2, <3>1
    <2>3. CASE i - na \in 1..nb
      <3>1. PICK j \in 1..nb : j = i - na
        BY <2>3
      <3>2. i \in 1..na + (nb + nc) /\ j \in 1..nb + nc /\ i = na + j
        BY <1>3, <3>1
      <3>3. ops[i] = bc[j]
        BY <1>5, <1>6, <3>2
      <3>4. bc[j] = b[j]
        BY <1>4
      <3> QED  BY <2>3, <3>1, <3>3, <3>4
    <2>4. CASE i - na - nb \in 1..nc
      <3>1. PICK j \in 1..nc : j = i - na - nb
        BY <2>4
      <3>2. PICK m : m = nb + j
        OBVIOUS
      <3>3. i \in 1..na + (nb + nc) /\ m \in 1..nb + nc /\ i = na + m
        BY <1>3, <3>1, <3>2
      <3>4. ops[i] = bc[m]
        BY <1>5, <1>6, <3>3
      <3>5. bc[m] = c[j]
        BY <1>4, <3>2
      <3> QED  BY <3>1, <3>4, <3>5
    <2>5. CASE i - na - nb - nc \in 1..ne
      <3>1. PICK j \in 1..ne : j = i - na - nb - nc
        BY <2>5
      <3>2. i = na + (nb + nc) + j
        BY <1>3, <3>1
      <3> QED  BY <1>6, <3>1, <3>2
    <2> QED  BY <2>1, <2>2, <2>3, <2>4, <2>5
  <1>8. Len(ops) = na + nb + nc + ne
    BY <1>3, <1>6
  <1> QED  BY <1>2, <1>7, <1>8

LEMMA LoadDoes ==
    ASSUME CmdLoad, FilesOK(project)
    PROVE  \E ops, s, marked, rows, na, nc :
              Orderly(ops) /\ LoadSteps(ops, s, marked, rows, na, nc) /\ Execute("load", ops)
  <1> DEFINE files == DOMAIN project.drafts
             read == Readable(project.drafts, files)
             marks(publish) ==
                [s \in {read[i] : i \in DOMAIN read} |->
                   IF publish THEN [project.drafts[s] EXCEPT !.life = "published"] ELSE project.drafts[s]]
             patches(publish) == [i \in DOMAIN read |-> Put(read[i], marks(publish)[read[i]])]
             copies == [i \in DOMAIN read |-> Copy(read[i])]
             listed == IF project.edges \in {Missing, Torn} THEN {} ELSE project.edges.rows
             csv == <<Write("csv", listed)>>
             end == <<Step("seed")>> \o MarkSteps("load")
             output == copies \o (IF project.edges = Missing THEN <<>> ELSE csv)
             Fails(marked, rows) == \/ \E s \in DOMAIN PackLeft(marked, rows).nodes : PackLeft(marked, rows).nodes[s] = Torn
                                    \/ SeedFails(db, PackLeft(marked, rows))
  <1>1. PICK publish \in BOOLEAN, dry \in BOOLEAN, refused \in BOOLEAN :
          LET patch == IF publish THEN patches(publish) ELSE <<>>
          IN  Execute("load", IF refused THEN patch
                              ELSE patch \o output \o (IF dry \/ Fails(marks(publish), listed) THEN <<>> ELSE end))
    <2>1. \E publish, dry \in BOOLEAN :
            LET patch == IF publish THEN patches(publish) ELSE <<>>
                refused == DOMAIN marks(publish) # files \/ project.edges = Torn \/ HasErrors(marks(publish), listed, publish)
                pack == PackLeft(marks(publish), listed)
                fails == (\E s \in DOMAIN pack.nodes : pack.nodes[s] = Torn) \/ SeedFails(db, pack)
            IN  Command("load", IF refused THEN patch ELSE patch \o output \o (IF dry \/ fails THEN <<>> ELSE end))
      BY Zenon DEF CmdLoad, PackLeft
    <2>3. PICK publish \in BOOLEAN, dry \in BOOLEAN :
            LET patch == IF publish THEN patches(publish) ELSE <<>>
                refused == DOMAIN marks(publish) # files \/ project.edges = Torn \/ HasErrors(marks(publish), listed, publish)
                pack == PackLeft(marks(publish), listed)
                fails == (\E s \in DOMAIN pack.nodes : pack.nodes[s] = Torn) \/ SeedFails(db, pack)
            IN  Execute("load", IF refused THEN patch ELSE patch \o output \o (IF dry \/ fails THEN <<>> ELSE end))
      <3> HIDE DEF patches, output, end, marks, files, listed
      <3> QED  BY <2>1 DEF Command
    <2>2. PICK refused \in BOOLEAN :
             refused = (DOMAIN marks(publish) # files \/ project.edges = Torn \/ HasErrors(marks(publish), listed, publish))
      OBVIOUS
    <2> HIDE DEF patches, output, end, marks, files, listed
    <2> QED  BY <2>2, <2>3
  <1>2. PICK some, marked, rows, stops : /\ some = read /\ marked = marks(publish) /\ rows = listed
                                         /\ stops = Fails(marked, rows)
    OBVIOUS
  <1>3. some \in Seq(Slugs) /\ DOMAIN some = 1..Len(some) /\ Len(some) \in Nat
    <2>1. some \in Seq(Slugs)
      BY <1>2, ReadableIsListed
    <2> QED  BY <2>1
  <1>4. PICK a : a = IF publish THEN patches(publish) ELSE <<>>
    OBVIOUS
  <1>5. publish => /\ a = [i \in DOMAIN some |-> a[i]]
                   /\ \A i \in DOMAIN some : a[i].op = "put" /\ a[i].slug = some[i] /\ a[i].draft = marked[some[i]]
    <2> SUFFICES ASSUME publish
                 PROVE  /\ a = [i \in DOMAIN some |-> a[i]]
                        /\ \A i \in DOMAIN some : a[i].op = "put" /\ a[i].slug = some[i] /\ a[i].draft = marked[some[i]]
      OBVIOUS
    <2>1. a = [i \in DOMAIN some |-> Put(some[i], marked[some[i]])]
      <3> HIDE DEF marks, read
      <3> QED  BY <1>2, <1>4
    <2> QED  BY <2>1 DEF Put
  <1>6. Orderly(a) /\ Len(a) = IF publish THEN Len(some) ELSE 0
    <2>1. CASE publish
      <3>1. Orderly(a)
        BY <1>3, <1>5, <2>1, FilesAreOrderly
      <3>2. Len(a) = Len(some)
        BY <1>3, <1>5, <2>1, ListLength
      <3> QED  BY <2>1, <3>1, <3>2
    <2>2. CASE ~publish
      BY <1>4, <2>2, NothingIsOrderly
    <2> QED  BY <2>1, <2>2
  <1>7. PICK b : b = copies
    OBVIOUS
  <1>8. b = [i \in DOMAIN some |-> b[i]] /\ \A i \in DOMAIN some : b[i].op = "copy" /\ b[i].slug = some[i]
    <2> HIDE DEF read
    <2> QED  BY <1>2, <1>7 DEF Copy
  <1>9. Orderly(b) /\ Len(b) = Len(some)
    <2>1. Orderly(b)
      BY <1>3, <1>8, FilesAreOrderly
    <2>2. Len(b) = Len(some)
      BY <1>3, <1>8, ListLength
    <2> QED  BY <2>1, <2>2
  <1>10. PICK c, nc : /\ c = IF project.edges = Missing THEN <<>> ELSE csv
                      /\ nc = IF project.edges = Missing THEN 0 ELSE 1
    OBVIOUS
  <1>11. /\ Orderly(c) /\ Len(c) = nc
         /\ \A i \in 1..Len(c) : i = 1 /\ nc = 1 /\ c[i].op = "write" /\ c[i].field = "csv" /\ c[i].content = rows
    <2>1. PICK o : o = Write("csv", rows)
      OBVIOUS
    <2>2. Orderly(<<o>>)
      BY <2>1, WriteIsOrderly
    <2>3. o.op = "write" /\ o.field = "csv" /\ o.content = rows
      BY <2>1 DEF Write
    <2>4. IF project.edges = Missing THEN c = <<>> ELSE c = <<o>>
      BY <1>2, <1>10, <2>1
    <2>5. CASE project.edges = Missing
      BY <1>10, <2>4, <2>5, NothingIsOrderly
    <2>6. CASE project.edges # Missing
      <3>1. c = <<o>> /\ nc = 1
        BY <1>10, <2>4, <2>6
      <3>2. Len(c) = 1 /\ c[1] = o
        BY <3>1
      <3> QED  BY <2>2, <2>3, <3>1, <3>2
    <2> QED  BY <2>5, <2>6
  <1>12. PICK e : e = IF dry \/ stops THEN <<>> ELSE end
    OBVIOUS
  <1>13. /\ Orderly(e)
         /\ \A i \in 1..Len(e) : (i = 1 /\ e[i].op = "seed") \/ (i > 1 /\ e[i].op \in {"mark", "mirror"})
         /\ Len(e) # 0 => ~stops
    <2>1. CASE dry \/ stops
      BY <1>12, <2>1, NothingIsOrderly
    <2>2. CASE ~(dry \/ stops)
      <3>1. PICK m : m = MarkSteps("load")
        OBVIOUS
      <3>2. Orderly(m)
        BY <3>1, MarkIsOrderly DEF Passes
      <3>3. PICK o : o = Step("seed")
        OBVIOUS
      <3>4. PICK x : x = <<o>>
        OBVIOUS
      <3>5. Orderly(x) /\ Len(x) = 1 /\ x[1] = o /\ o.op = "seed"
        BY <3>3, <3>4, StepIsOrderly DEF Step
      <3>6. e = x \o m
        BY <1>12, <2>2, <3>1, <3>3, <3>4
      <3>7. Orderly(e)
        BY <3>2, <3>5, <3>6, OrderlyJoined
      <3>8. /\ \A i \in 1..Len(x) : e[i] = x[i]
            /\ \A i \in 1..Len(m) : e[Len(x) + i] = m[i]
            /\ \A i \in 1..Len(e) : i \in 1..Len(x) \/ i - Len(x) \in 1..Len(m)
        <4>1. Listed(x) /\ Listed(m)
          BY <3>2, <3>5 DEF Orderly
        <4>2. /\ \A i \in 1..Len(x) : (x \o m)[i] = x[i]
              /\ \A i \in 1..Len(m) : (x \o m)[Len(x) + i] = m[i]
              /\ \A i \in 1..Len(x \o m) : i \in 1..Len(x) \/ i - Len(x) \in 1..Len(m)
          BY <4>1, Joined
        <4> QED  BY ONLY <3>6, <4>2
      <3>9. \A i \in 1..Len(m) : m[i].op \in {"mark", "mirror"}
        BY <3>1, MarkStepsAre
      <3>10. ASSUME NEW i \in 1..Len(e)
             PROVE  (i = 1 /\ e[i].op = "seed") \/ (i > 1 /\ e[i].op \in {"mark", "mirror"})
        <4>1. CASE i \in 1..Len(x)
          <5>1. i = 1
            BY <3>5, <4>1
          <5>2. e[i] = x[i]
            BY <3>8, <4>1
          <5>3. e[i] = o
            BY <3>5, <5>1, <5>2
          <5>4. o.op = "seed"
            BY <3>5
          <5> QED  BY <5>1, <5>3, <5>4
        <4>2. CASE i - Len(x) \in 1..Len(m)
          <5>1. PICK j \in 1..Len(m) : j = i - 1
            BY <3>5, <4>2
          <5>2. i = 1 + j /\ i > 1
            BY <5>1
          <5>3. e[i] = m[j]
            BY <3>5, <3>8, <5>2
          <5> QED  BY <3>9, <5>2, <5>3
        <4> QED  BY <3>8, <4>1, <4>2
      <3> QED  BY <2>2, <3>7, <3>10
    <2> QED  BY <2>1, <2>2
  <1>14. PICK whole : whole = (a \o (b \o c)) \o e
    OBVIOUS
  <1>15. Orderly(whole)
    <2>1. PICK bc : bc = b \o c
      OBVIOUS
    <2>2. Orderly(bc)
      BY <1>9, <1>11, <2>1, OrderlyJoined
    <2>3. PICK abc : abc = a \o bc
      OBVIOUS
    <2>4. Orderly(abc)
      BY <1>6, <2>2, <2>3, OrderlyJoined
    <2>5. Orderly(abc \o e)
      BY <1>13, <2>4, OrderlyJoined
    <2> QED  BY <1>14, <2>1, <2>3, <2>5
  <1>16. Execute("load", IF refused THEN a ELSE whole)
    <2>1. stops = Fails(marks(publish), listed)
      BY <1>2
    <2> HIDE DEF patches, copies, csv, end, marks, listed, read, Fails
    <2> QED  BY <1>1, <1>4, <1>7, <1>10, <1>12, <1>14, <2>1
  <1>17. PICK na : na = Len(a)
    OBVIOUS
  <1>18. na \in {0, Len(some)} /\ (na = 0 => ~publish \/ Len(some) = 0)
    BY <1>6, <1>17
  <1>19. /\ DOMAIN marked = {some[j] : j \in 1..Len(some)} /\ DOMAIN marked \subseteq DOMAIN project.drafts
         /\ \A x \in DOMAIN marked : FileOK(marked[x])
         /\ na = 0 => \A x \in DOMAIN marked : marked[x] = project.drafts[x]
    <2>1. marked = [s \in {some[i] : i \in 1..Len(some)} |->
                      IF publish THEN [project.drafts[s] EXCEPT !.life = "published"] ELSE project.drafts[s]]
      <3> HIDE DEF read
      <3> QED  BY <1>2, <1>3
    <2>2. ASSUME NEW j \in 1..Len(some) PROVE some[j] \in DOMAIN project.drafts
      <3>1. some \in Seq(Slugs \cap DOMAIN project.drafts)
        BY <1>2, ReadableFacts
      <3>2. some[j] \in Slugs \cap DOMAIN project.drafts
        BY <3>1
      <3> QED  BY <3>2
    <2>3. DOMAIN marked = {some[j] : j \in 1..Len(some)} /\ DOMAIN marked \subseteq DOMAIN project.drafts
      BY <2>1, <2>2
    <2>4. ASSUME NEW x \in DOMAIN marked PROVE FileOK(marked[x])
      <3>1. PICK d, n : d = project.drafts[x] /\ n = [d EXCEPT !.life = "published"]
        OBVIOUS
      <3>2. FileOK(d)
        BY <2>3, <3>1 DEF FilesOK
      <3>3. FileOK(n)
        BY <3>1, <3>2 DEF FileOK, NodeOK, Torn, LifecycleState
      <3>4. marked[x] = IF publish THEN n ELSE d
        BY <2>1, <3>1
      <3> QED  BY <3>2, <3>3, <3>4
    <2>5. ASSUME na = 0, NEW x \in DOMAIN marked PROVE marked[x] = project.drafts[x]
      <3>1. PICK j \in 1..Len(some) : some[j] = x
        BY <2>3
      <3>2. ~publish
        BY <1>3, <1>18, <2>5
      <3> QED  BY <2>1, <3>2
    <2> QED  BY <2>3, <2>4, <2>5
  <1>20. Len(whole) = na + Len(some) + nc + Len(e)
         /\ \A i \in 1..Len(whole) :
              \/ i \in 1..na /\ whole[i] = a[i]
              \/ i - na \in 1..Len(some) /\ whole[i] = b[i - na]
              \/ i - na - Len(some) \in 1..nc /\ whole[i] = c[i - na - Len(some)]
              \/ i - na - Len(some) - nc \in 1..Len(e) /\ whole[i] = e[i - na - Len(some) - nc]
    <2>1. Listed(a) /\ Listed(b) /\ Listed(c) /\ Listed(e)
      BY <1>6, <1>9, <1>11, <1>13 DEF Orderly
    <2>2. PICK nb, mc, ne : nb = Len(b) /\ mc = Len(c) /\ ne = Len(e)
      OBVIOUS
    <2>3. /\ Len(whole) = Len(a) + Len(b) + Len(c) + Len(e)
          /\ \A i \in 1..Len(whole) :
                \/ i \in 1..Len(a) /\ whole[i] = a[i]
                \/ i - Len(a) \in 1..Len(b) /\ whole[i] = b[i - Len(a)]
                \/ i - Len(a) - Len(b) \in 1..Len(c) /\ whole[i] = c[i - Len(a) - Len(b)]
                \/ i - Len(a) - Len(b) - Len(c) \in 1..Len(e) /\ whole[i] = e[i - Len(a) - Len(b) - Len(c)]
      BY <1>14, <2>1, LoadParts
    <2> QED  BY ONLY <1>9, <1>11, <1>17, <2>3
  <1>21. na \in Nat /\ nc \in 0..1 /\ Len(e) \in Nat
    BY <1>3, <1>10, <1>13, <1>18 DEF Orderly, Listed
  <1>22. ASSUME NEW i \in 1..na
         PROVE  a[i].op = "put" /\ a[i].slug = some[i] /\ a[i].draft = marked[some[i]]
    <2>1. publish /\ na = Len(some)
      <3>1. na # 0
        BY <1>21
      <3>2. na = IF publish THEN Len(some) ELSE 0
        BY <1>6, <1>17
      <3> QED  BY ONLY <3>1, <3>2
    <2>2. i \in DOMAIN some
      BY <1>3, <2>1
    <2> QED  BY <1>5, <2>1, <2>2
  <1>23. LoadSteps(whole, some, marked, rows, na, nc)
    <2>1. ASSUME NEW i \in 1..Len(whole)
          PROVE  \/ i \in 1..na /\ whole[i].op = "put" /\ whole[i].slug = some[i] /\ whole[i].draft = marked[some[i]]
                 \/ i - na \in 1..Len(some) /\ whole[i].op = "copy" /\ whole[i].slug = some[i - na]
                 \/ nc = 1 /\ i = na + Len(some) + 1 /\ whole[i].op = "write" /\ whole[i].field = "csv" /\ whole[i].content = rows
                 \/ i = na + Len(some) + nc + 1 /\ whole[i].op = "seed"
                 \/ i > na + Len(some) + nc + 1 /\ whole[i].op \in {"mark", "mirror"}
      <3>1. CASE i \in 1..na /\ whole[i] = a[i]
        BY <1>22, <3>1
      <3>2. CASE i - na \in 1..Len(some) /\ whole[i] = b[i - na]
        BY <1>3, <1>8, <3>2
      <3>3. CASE i - na - Len(some) \in 1..nc /\ whole[i] = c[i - na - Len(some)]
        <4>1. PICK j \in 1..nc : j = i - na - Len(some)
          BY <3>3
        <4>2. j = 1 /\ nc = 1 /\ whole[i] = c[j]
          BY <1>11, <1>21, <3>3, <4>1
        <4>3. i = na + Len(some) + 1
          BY <1>3, <1>21, <4>1, <4>2
        <4> QED  BY <1>11, <4>2, <4>3
      <3>4. CASE i - na - Len(some) - nc \in 1..Len(e) /\ whole[i] = e[i - na - Len(some) - nc]
        <4>1. PICK j \in 1..Len(e) : j = i - na - Len(some) - nc
          BY <3>4
        <4>2. (j = 1 /\ e[j].op = "seed") \/ (j > 1 /\ e[j].op \in {"mark", "mirror"})
          BY <1>13
        <4>3. i = na + Len(some) + nc + j /\ whole[i] = e[j]
          BY <1>3, <1>21, <3>4, <4>1
        <4>4. j > 1 => i > na + Len(some) + nc + 1
          BY <1>3, <1>21, <4>3
        <4> QED  BY <4>2, <4>3, <4>4
      <3> QED  BY <1>20, <3>1, <3>2, <3>3, <3>4
    <2>2. na + Len(some) + nc < Len(whole) =>
            /\ ~SeedFails(db, PackLeft(marked, rows))
            /\ \A x \in DOMAIN PackLeft(marked, rows).nodes : PackLeft(marked, rows).nodes[x] # Torn
      <3>1. na + Len(some) + nc < Len(whole) => Len(e) # 0
        BY <1>3, <1>20, <1>21
      <3>2. stops = Fails(marked, rows)
        BY <1>2
      <3> QED  BY <1>13, <3>1, <3>2
    <2> QED  BY <1>3, <1>10, <1>18, <1>19, <2>1, <2>2 DEF LoadSteps
  <1>24. LoadSteps(a, some, marked, rows, na, nc)
    <2>1. \A i \in 1..Len(a) : i \in 1..na /\ a[i].op = "put" /\ a[i].slug = some[i] /\ a[i].draft = marked[some[i]]
      BY <1>17, <1>22
    <2>2. ~(na + Len(some) + nc < Len(a))
      BY <1>3, <1>17, <1>21
    <2> QED  BY <1>3, <1>10, <1>18, <1>19, <2>1, <2>2 DEF LoadSteps
  <1>25. CASE refused
    BY <1>6, <1>16, <1>24, <1>25
  <1>26. CASE ~refused
    BY <1>15, <1>16, <1>23, <1>26
  <1> QED  BY <1>25, <1>26

-----------------------------------------------------------------------------
(* What the commands leave in the files and in the database.               *)

\* A file more, or one written again.
LEMMA FilesMore ==
    ASSUME NEW files, \A s \in DOMAIN files : FileOK(files[s]), NEW x, NEW content, FileOK(content)
    PROVE  \A s \in DOMAIN With(files, x, content) : FileOK(With(files, x, content)[s])
  BY DEF With

\* Only a copy adds nodes, and only a seed changes the database.
LEMMA Untouched ==
    ASSUME NEW w, WorldOK(w), FilesOK(w.project), NEW o, OpOK(o), o.op \notin {"copy", "seed"},
           o.op = "put" => FileOK(o.draft)
    PROVE  /\ FilesOK(Apply(w, o).project)
           /\ Apply(w, o).db = w.db /\ Apply(w, o).seeded = w.seeded
           /\ Apply(w, o).project.nodes = w.project.nodes
  <1>1. CASE o.op \in {"home", "manifest", "source", "bind"}
    <2>1. /\ Apply(w, o).project.drafts = w.project.drafts
          /\ Apply(w, o).project.nodes = w.project.nodes
          /\ Apply(w, o).db = w.db /\ Apply(w, o).seeded = w.seeded
      BY <1>1 DEF Apply, WorldOK, ProjectOK, NoProject
    <2> QED  BY <2>1 DEF FilesOK
  <1>2. CASE o.op = "write"
    <2>1. o.field \in {"segments", "matrix", "edges", "csv"}
      BY <1>2 DEF OpOK
    <2>2. Apply(w, o) = [w EXCEPT !.project[o.field] = o.content]
      BY <1>2 DEF Apply
    <2>3. /\ Apply(w, o).project = [w.project EXCEPT ![o.field] = o.content]
          /\ Apply(w, o).db = w.db /\ Apply(w, o).seeded = w.seeded
      BY <2>2 DEF WorldOK
    <2>4. /\ Apply(w, o).project.drafts = w.project.drafts
          /\ Apply(w, o).project.nodes = w.project.nodes
      BY <2>1, <2>3 DEF WorldOK, ProjectOK, NoProject
    <2> QED  BY <2>3, <2>4 DEF FilesOK
  <1>3. CASE o.op = "put"
    <2>1. PICK files : files = With(w.project.drafts, o.slug, o.draft)
      OBVIOUS
    <2>2. Apply(w, o) = [w EXCEPT !.project.drafts = files]
      BY <1>3, <2>1 DEF Apply
    <2>3. /\ Apply(w, o).project.drafts = files /\ Apply(w, o).project.nodes = w.project.nodes
          /\ Apply(w, o).db = w.db /\ Apply(w, o).seeded = w.seeded
      BY <2>2 DEF WorldOK, ProjectOK, NoProject
    <2>4. \A s \in DOMAIN files : FileOK(files[s])
      BY <1>3, <2>1, FilesMore DEF FilesOK
    <2> QED  BY <2>3, <2>4 DEF FilesOK
  <1>4. CASE o.op = "retire"
    <2>1. PICK files, gone :
            /\ files = WithoutFile(w.project.drafts, o.slug)
            /\ gone = {a \in w.project.archived : a.slug # o.slug} \cup {[slug |-> o.slug, heirs |-> o.heirs]}
      OBVIOUS
    <2>2. PICK v : v = [w EXCEPT !.project.drafts = files]
      OBVIOUS
    <2>3. v.project.archived = w.project.archived
      BY <2>2 DEF WorldOK, ProjectOK, NoProject
    <2>4. Apply(w, o) = w \/ Apply(w, o) = [v EXCEPT !.project.archived = gone]
      BY <1>4, <2>1, <2>2, <2>3 DEF Apply
    <2>5. /\ v.project.drafts = files /\ v.project.nodes = w.project.nodes /\ DOMAIN v.project = DOMAIN w.project
          /\ v.db = w.db /\ v.seeded = w.seeded /\ DOMAIN v = DOMAIN w
      BY <2>2 DEF WorldOK, ProjectOK, NoProject
    <2>6. \/ Apply(w, o) = w
          \/ /\ Apply(w, o).project.drafts = files /\ Apply(w, o).project.nodes = w.project.nodes
             /\ Apply(w, o).db = w.db /\ Apply(w, o).seeded = w.seeded
      BY <2>4, <2>5 DEF WorldOK, ProjectOK, NoProject
    <2>7. \A s \in DOMAIN files : FileOK(files[s])
      BY <2>1 DEF WithoutFile, FilesOK
    <2> QED  BY <2>6, <2>7 DEF FilesOK
  <1>5. CASE o.op = "mark"
    <2>1. /\ Apply(w, o).project.drafts = w.project.drafts
          /\ Apply(w, o).project.nodes = w.project.nodes
          /\ Apply(w, o).db = w.db /\ Apply(w, o).seeded = w.seeded
      BY <1>5 DEF Apply, WorldOK, ProjectOK, NoProject
    <2> QED  BY <2>1 DEF FilesOK
  <1>6. CASE o.op = "mirror"
    <2>1. Apply(w, o) = [w EXCEPT !.job = CompletePass(w.job, o.pass)]
      BY <1>6 DEF Apply
    <2>2. Apply(w, o).project = w.project /\ Apply(w, o).db = w.db /\ Apply(w, o).seeded = w.seeded
      BY <2>1 DEF WorldOK
    <2> QED  BY <2>2
  <1> QED  BY <1>1, <1>2, <1>3, <1>4, <1>5, <1>6 DEF OpOK

\* An operation cut short never reaches the database, and a torn file is a file.
LEMMA TornFiles ==
    ASSUME NEW w, WorldOK(w), FilesOK(w.project), NEW o, OpOK(o)
    PROVE  /\ FilesOK(Tear(w, o).project)
           /\ Tear(w, o).db = w.db /\ Tear(w, o).seeded = w.seeded
  <1>1. CASE o.op \in {"manifest", "bind", "mark"}
    <2>1. /\ Tear(w, o).project.drafts = w.project.drafts
          /\ Tear(w, o).project.nodes = w.project.nodes
          /\ Tear(w, o).db = w.db /\ Tear(w, o).seeded = w.seeded
      BY <1>1 DEF Tear, WorldOK, ProjectOK, NoProject
    <2> QED  BY <2>1 DEF FilesOK
  <1>2. CASE o.op = "write"
    <2>1. CASE o.field = "segments"
      <3>1. /\ Tear(w, o).project.drafts = w.project.drafts
            /\ Tear(w, o).project.nodes = w.project.nodes
            /\ Tear(w, o).db = w.db /\ Tear(w, o).seeded = w.seeded
        BY <1>2, <2>1 DEF Tear, WorldOK, ProjectOK, NoProject
      <3> QED  BY <3>1 DEF FilesOK
    <2>2. CASE o.field = "csv"
      <3>1. /\ Tear(w, o).project.drafts = w.project.drafts
            /\ Tear(w, o).project.nodes = w.project.nodes
            /\ Tear(w, o).db = w.db /\ Tear(w, o).seeded = w.seeded
        BY <1>2, <2>2 DEF Tear, WorldOK, ProjectOK, NoProject
      <3> QED  BY <3>1 DEF FilesOK
    <2>3. CASE o.field = "matrix"
      <3>1. /\ Tear(w, o).project.drafts = w.project.drafts
            /\ Tear(w, o).project.nodes = w.project.nodes
            /\ Tear(w, o).db = w.db /\ Tear(w, o).seeded = w.seeded
        BY <1>2, <2>3 DEF Tear, WorldOK, ProjectOK, NoProject
      <3> QED  BY <3>1 DEF FilesOK
    <2>4. CASE o.field = "edges"
      <3>1. /\ Tear(w, o).project.drafts = w.project.drafts
            /\ Tear(w, o).project.nodes = w.project.nodes
            /\ Tear(w, o).db = w.db /\ Tear(w, o).seeded = w.seeded
        BY <1>2, <2>4 DEF Tear, WorldOK, ProjectOK, NoProject
      <3> QED  BY <3>1 DEF FilesOK
    <2> QED  BY <1>2, <2>1, <2>2, <2>3, <2>4 DEF OpOK
  <1>3. CASE o.op = "put"
    <2>1. PICK files : files = With(w.project.drafts, o.slug, Torn)
      OBVIOUS
    <2>2. Tear(w, o) = [w EXCEPT !.project.drafts = files]
      BY <1>3, <2>1 DEF Tear
    <2>3. /\ Tear(w, o).project.drafts = files /\ Tear(w, o).project.nodes = w.project.nodes
          /\ Tear(w, o).db = w.db /\ Tear(w, o).seeded = w.seeded
      BY <2>2 DEF WorldOK, ProjectOK, NoProject
    <2>4. \A s \in DOMAIN files : FileOK(files[s])
      <3>1. FileOK(Torn)
        BY DEF FileOK
      <3> QED  BY <2>1, <3>1, FilesMore DEF FilesOK
    <2> QED  BY <2>3, <2>4 DEF FilesOK
  <1>4. CASE o.op = "copy"
    <2>1. PICK files : files = With(w.project.nodes, o.slug, Torn)
      OBVIOUS
    <2>2. Tear(w, o) = [w EXCEPT !.project.nodes = files]
      BY <1>4, <2>1 DEF Tear
    <2>3. /\ Tear(w, o).project.nodes = files /\ Tear(w, o).project.drafts = w.project.drafts
          /\ Tear(w, o).db = w.db /\ Tear(w, o).seeded = w.seeded
      BY <2>2 DEF WorldOK, ProjectOK, NoProject
    <2>4. \A s \in DOMAIN files : FileOK(files[s])
      <3>1. FileOK(Torn)
        BY DEF FileOK
      <3> QED  BY <2>1, <3>1, FilesMore DEF FilesOK
    <2>5. files = [s \in DOMAIN files |-> files[s]]
      BY <2>1 DEF With
    <2> QED  BY <2>3, <2>4, <2>5 DEF FilesOK
  <1>5. CASE o.op \in {"home", "source", "seed", "retire", "mirror"}
    BY <1>5 DEF Tear
  <1> QED  BY <1>1, <1>2, <1>3, <1>4, <1>5 DEF OpOK

\* The database is as it was.
Unseeded(w) == FilesOK(w.project) /\ w.db = db /\ w.seeded = seeded

\* One pack was loaded into it.
Reseeded(w) ==
    /\ FilesOK(w.project)
    /\ \E pack : PackOK(pack) /\ ~SeedFails(db, pack) /\ w.db = Loaded(db, pack) /\ w.seeded = pack

\* Calm operations, whole or cut short, leave the database alone.
LEMMA CalmLeaves ==
    ASSUME PipelineInv, FilesOK(project), NEW pass, NEW ops, Calm(ops), NEW k, NEW torn, NEW h,
           Cut(pass, ops, k, torn, h)
    PROVE  Unseeded(Left(h, k, torn, ops))
  <1>1. Orderly(ops) /\ Len(ops) \in Nat
    BY DEF Calm, Orderly, Listed
  <1>2. k \in Nat /\ k <= Len(ops) /\ \A i \in 0..k : HoldsAfter(h[i], ops, i)
    BY <1>1, WorldsHold
  <1>3. \A i \in 1..Len(ops) : OpOK(ops[i]) /\ ops[i].op \notin {"copy", "seed"}
                               /\ (ops[i].op = "put" => FileOK(ops[i].draft))
    BY <1>1 DEF Calm, Orderly
  <1> DEFINE T == {i \in Nat : i <= k => Unseeded(h[i])}
  <1>4. 0 \in T
    <2>1. h[0] = World
      BY DEF Cut
    <2>2. Unseeded(h[0])
      BY <2>1 DEF Unseeded, World
    <2> QED  BY <2>2
  <1>5. ASSUME NEW i \in T \cap Nat PROVE i + 1 \in T
    <2> SUFFICES ASSUME i + 1 <= k PROVE Unseeded(h[i + 1])
      OBVIOUS
    <2>1. i <= k /\ i \in 0..k /\ i + 1 \in 1..k /\ i + 1 \in 1..Len(ops) /\ (i + 1) - 1 = i
      BY <1>1, <1>2
    <2>2. Unseeded(h[i]) /\ WorldOK(h[i])
      BY <1>2, <2>1 DEF HoldsAfter
    <2>3. h[i + 1] = Apply(h[i], ops[i + 1])
      BY <2>1 DEF Cut
    <2> HIDE DEF T
    <2>4. PICK w, o, v : w = h[i] /\ o = ops[i + 1] /\ v = Apply(w, o)
      OBVIOUS
    <2>5. FilesOK(v.project) /\ v.db = w.db /\ v.seeded = w.seeded
      <3>1. OpOK(o) /\ o.op \notin {"copy", "seed"} /\ (o.op = "put" => FileOK(o.draft))
        BY <1>3, <2>1, <2>4
      <3>2. WorldOK(w) /\ FilesOK(w.project)
        BY <2>2, <2>4 DEF Unseeded
      <3> QED  BY <2>4, <3>1, <3>2, Untouched
    <2> QED  BY <2>2, <2>3, <2>4, <2>5 DEF Unseeded
  <1>6. Unseeded(h[k]) /\ WorldOK(h[k])
    <2>1. k \in T
      <3> HIDE DEF T
      <3> QED  BY <1>2, <1>4, <1>5, SetInduction
    <2> QED  BY <1>2, <2>1 DEF HoldsAfter
  <1> HIDE DEF T
  <1>7. CASE torn = TRUE
    <2>1. k + 1 \in 1..Len(ops)
      BY <1>1, <1>2, <1>7 DEF Cut
    <2>2. PICK w, o, v : w = h[k] /\ o = ops[k + 1] /\ v = Tear(w, o)
      OBVIOUS
    <2>3. FilesOK(v.project) /\ v.db = w.db /\ v.seeded = w.seeded
      BY <1>3, <1>6, <2>1, <2>2, TornFiles DEF Unseeded
    <2>4. Unseeded(v)
      BY <1>6, <2>2, <2>3 DEF Unseeded
    <2> QED  BY <1>7, <2>2, <2>4 DEF Left
  <1>8. CASE torn = FALSE
    BY <1>6, <1>8 DEF Left
  <1>9. torn \in BOOLEAN
    BY Zenon DEF Cut
  <1> QED  BY <1>7, <1>8, <1>9

\* The nodes a load has copied after i operations.
Copied(s, na, i) == {s[j] : j \in {m \in 1..Len(s) : na + m <= i}}

\* The directory after i operations of a load, before the seed.
LoadLeft(p, s, marked, rows, na, nc, i) ==
    /\ DOMAIN p.drafts = DOMAIN project.drafts
    /\ \A j \in 1..Len(s) : na = 0 \/ j <= i => p.drafts[s[j]] = marked[s[j]]
    /\ p.nodes = [x \in DOMAIN project.nodes \cup Copied(s, na, i) |->
                    IF x \in Copied(s, na, i) THEN marked[x] ELSE project.nodes[x]]
    /\ p.csv = IF nc = 1 /\ i = na + Len(s) + 1 THEN rows ELSE project.csv

\* The world after i operations of a load.
LoadAt(w, s, marked, rows, na, nc, i) ==
    /\ FilesOK(w.project)
    /\ i <= na + Len(s) + nc => Unseeded(w) /\ LoadLeft(w.project, s, marked, rows, na, nc, i)
    /\ i > na + Len(s) + nc => Reseeded(w)

\* Operation n of a load, before which nothing was seeded: what it does to the files.
LEMMA LoadCopies ==
    ASSUME NEW s \in Seq(Slugs), NEW na \in Nat, NEW i \in Nat
    PROVE  /\ i <= na => Copied(s, na, i) = {}
           /\ na + Len(s) <= i => Copied(s, na, i) = {s[j] : j \in 1..Len(s)}
           /\ \A m \in 1..Len(s) : i + 1 = na + m => Copied(s, na, i + 1) = Copied(s, na, i) \cup {s[m]}
  <1>1. PICK n \in Nat : n = Len(s)
    OBVIOUS
  <1>2. i <= na => \A m \in 1..n : ~(na + m <= i)
    OBVIOUS
  <1>3. na + n <= i => \A m \in 1..n : na + m <= i
    OBVIOUS
  <1>4. \A m \in 1..n : i + 1 = na + m => \A j \in 1..n : na + j <= i + 1 <=> na + j <= i \/ j = m
    OBVIOUS
  <1>5. i <= na => Copied(s, na, i) = {}
    BY <1>1, <1>2 DEF Copied
  <1>6. na + n <= i => Copied(s, na, i) = {s[j] : j \in 1..n}
    BY <1>1, <1>3 DEF Copied
  <1>7. ASSUME NEW m \in 1..n, i + 1 = na + m PROVE Copied(s, na, i + 1) = Copied(s, na, i) \cup {s[m]}
    <2>1. PICK A, B : A = {j \in 1..n : na + j <= i + 1} /\ B = {j \in 1..n : na + j <= i}
      OBVIOUS
    <2>2. \A j \in 1..n : j \in A <=> j \in B \/ j = m
      BY <1>4, <1>7, <2>1
    <2>3. A = B \cup {m}
      BY <2>1, <2>2
    <2>4. Copied(s, na, i + 1) = {s[j] : j \in A} /\ Copied(s, na, i) = {s[j] : j \in B}
      BY <1>1, <2>1 DEF Copied
    <2> QED  BY <2>3, <2>4
  <1> QED  BY <1>1, <1>5, <1>6, <1>7

\* A draft is marked.
LEMMA LoadMarks ==
    ASSUME NEW ops, NEW s, NEW marked, NEW rows, NEW na, NEW nc, LoadSteps(ops, s, marked, rows, na, nc),
           NEW i \in Nat, NEW w, WorldOK(w), LoadAt(w, s, marked, rows, na, nc, i), NEW o, OpOK(o),
           i + 1 \in 1..na, o.op = "put", o.slug = s[i + 1], o.draft = marked[s[i + 1]]
    PROVE  LoadAt(Apply(w, o), s, marked, rows, na, nc, i + 1)
  <1>1. PICK v, n : v = Apply(w, o) /\ n = Len(s)
    OBVIOUS
  <1>2. s \in Seq(Slugs) /\ n \in Nat /\ na = n /\ nc \in {0, 1}
    BY <1>1 DEF LoadSteps
  <1>3. i + 1 \in 1..n /\ i <= na + n + nc /\ i + 1 <= na + n + nc /\ i + 1 <= na
    BY <1>2
  <1>4. PICK x : x = s[i + 1]
    OBVIOUS
  <1>5. x \in DOMAIN marked /\ x \in DOMAIN project.drafts /\ FileOK(marked[x])
    <2>1. DOMAIN marked = {s[j] : j \in 1..n} /\ DOMAIN marked \subseteq DOMAIN project.drafts
          /\ \A y \in DOMAIN marked : FileOK(marked[y])
      BY <1>1 DEF LoadSteps
    <2> QED  BY <1>3, <1>4, <2>1
  <1>6. Unseeded(w) /\ LoadLeft(w.project, s, marked, rows, na, nc, i)
    BY <1>1, <1>3 DEF LoadAt
  <1>7. /\ FilesOK(v.project) /\ v.db = w.db /\ v.seeded = w.seeded /\ v.project.nodes = w.project.nodes
    BY <1>1, <1>4, <1>5, <1>6, Untouched DEF Unseeded
  <1>8. v.project.drafts = With(w.project.drafts, x, marked[x]) /\ v.project.csv = w.project.csv
    <2>1. PICK files : files = With(w.project.drafts, x, marked[x])
      OBVIOUS
    <2>2. v = [w EXCEPT !.project.drafts = files]
      BY <1>1, <1>4, <2>1 DEF Apply
    <2> QED  BY <2>1, <2>2 DEF WorldOK, ProjectOK, NoProject
  <1>9. DOMAIN v.project.drafts = DOMAIN project.drafts
    BY <1>5, <1>6, <1>8 DEF LoadLeft, With
  <1>10. ASSUME NEW j \in 1..n, j <= i + 1 PROVE v.project.drafts[s[j]] = marked[s[j]]
    <2>1. j <= i \/ j = i + 1
      BY <1>10
    <2>2. s[j] = x \/ (s[j] # x /\ j <= i)
      BY <1>4, <2>1
    <2>3. CASE s[j] = x
      BY <1>8, <2>3 DEF With
    <2>4. CASE s[j] # x /\ j <= i
      <3>1. w.project.drafts[s[j]] = marked[s[j]]
        BY <1>1, <1>6, <2>4 DEF LoadLeft
      <3>2. s[j] \in DOMAIN project.drafts
        <4>1. DOMAIN marked = {s[m] : m \in 1..n} /\ DOMAIN marked \subseteq DOMAIN project.drafts
          BY <1>1 DEF LoadSteps
        <4> QED  BY <4>1
      <3>3. s[j] \in DOMAIN w.project.drafts
        BY <1>6, <3>2 DEF LoadLeft
      <3> QED  BY <1>8, <2>4, <3>1, <3>3 DEF With
    <2> QED  BY <2>2, <2>3, <2>4
  <1>11. Copied(s, na, i) = {} /\ Copied(s, na, i + 1) = {}
    BY <1>2, <1>3, LoadCopies
  <1>12. LoadLeft(v.project, s, marked, rows, na, nc, i + 1)
    <2>1. na # 0
      BY <1>3
    <2>2. i # na + n + 1 /\ i + 1 # na + n + 1
      BY <1>2, <1>3
    <2>3. v.project.csv = project.csv
      BY <1>1, <1>6, <1>8, <2>2 DEF LoadLeft
    <2>4. v.project.nodes = [y \in DOMAIN project.nodes \cup Copied(s, na, i + 1) |->
                               IF y \in Copied(s, na, i + 1) THEN marked[y] ELSE project.nodes[y]]
      BY <1>6, <1>7, <1>11 DEF LoadLeft
    <2> QED  BY <1>1, <1>9, <1>10, <2>1, <2>2, <2>3, <2>4 DEF LoadLeft
  <1>13. Unseeded(v)
    BY <1>6, <1>7 DEF Unseeded
  <1>14. ~(i + 1 > na + n + nc)
    BY <1>2, <1>3
  <1> QED  BY <1>1, <1>7, <1>12, <1>13, <1>14 DEF LoadAt

\* A draft is copied to the nodes.
LEMMA LoadCopy ==
    ASSUME NEW ops, NEW s, NEW marked, NEW rows, NEW na, NEW nc, LoadSteps(ops, s, marked, rows, na, nc),
           NEW i \in Nat, NEW w, WorldOK(w), LoadAt(w, s, marked, rows, na, nc, i), NEW o, OpOK(o),
           (i + 1) - na \in 1..Len(s), o.op = "copy", o.slug = s[(i + 1) - na]
    PROVE  LoadAt(Apply(w, o), s, marked, rows, na, nc, i + 1)
  <1>1. PICK v, n : v = Apply(w, o) /\ n = Len(s)
    OBVIOUS
  <1>2. s \in Seq(Slugs) /\ n \in Nat /\ na \in {0, n} /\ nc \in {0, 1}
    BY <1>1 DEF LoadSteps
  <1>3. PICK m \in 1..n : m = (i + 1) - na
    BY <1>1
  <1>4. i + 1 = na + m /\ i <= na + n + nc /\ i + 1 <= na + n + nc /\ (na = 0 \/ m <= i) /\ i # na + n + 1 /\ i + 1 # na + n + 1
    BY <1>2, <1>3
  <1>5. PICK x : x = s[m]
    OBVIOUS
  <1>6. x \in DOMAIN marked /\ FileOK(marked[x])
    <2>1. DOMAIN marked = {s[j] : j \in 1..n} /\ \A y \in DOMAIN marked : FileOK(marked[y])
      BY <1>1 DEF LoadSteps
    <2> QED  BY <1>5, <2>1
  <1>7. Unseeded(w) /\ LoadLeft(w.project, s, marked, rows, na, nc, i)
    BY <1>1, <1>4 DEF LoadAt
  <1>8. w.project.drafts[x] = marked[x]
    BY <1>1, <1>4, <1>5, <1>7 DEF LoadLeft
  <1>9. PICK files : files = With(w.project.nodes, x, marked[x])
    OBVIOUS
  <1>10. v = [w EXCEPT !.project.nodes = files]
    BY <1>1, <1>3, <1>5, <1>8, <1>9 DEF Apply
  <1>11. /\ v.project.nodes = files /\ v.project.drafts = w.project.drafts /\ v.project.csv = w.project.csv
         /\ v.db = w.db /\ v.seeded = w.seeded
    BY <1>10 DEF WorldOK, ProjectOK, NoProject
  <1>12. FilesOK(v.project)
    <2>1. \A y \in DOMAIN files : FileOK(files[y])
      BY <1>6, <1>7, <1>9, FilesMore DEF Unseeded, FilesOK
    <2>2. files = [y \in DOMAIN files |-> files[y]]
      BY <1>9 DEF With
    <2> QED  BY <1>7, <1>11, <2>1, <2>2 DEF Unseeded, FilesOK
  <1>13. PICK A, B : A = Copied(s, na, i) /\ B = Copied(s, na, i + 1)
    OBVIOUS
  <1>14. B = A \cup {x}
    <2>1. na \in Nat /\ m \in 1..Len(s)
      BY <1>1, <1>2
    <2>2. \A l \in 1..Len(s) : i + 1 = na + l => Copied(s, na, i + 1) = Copied(s, na, i) \cup {s[l]}
      BY <1>2, <2>1, LoadCopies
    <2> QED  BY <1>4, <1>5, <1>13, <2>1, <2>2
  <1>15. files = [y \in DOMAIN project.nodes \cup B |-> IF y \in B THEN marked[y] ELSE project.nodes[y]]
    <2>1. PICK old : old = w.project.nodes
      OBVIOUS
    <2>2. old = [y \in DOMAIN project.nodes \cup A |-> IF y \in A THEN marked[y] ELSE project.nodes[y]]
      BY <1>7, <1>13, <2>1 DEF LoadLeft
    <2>3. files = [y \in DOMAIN old \cup {x} |-> IF y = x THEN marked[x] ELSE old[y]]
      BY <1>9, <2>1 DEF With
    <2>4. DOMAIN old \cup {x} = DOMAIN project.nodes \cup B
      BY <1>14, <2>2
    <2>5. ASSUME NEW y \in DOMAIN project.nodes \cup B
          PROVE  (IF y = x THEN marked[x] ELSE old[y]) = IF y \in B THEN marked[y] ELSE project.nodes[y]
      BY <1>14, <2>2
    <2> QED  BY <2>3, <2>4, <2>5
  <1>16. LoadLeft(v.project, s, marked, rows, na, nc, i + 1)
    <2>1. DOMAIN v.project.drafts = DOMAIN project.drafts
      BY <1>7, <1>11 DEF LoadLeft
    <2>2. ASSUME NEW j \in 1..n, na = 0 \/ j <= i + 1 PROVE v.project.drafts[s[j]] = marked[s[j]]
      <3>1. na = 0 \/ j <= i
        BY <1>2, <1>3
      <3> QED  BY <1>1, <1>7, <1>11, <3>1 DEF LoadLeft
    <2>3. v.project.csv = project.csv
      BY <1>1, <1>4, <1>7, <1>11 DEF LoadLeft
    <2> QED  BY <1>1, <1>4, <1>11, <1>13, <1>15, <2>1, <2>2, <2>3 DEF LoadLeft
  <1>17. Unseeded(v)
    BY <1>7, <1>11, <1>12 DEF Unseeded
  <1>18. ~(i + 1 > na + n + nc)
    BY <1>2, <1>4
  <1> QED  BY <1>1, <1>12, <1>16, <1>17, <1>18 DEF LoadAt

\* The rows are written.
LEMMA LoadRows ==
    ASSUME NEW ops, NEW s, NEW marked, NEW rows, NEW na, NEW nc, LoadSteps(ops, s, marked, rows, na, nc),
           NEW i \in Nat, NEW w, WorldOK(w), LoadAt(w, s, marked, rows, na, nc, i), NEW o, OpOK(o),
           nc = 1, i + 1 = na + Len(s) + 1, o.op = "write", o.field = "csv", o.content = rows
    PROVE  LoadAt(Apply(w, o), s, marked, rows, na, nc, i + 1)
  <1>1. PICK v, n : v = Apply(w, o) /\ n = Len(s)
    OBVIOUS
  <1>2. s \in Seq(Slugs) /\ n \in Nat /\ na \in {0, n}
    BY <1>1 DEF LoadSteps
  <1>3. i = na + n /\ i + 1 = na + n + 1 /\ i + 1 <= na + n + nc /\ i <= na + n + nc
    BY <1>1, <1>2
  <1>4. Unseeded(w) /\ LoadLeft(w.project, s, marked, rows, na, nc, i)
    BY <1>1, <1>3 DEF LoadAt
  <1>5. v = [w EXCEPT !.project["csv"] = rows]
    BY <1>1 DEF Apply
  <1>6. /\ v.project.csv = rows /\ v.project.drafts = w.project.drafts /\ v.project.nodes = w.project.nodes
        /\ v.db = w.db /\ v.seeded = w.seeded
    BY <1>5 DEF WorldOK, ProjectOK, NoProject
  <1>7. FilesOK(v.project)
    BY <1>4, <1>6 DEF Unseeded, FilesOK
  <1>8. Copied(s, na, i) = Copied(s, na, i + 1)
    <2>1. na + Len(s) <= i /\ na + Len(s) <= i + 1 /\ i + 1 \in Nat /\ na \in Nat
      BY <1>1, <1>2, <1>3
    <2>2. Copied(s, na, i) = {s[j] : j \in 1..Len(s)}
      BY <1>2, <2>1, LoadCopies
    <2>3. PICK k \in Nat : k = i + 1
      BY <2>1
    <2>4. Copied(s, na, k) = {s[j] : j \in 1..Len(s)}
      BY <1>2, <2>1, <2>3, LoadCopies
    <2> QED  BY <2>2, <2>3, <2>4
  <1>9. LoadLeft(v.project, s, marked, rows, na, nc, i + 1)
    <2>1. DOMAIN v.project.drafts = DOMAIN project.drafts
      BY <1>4, <1>6 DEF LoadLeft
    <2>2. ASSUME NEW j \in 1..n PROVE v.project.drafts[s[j]] = marked[s[j]]
      <3>1. na = 0 \/ j <= i
        BY <1>2, <1>3
      <3> QED  BY <1>1, <1>4, <1>6, <3>1 DEF LoadLeft
    <2>3. v.project.nodes = [x \in DOMAIN project.nodes \cup Copied(s, na, i + 1) |->
                               IF x \in Copied(s, na, i + 1) THEN marked[x] ELSE project.nodes[x]]
      BY <1>4, <1>6, <1>8 DEF LoadLeft
    <2> QED  BY <1>1, <1>3, <1>6, <2>1, <2>2, <2>3 DEF LoadLeft
  <1>10. Unseeded(v)
    BY <1>4, <1>6, <1>7 DEF Unseeded
  <1>11. ~(i + 1 > na + n + nc)
    BY <1>2, <1>3
  <1> QED  BY <1>1, <1>7, <1>9, <1>10, <1>11 DEF LoadAt

\* The pack is loaded: it is the one the load has looked at before.
LEMMA LoadSeeds ==
    ASSUME NEW ops, NEW s, NEW marked, NEW rows, NEW na, NEW nc, LoadSteps(ops, s, marked, rows, na, nc),
           NEW i \in Nat, NEW w, WorldOK(w), LoadAt(w, s, marked, rows, na, nc, i), NEW o, OpOK(o),
           i + 1 = na + Len(s) + nc + 1, i + 1 <= Len(ops), Len(ops) \in Nat, o.op = "seed"
    PROVE  LoadAt(Apply(w, o), s, marked, rows, na, nc, i + 1)
  <1>1. PICK v, n : v = Apply(w, o) /\ n = Len(s)
    OBVIOUS
  <1>2. s \in Seq(Slugs) /\ n \in Nat /\ na \in {0, n} /\ nc = (IF project.edges = Missing THEN 0 ELSE 1)
    BY <1>1 DEF LoadSteps
  <1>3. i = na + n + nc /\ i <= na + n + nc /\ na + n + nc < Len(ops) /\ i + 1 > na + n + nc
    BY <1>1, <1>2
  <1>4. Unseeded(w) /\ LoadLeft(w.project, s, marked, rows, na, nc, i)
    BY <1>1, <1>3 DEF LoadAt
  <1>5. PICK pack : pack = [nodes |-> w.project.nodes, csv |-> w.project.csv]
    OBVIOUS
  <1>6. Copied(s, na, i) = DOMAIN marked
    <2>1. na + Len(s) <= i /\ na \in Nat
      BY <1>1, <1>2, <1>3
    <2>2. Copied(s, na, i) = {s[j] : j \in 1..Len(s)}
      BY <1>2, <2>1, LoadCopies
    <2> QED  BY <2>2 DEF LoadSteps
  <1>7. pack = PackLeft(marked, rows)
    <2>1. w.project.nodes = Adding(marked, project.nodes)
      <3>1. PICK A : A = DOMAIN marked
        OBVIOUS
      <3>2. w.project.nodes = [x \in DOMAIN project.nodes \cup A |-> IF x \in A THEN marked[x] ELSE project.nodes[x]]
        BY <1>4, <1>6, <3>1 DEF LoadLeft
      <3>3. DOMAIN project.nodes \cup A = A \cup DOMAIN project.nodes
        OBVIOUS
      <3> QED  BY <3>1, <3>2, <3>3 DEF Adding
    <2>2. w.project.csv = IF project.edges = Missing THEN project.csv ELSE rows
      <3>1. w.project.csv = IF nc = 1 /\ i = na + n + 1 THEN rows ELSE project.csv
        BY <1>1, <1>4 DEF LoadLeft
      <3> QED  BY <1>2, <1>3, <3>1
    <2> QED  BY <1>5, <2>1, <2>2 DEF PackLeft
  <1>8. ~SeedFails(db, pack) /\ \A x \in DOMAIN pack.nodes : pack.nodes[x] # Torn
    BY <1>1, <1>3, <1>7 DEF LoadSteps
  <1>9. PackOK(pack)
    <2>1. DOMAIN w.project.nodes \subseteq Slugs
      BY DEF WorldOK, ProjectOK
    <2>2. \A x \in DOMAIN w.project.nodes : FileOK(w.project.nodes[x])
      BY <1>4 DEF Unseeded, FilesOK
    <2> QED  BY <1>5, <1>8, <2>1, <2>2 DEF PackOK, FileOK
  <1>10. v = [w EXCEPT !.db = SeedGraph(w.db, pack), !.seeded = pack]
    BY <1>1, <1>5 DEF Apply
  <1>11. v.project = w.project /\ v.db = SeedGraph(w.db, pack) /\ v.seeded = pack
    BY <1>10 DEF WorldOK
  <1>12. v.db = Loaded(db, pack)
    BY <1>4, <1>8, <1>11 DEF Unseeded, SeedGraph
  <1>13. Reseeded(v)
    BY <1>4, <1>8, <1>9, <1>11, <1>12 DEF Unseeded, Reseeded
  <1>14. ~(i + 1 <= na + n + nc)
    BY <1>2, <1>3
  <1> QED  BY <1>1, <1>13, <1>14 DEF LoadAt, Reseeded

\* What follows is reported.
LEMMA LoadReports ==
    ASSUME NEW s \in Seq(Slugs), NEW marked, NEW rows, NEW na \in Nat, NEW nc \in Nat,
           NEW i \in Nat, NEW w, WorldOK(w), LoadAt(w, s, marked, rows, na, nc, i), NEW o, OpOK(o),
           i + 1 > na + Len(s) + nc + 1, o.op \in {"mark", "mirror"}
    PROVE  LoadAt(Apply(w, o), s, marked, rows, na, nc, i + 1)
  <1>1. PICK v, z : v = Apply(w, o) /\ z = na + Len(s) + nc /\ z \in Nat
    <2>1. na + Len(s) + nc \in Nat
      OBVIOUS
    <2> QED  BY <2>1
  <1>2. i > z /\ i + 1 > z /\ ~(i + 1 <= z)
    BY <1>1
  <1>3. Reseeded(w)
    BY <1>1, <1>2 DEF LoadAt
  <1>4. FilesOK(v.project) /\ v.db = w.db /\ v.seeded = w.seeded
    BY <1>1, <1>3, Untouched DEF Reseeded
  <1>5. Reseeded(v)
    BY <1>3, <1>4 DEF Reseeded
  <1> QED  BY <1>1, <1>2, <1>4, <1>5 DEF LoadAt

\* The next operation of a load.
LEMMA LoadNext ==
    ASSUME NEW ops, NEW s, NEW marked, NEW rows, NEW na, NEW nc, LoadSteps(ops, s, marked, rows, na, nc),
           Orderly(ops), NEW i \in Nat, i + 1 \in 1..Len(ops), NEW w, WorldOK(w),
           LoadAt(w, s, marked, rows, na, nc, i)
    PROVE  LoadAt(Apply(w, ops[i + 1]), s, marked, rows, na, nc, i + 1)
  <1>1. PICK o, m : o = ops[i + 1] /\ m = i + 1
    OBVIOUS
  <1>2. OpOK(o) /\ Len(ops) \in Nat
    BY <1>1 DEF Orderly, Listed
  <1>3. /\ s \in Seq(Slugs) /\ Len(s) \in Nat /\ na \in Nat /\ nc \in Nat
    <2>1. s \in Seq(Slugs) /\ na \in {0, Len(s)} /\ nc = IF project.edges = Missing THEN 0 ELSE 1
      BY DEF LoadSteps
    <2>2. nc \in Nat
      BY <2>1
    <2> QED  BY <2>1, <2>2
  <1>4. \/ m \in 1..na /\ o.op = "put" /\ o.slug = s[m] /\ o.draft = marked[s[m]]
        \/ m - na \in 1..Len(s) /\ o.op = "copy" /\ o.slug = s[m - na]
        \/ nc = 1 /\ m = na + Len(s) + 1 /\ o.op = "write" /\ o.field = "csv" /\ o.content = rows
        \/ m = na + Len(s) + nc + 1 /\ o.op = "seed"
        \/ m > na + Len(s) + nc + 1 /\ o.op \in {"mark", "mirror"}
    BY <1>1 DEF LoadSteps
  <1>5. CASE m \in 1..na /\ o.op = "put" /\ o.slug = s[m] /\ o.draft = marked[s[m]]
    BY <1>1, <1>2, <1>5, LoadMarks
  <1>6. CASE m - na \in 1..Len(s) /\ o.op = "copy" /\ o.slug = s[m - na]
    BY <1>1, <1>2, <1>6, LoadCopy
  <1>7. CASE nc = 1 /\ m = na + Len(s) + 1 /\ o.op = "write" /\ o.field = "csv" /\ o.content = rows
    BY <1>1, <1>2, <1>7, LoadRows
  <1>8. CASE m = na + Len(s) + nc + 1 /\ o.op = "seed"
    <2>1. m <= Len(ops)
      BY <1>1, <1>2
    <2> QED  BY <1>1, <1>2, <1>8, <2>1, LoadSeeds
  <1>9. CASE m > na + Len(s) + nc + 1 /\ o.op \in {"mark", "mirror"}
    BY <1>1, <1>2, <1>3, <1>9, LoadReports
  <1> QED  BY <1>4, <1>5, <1>6, <1>7, <1>8, <1>9

\* A load, whole or cut short: the database is as it was, or one pack was loaded.
LEMMA LoadLeaves ==
    ASSUME PipelineInv, FilesOK(project), NEW pass, NEW ops, Orderly(ops), NEW k, NEW torn, NEW h,
           NEW s, NEW marked, NEW rows, NEW na, NEW nc, LoadSteps(ops, s, marked, rows, na, nc),
           Cut(pass, ops, k, torn, h)
    PROVE  Unseeded(Left(h, k, torn, ops)) \/ Reseeded(Left(h, k, torn, ops))
  <1>1. Len(ops) \in Nat
    BY DEF Orderly, Listed
  <1>2. k \in Nat /\ k <= Len(ops) /\ \A i \in 0..k : HoldsAfter(h[i], ops, i)
    BY <1>1, WorldsHold
  <1>3. PICK n \in Nat : n = Len(s) /\ s \in Seq(Slugs) /\ na \in {0, n} /\ nc \in {0, 1} /\ na + n + nc \in Nat
    <2>1. s \in Seq(Slugs) /\ na \in {0, Len(s)} /\ nc = IF project.edges = Missing THEN 0 ELSE 1
      BY DEF LoadSteps
    <2>2. nc \in {0, 1}
      BY <2>1
    <2> QED  BY <2>1, <2>2
  <1> DEFINE At(w, i) == LoadAt(w, s, marked, rows, na, nc, i)
             T == {i \in Nat : i <= k => At(h[i], i)}
  <1>4. At(World, 0)
    <2>1. FilesOK(World.project) /\ Unseeded(World) /\ World.project = project
      BY DEF Unseeded, World
    <2>2. Copied(s, na, 0) = {}
      <3>1. na \in Nat /\ 0 <= na
        BY <1>3
      <3> QED  BY <1>3, <3>1, LoadCopies
    <2>3. LoadLeft(project, s, marked, rows, na, nc, 0)
      <3>1. ASSUME NEW j \in 1..n, na = 0 \/ j <= 0 PROVE project.drafts[s[j]] = marked[s[j]]
        <4>1. na = 0 /\ DOMAIN marked = {s[m] : m \in 1..n} /\ \A x \in DOMAIN marked : marked[x] = project.drafts[x]
          BY <1>3, <3>1 DEF LoadSteps
        <4> QED  BY <4>1
      <3>2. 0 # na + n + 1
        BY <1>3
      <3>3. project.nodes = [x \in DOMAIN project.nodes \cup {} |->
                               IF x \in {} THEN marked[x] ELSE project.nodes[x]]
        BY DEF FilesOK
      <3> QED  BY <1>3, <2>2, <3>1, <3>2, <3>3 DEF LoadLeft
    <2>4. ~(0 > na + Len(s) + nc)
      BY <1>3
    <2> QED  BY <2>1, <2>3, <2>4 DEF LoadAt
  <1> HIDE DEF At
  <1>5. 0 \in T
    <2>1. h[0] = World
      BY DEF Cut
    <2> QED  BY <1>4, <2>1
  <1>6. ASSUME NEW i \in T \cap Nat PROVE i + 1 \in T
    <2> SUFFICES ASSUME i + 1 <= k PROVE At(h[i + 1], i + 1)
      OBVIOUS
    <2>1. i <= k /\ i \in 0..k /\ i + 1 \in 1..k /\ i + 1 \in 1..Len(ops) /\ (i + 1) - 1 = i
      BY <1>1, <1>2
    <2>2. At(h[i], i) /\ WorldOK(h[i])
      BY <1>2, <2>1 DEF HoldsAfter
    <2>3. h[i + 1] = Apply(h[i], ops[i + 1])
      BY <2>1 DEF Cut
    <2> HIDE DEF T
    <2>4. PICK w : w = h[i]
      OBVIOUS
    <2>5. LoadAt(Apply(w, ops[i + 1]), s, marked, rows, na, nc, i + 1)
      <3>1. LoadAt(w, s, marked, rows, na, nc, i) /\ WorldOK(w)
        BY <2>2, <2>4 DEF At
      <3> QED  BY <2>1, <3>1, LoadNext
    <2> QED  BY <2>3, <2>4, <2>5 DEF At
  <1>7. At(h[k], k) /\ WorldOK(h[k])
    <2>1. k \in T
      <3> HIDE DEF T
      <3> QED  BY <1>2, <1>5, <1>6, SetInduction
    <2> QED  BY <1>2, <2>1 DEF HoldsAfter
  <1> HIDE DEF T
  <1>8. Unseeded(h[k]) \/ Reseeded(h[k])
    <2>1. k <= na + Len(s) + nc \/ k > na + Len(s) + nc
      BY <1>2, <1>3
    <2> QED  BY <1>7, <2>1 DEF At, LoadAt
  <1>9. CASE torn = TRUE
    <2>1. k + 1 \in 1..Len(ops)
      BY <1>1, <1>2, <1>9 DEF Cut
    <2>2. PICK w, o, v : w = h[k] /\ o = ops[k + 1] /\ v = Tear(w, o)
      OBVIOUS
    <2>3. OpOK(o) /\ WorldOK(w) /\ FilesOK(w.project)
      BY <1>7, <1>8, <2>1, <2>2 DEF Orderly, Unseeded, Reseeded
    <2>4. FilesOK(v.project) /\ v.db = w.db /\ v.seeded = w.seeded
      BY <2>2, <2>3, TornFiles
    <2>5. Unseeded(v) \/ Reseeded(v)
      BY <1>8, <2>2, <2>4 DEF Unseeded, Reseeded
    <2> QED  BY <1>9, <2>2, <2>5 DEF Left
  <1>10. CASE torn = FALSE
    BY <1>8, <1>10 DEF Left
  <1>11. torn \in BOOLEAN
    BY Zenon DEF Cut
  <1> QED  BY <1>9, <1>10, <1>11

-----------------------------------------------------------------------------
(* The invariant.                                                          *)

\* A pack of well-formed nodes is loaded, whole.
LoadsPack(pack) ==
    PackOK(pack) /\ ~SeedFails(db, pack) /\ db' = Loaded(db, pack) /\ seeded' = pack

\* What every command does to the files and to the database.
Leaves ==
    /\ PipelineInv' /\ FilesOK(project')
    /\ (db' = db /\ seeded' = seeded) \/ \E pack : LoadsPack(pack)
    /\ UNCHANGED <<report, byHand, approved, seeds>>

\* A command but the load.
LEMMA CalmCommand ==
    ASSUME PipelineInv, FilesOK(project), NEW pass, NEW ops, Does(pass, ops)
    PROVE  Leaves
  <1>1. Orderly(ops) /\ Calm(ops) /\ Execute(pass, ops) /\ Len(ops) \in Nat
    BY DEF Does, Calm, Orderly, Listed
  <1>2. PipelineInv'
    BY <1>1, Kept
  <1>3. UNCHANGED <<report, byHand, approved, seeds>> /\ \E k, torn, h : Cut(pass, ops, k, torn, h)
    BY <1>1, Carried
  <1>4. PICK k, torn, h : Cut(pass, ops, k, torn, h)
    BY <1>3
  <1>5. PICK w : w = Left(h, k, torn, ops)
    OBVIOUS
  <1>6. Unseeded(w)
    BY <1>1, <1>4, <1>5, CalmLeaves
  <1>7. project' = w.project /\ db' = w.db /\ seeded' = w.seeded
    BY <1>4, <1>5 DEF Cut
  <1> QED  BY <1>2, <1>3, <1>6, <1>7 DEF Leaves, Unseeded

\* The load.
LEMMA LoadCommand ==
    ASSUME PipelineInv, FilesOK(project), CmdLoad
    PROVE  Leaves
  <1>1. PICK ops, s, marked, rows, na, nc :
           Orderly(ops) /\ LoadSteps(ops, s, marked, rows, na, nc) /\ Execute("load", ops)
    BY LoadDoes
  <1>2. Len(ops) \in Nat
    BY <1>1 DEF Orderly, Listed
  <1>3. PipelineInv'
    BY <1>1, Kept
  <1>4. UNCHANGED <<report, byHand, approved, seeds>> /\ \E k, torn, h : Cut("load", ops, k, torn, h)
    BY <1>1, <1>2, Carried
  <1>5. PICK k, torn, h : Cut("load", ops, k, torn, h)
    BY <1>4
  <1>6. PICK w : w = Left(h, k, torn, ops)
    OBVIOUS
  <1>7. Unseeded(w) \/ Reseeded(w)
    BY <1>1, <1>5, <1>6, LoadLeaves
  <1>8. project' = w.project /\ db' = w.db /\ seeded' = w.seeded
    BY <1>5, <1>6 DEF Cut
  <1>9. FilesOK(project')
    BY <1>7, <1>8 DEF Unseeded, Reseeded
  <1>10. (db' = db /\ seeded' = seeded) \/ \E pack : LoadsPack(pack)
    BY <1>7, <1>8 DEF Unseeded, Reseeded, LoadsPack
  <1> QED  BY <1>3, <1>4, <1>9, <1>10 DEF Leaves

\* Every command is a list of orderly operations.
LEMMA CommandsKeep ==
    ASSUME PipelineInv, FilesOK(project), PipelineNext
    PROVE  Leaves
  <1>1. CASE CmdLoad
    BY <1>1, LoadCommand
  <1>2. CASE ~CmdLoad
    <2>1. CASE CmdInit
      BY <2>1, InitDoes, CalmCommand
    <2>2. CASE BindJob
      BY <2>2, BindDoes, CalmCommand
    <2>3. CASE CmdParse
      BY <2>3, ParseDoes, CalmCommand
    <2>4. CASE CmdExtract
      BY <2>4, ExtractDoes, CalmCommand
    <2>5. CASE CmdDraft
      BY <2>5, DraftDoes, CalmCommand
    <2>6. CASE CmdCite
      BY <2>6, CiteDoes, CalmCommand
    <2>7. CASE CmdCanonicalize
      <3>1. ProjectOK(project)
        BY DEF PipelineInv
      <3> QED  BY <2>7, <3>1, CanonicalizeDoes, CalmCommand
    <2>8. CASE CmdEdges
      BY <2>8, EdgesDoes, CalmCommand
    <2>9. CASE CmdBundles
      BY <2>9, BundlesDoes, CalmCommand
    <2> QED  BY <1>2, <2>1, <2>2, <2>3, <2>4, <2>5, <2>6, <2>7, <2>8, <2>9 DEF PipelineNext
  <1> QED  BY <1>1, <1>2

\* A project as a behaviour may find it.
\* A project before the first command.
LEMMA RestingProject ==
    ASSUME PipelineAtRest
    PROVE  PipelineTypeOK /\ ProjectOK(project) /\ FilesOK(project)
  <1>1. project \in Projects
    BY DEF PipelineAtRest
  <1>2. ProjectOK(project)
    BY <1>1, ProjectAssumption DEF ProjectOK
  <1>3. commands = 0 /\ crashes = 0 /\ MaxCommands \in Nat /\ MaxCrashes \in Nat
    BY PipelineAssumption DEF PipelineAtRest
  <1>4. commands \in 0..MaxCommands /\ crashes \in 0..MaxCrashes
    BY ONLY <1>3
  <1>5. FilesOK(project)
    BY <1>1, ProjectAssumption DEF FilesOK
  <1> QED  BY <1>2, <1>4, <1>5 DEF ProjectOK, PipelineTypeOK

LEMMA PipelineInitInv ==
    ASSUME PipelineInit
    PROVE  PipelineInv /\ FilesOK(project)
  <1>1. project \in Projects
    BY DEF PipelineInit, PipelineAtRest
  <1>2. PipelineTypeOK /\ ProjectOK(project) /\ FilesOK(project)
    BY RestingProject DEF PipelineInit
  <1>3. job = [status |-> "running",
               passes |-> [p \in Passes |-> IF p = "parse" /\ p \in project.done THEN "completed" ELSE "pending"]]
    BY DEF PipelineInit
  <1>4. job \in JobRow
    BY <1>3 DEF JobRow, PassStatuses
  <1>5. \A p \in Passes : job.passes[p] = "completed" => p \in project.done
    BY <1>3
  <1>6. MirrorFollowsManifest /\ Told(World)
    BY <1>5 DEF MirrorFollowsManifest, Told, World
  <1>7. project.archived = {}
    BY <1>1, ProjectAssumption
  <1>8. Replaced(project)
    BY <1>7 DEF Replaced
  <1> QED  BY <1>2, <1>4, <1>6, <1>8 DEF PipelineInv

\* What holds of the directory and of the database between commands.
LoadInv == PipelineInv /\ FilesOK(project) /\ SeedTypes /\ SeedInv

\* The database is as it was.
LEMMA SameDatabase ==
    ASSUME SeedTypes, SeedInv, UNCHANGED <<db, approved, seeded, seeds>>
    PROVE  SeedTypes' /\ SeedInv'
  <1>1. SeedTypes'
    BY DEF SeedTypes, DatabaseOK
  <1>2. SeedInv'
    BY DEF SeedInv, Shaped, SeedCompletesGraph, SeedEdgesOnce, HeldUntilReviewed
  <1> QED  BY <1>1, <1>2

\* A pack was loaded.
LEMMA PackLoaded ==
    ASSUME SeedTypes, SeedInv, NEW pack, LoadsPack(pack), UNCHANGED <<approved, seeds>>
    PROVE  SeedTypes' /\ SeedInv'
  <1>1. SeedInv'
    BY LoadKeeps DEF LoadsPack
  <1>2. PICK d, e : d = db /\ e = db'
    OBVIOUS
  <1>3. DatabaseOK(d) /\ PackOK(pack) /\ e = Loaded(d, pack)
    BY <1>2 DEF LoadsPack, SeedTypes
  <1>4. DatabaseOK(e)
    BY <1>3, LoadedOK
  <1>5. SeedTypes'
    BY <1>2, <1>4 DEF SeedTypes, DatabaseOK
  <1> QED  BY <1>1, <1>5

\* Every command keeps all of it.
LEMMA LoadStep == LoadInv /\ PipelineNext => LoadInv'
  <1> SUFFICES ASSUME LoadInv, PipelineNext PROVE LoadInv'
    OBVIOUS
  <1>1. Leaves
    BY CommandsKeep DEF LoadInv
  <1>2. SeedTypes' /\ SeedInv'
    <2>1. CASE db' = db /\ seeded' = seeded
      BY <1>1, <2>1, SameDatabase DEF LoadInv, Leaves
    <2>2. CASE \E pack : LoadsPack(pack)
      BY <1>1, <2>2, PackLoaded DEF LoadInv, Leaves
    <2> QED  BY <1>1, <2>1, <2>2 DEF Leaves
  <1>3. PipelineInv' /\ FilesOK(project')
    BY <1>1 DEF Leaves
  <1> QED  BY <1>2, <1>3 DEF LoadInv, FilesOK

\* Nothing happens.
LEMMA PipelineStutters ==
    ASSUME PipelineInv, UNCHANGED <<project, last, commands, crashes, job>>
    PROVE  PipelineInv'
  BY DEF PipelineInv, PipelineTypeOK, MirrorFollowsManifest, Told, World, ProjectOK, Replaced, Base, Enclosed

LEMMA LoadStutters == LoadInv /\ UNCHANGED pipelineVars => LoadInv'
  <1> SUFFICES ASSUME LoadInv, UNCHANGED pipelineVars PROVE LoadInv'
    OBVIOUS
  <1>1. UNCHANGED <<project, last, commands, crashes, job>> /\ UNCHANGED <<db, approved, seeded, seeds>>
    BY DEF pipelineVars, jobVars, seedVars
  <1>2. PipelineInv'
    BY <1>1, PipelineStutters DEF LoadInv
  <1>3. SeedTypes' /\ SeedInv'
    BY <1>1, SameDatabase DEF LoadInv
  <1>4. FilesOK(project)'
    BY <1>1 DEF LoadInv, FilesOK
  <1> QED  BY <1>2, <1>3, <1>4 DEF LoadInv

\* Whatever commands run and die.
LEMMA AlwaysLoadInv == PipelineSpec => []LoadInv
  <1>1. SeedInit /\ PipelineInit => LoadInv
    BY PipelineInitInv, SeedStart, SeedTypesStart DEF LoadInv
  <1>2. LoadInv /\ [PipelineNext]_pipelineVars => LoadInv'
    BY LoadStep, LoadStutters
  <1> QED  BY <1>1, <1>2, PTL DEF PipelineSpec

LEMMA PipelineAlwaysInv == PipelineSpec => []PipelineInv
  <1>1. LoadInv => PipelineInv
    BY DEF LoadInv
  <1> QED  BY <1>1, AlwaysLoadInv, PTL

\* Files are named by slugs, the manifest lists passes, and the bounds are kept,
\* whatever the model answers and wherever a command dies.
THEOREM PipelineTypes == PipelineSpec => []PipelineTypeOK
  <1>1. PipelineInv => PipelineTypeOK
    BY DEF PipelineInv
  <1> QED  BY <1>1, PipelineAlwaysInv, PTL

\* The database never calls a pass completed that a whole manifest does not record,
\* wherever a command died and whichever passes are run again.
THEOREM MirrorAlwaysFollows == PipelineSpec => []MirrorFollowsManifest
  <1>1. PipelineInv => MirrorFollowsManifest
    BY DEF PipelineInv
  <1> QED  BY <1>1, PipelineAlwaysInv, PTL

\* A merge or split, or a chain of them over many commands, never loses a draft:
\* from what was archived the heirs lead to a draft that is there.
THEOREM ArchivedAlwaysReplaced == PipelineSpec => []ArchivedReplaced
  <1>1. PipelineInv => ArchivedReplaced
    BY ReplacedIsEnough DEF PipelineInv
  <1> QED  BY <1>1, PipelineAlwaysInv, PTL

\* The load of the pipeline is a seed, and nothing else in it touches the database:
\* wherever a load dies, it has loaded nothing, or the whole of a well-formed pack
\* that the seed does not fail on (cli/ingest/load.py before cli/seed.py).
THEOREM LoadsAreSeeds ==
    PipelineSpec => [][\E pack : LoadsPack(pack)]_<<db, seeded>>
  <1>1. LoadInv /\ [PipelineNext]_pipelineVars => [\E pack : LoadsPack(pack)]_<<db, seeded>>
    <2> SUFFICES ASSUME LoadInv, [PipelineNext]_pipelineVars, ~UNCHANGED <<db, seeded>>
                 PROVE  \E pack : LoadsPack(pack)
      OBVIOUS
    <2>1. PipelineNext
      BY DEF pipelineVars, seedVars
    <2> QED  BY <2>1, CommandsKeep DEF LoadInv, Leaves
  <1> QED  BY <1>1, AlwaysLoadInv, PTL DEF PipelineSpec

\* So what the seed promises holds of the pipeline, whose packs the passes have
\* written and the model has answered: after any commands and crashes the graph
\* has the prerequisites and rows of the last pack loaded.
THEOREM LoadsCompleteGraph == PipelineSpec => []SeedCompletesGraph
  <1>1. LoadInv => SeedCompletesGraph
    BY DEF LoadInv, SeedInv
  <1> QED  BY <1>1, AlwaysLoadInv, PTL

\* No load inserts an edge twice, however often a load is repeated after it died.
THEOREM LoadsEdgesOnce == PipelineSpec => []SeedEdgesOnce
  <1>1. LoadInv => SeedEdgesOnce
    BY DEF LoadInv, SeedInv
  <1> QED  BY <1>1, AlwaysLoadInv, PTL

\* No load publishes high-risk content, though --publish marks every draft as
\* published: the seed holds it back.
THEOREM LoadsHoldRisk == PipelineSpec => []HeldUntilReviewed
  <1>1. LoadInv => HeldUntilReviewed
    BY DEF LoadInv, SeedInv
  <1> QED  BY <1>1, AlwaysLoadInv, PTL

\* What loads leave in the database is well formed: a torn file never reaches it.
THEOREM LoadsTyped == PipelineSpec => []SeedTypeOK
  <1>1. LoadInv => SeedTypeOK
    BY DEF LoadInv, SeedTypes, DatabaseOK, SeedTypeOK
  <1> QED  BY <1>1, AlwaysLoadInv, PTL

-----------------------------------------------------------------------------
(* What a draft pass writes.                                               *)

\* What the drafts were made from.
Basis(v, w) == w.project.matrix = v.project.matrix /\ w.project.segments = v.project.segments

\* Writing drafts and recording a pass leave the matrix and the segments alone.
LEMMA DraftingKeepsBasis ==
    ASSUME NEW w, WorldOK(w), NEW o, OpOK(o), o.op \in {"put", "mark", "mirror"}
    PROVE  /\ Basis(w, Apply(w, o))
           /\ o.op # "put" => Apply(w, o).project.drafts = w.project.drafts
           /\ Basis(w, Tear(w, o))
           /\ o.op = "put" => Tear(w, o).project.drafts = With(w.project.drafts, o.slug, Torn)
           /\ o.op # "put" => Tear(w, o).project.drafts = w.project.drafts
  <1>1. CASE o.op = "put"
    <2>1. /\ Apply(w, o) = [w EXCEPT !.project.drafts = With(w.project.drafts, o.slug, o.draft)]
          /\ Tear(w, o) = [w EXCEPT !.project.drafts = With(w.project.drafts, o.slug, Torn)]
      BY <1>1 DEF Apply, Tear
    <2> QED  BY <1>1, <2>1 DEF Basis, WorldOK, ProjectOK, NoProject
  <1>2. CASE o.op = "mark"
    <2>1. /\ Apply(w, o) = [w EXCEPT !.project.done = @ \cup {o.pass}]
          /\ Tear(w, o) = [w EXCEPT !.project.manifest = "torn"]
      BY <1>2 DEF Apply, Tear
    <2> QED  BY <1>2, <2>1 DEF Basis, WorldOK, ProjectOK, NoProject
  <1>3. CASE o.op = "mirror"
    <2>1. Apply(w, o) = [w EXCEPT !.job = CompletePass(w.job, o.pass)] /\ Tear(w, o) = w
      BY <1>3 DEF Apply, Tear
    <2> QED  BY <1>3, <2>1 DEF Basis, WorldOK
  <1> QED  BY <1>1, <1>2, <1>3

\* The first i of the drafts are written.
Drafted(w, made, ops, i) ==
    /\ Basis(World, w)
    /\ \A j \in DOMAIN made : j <= i => /\ made[j] \in DOMAIN w.project.drafts
                                        /\ w.project.drafts[made[j]] = ops[j].draft

\* The next operation of a draft pass, whole or torn: no draft is written twice.
LEMMA DraftedNext ==
    ASSUME NEW made \in Seq(Slugs), NoneTwice(made), NEW ops, NEW i \in Nat, NEW w, WorldOK(w),
           Drafted(w, made, ops, i), OpOK(ops[i + 1]),
           IF i + 1 \in DOMAIN made THEN ops[i + 1].op = "put" /\ ops[i + 1].slug = made[i + 1]
                                    ELSE ops[i + 1].op \in {"mark", "mirror"}
    PROVE  Drafted(Apply(w, ops[i + 1]), made, ops, i + 1) /\ Drafted(Tear(w, ops[i + 1]), made, ops, i)
  <1>1. PICK o, n : o = ops[i + 1] /\ n = i + 1
    OBVIOUS
  <1>2. PICK v, u : v = Apply(w, o) /\ u = Tear(w, o)
    OBVIOUS
  <1>3. /\ Basis(w, v) /\ (o.op # "put" => v.project.drafts = w.project.drafts)
        /\ Basis(w, u) /\ (o.op = "put" => u.project.drafts = With(w.project.drafts, o.slug, Torn))
        /\ (o.op # "put" => u.project.drafts = w.project.drafts)
    BY <1>1, <1>2, DraftingKeepsBasis
  <1>4. o.op = "put" => v.project.drafts = With(w.project.drafts, o.slug, o.draft)
    BY <1>1, <1>2, Putting
  <1>5. Basis(World, v) /\ Basis(World, u)
    BY <1>3 DEF Drafted, Basis
  <1>6. DOMAIN made = 1..Len(made)
    OBVIOUS
  <1>7. \A j \in DOMAIN made : j <= n => j <= i \/ j = n
    BY <1>1, <1>6
  <1>8. CASE n \in DOMAIN made
    <2>1. o.op = "put" /\ o.slug = made[n]
      BY <1>1, <1>8
    <2>2. \A j \in DOMAIN made : j <= i => made[j] # made[n]
      BY <1>1, <1>6, <1>8 DEF NoneTwice
    <2>3. \A j \in DOMAIN made : j <= i => /\ made[j] \in DOMAIN u.project.drafts
                                           /\ u.project.drafts[made[j]] = ops[j].draft
      BY <1>3, <2>1, <2>2 DEF Drafted, With
    <2>4. \A j \in DOMAIN made : j <= n => /\ made[j] \in DOMAIN v.project.drafts
                                           /\ v.project.drafts[made[j]] = ops[j].draft
      BY <1>1, <1>4, <1>7, <2>1, <2>2 DEF Drafted, With
    <2> QED  BY <1>1, <1>2, <1>5, <2>3, <2>4 DEF Drafted
  <1>9. CASE n \notin DOMAIN made
    <2>1. v.project.drafts = w.project.drafts /\ u.project.drafts = w.project.drafts
      BY <1>1, <1>3, <1>9
    <2>2. \A j \in DOMAIN made : j <= n => j <= i
      BY <1>7, <1>9
    <2> QED  BY <1>1, <1>2, <1>5, <2>1, <2>2 DEF Drafted
  <1> QED  BY <1>8, <1>9

\* A merged row has the segments of its rows, when they are of one source.
LEMMA RowsMerged ==
    ASSUME NEW rows \in MatrixRows, NEW i \in DOMAIN rows,
           \A j \in DOMAIN rows : rows[j].slug = rows[i].slug => rows[j].source = rows[i].source
    PROVE  SegmentsOf(rows[i]) \subseteq SegmentsOf(MergeRows(rows)[rows[i].slug])
  <1>1. PICK named : named = {j \in DOMAIN rows : rows[j].slug = rows[i].slug}
    OBVIOUS
  <1>2. PICK first \in named : first = CHOOSE j \in named : \A k \in named : j <= k
    <2>1. named \subseteq Nat /\ named # {}
      <3>1. DOMAIN rows = 1..Len(rows)
        BY DEF MatrixRows
      <3> QED  BY <1>1, <3>1
    <2>2. \E j \in named : \A k \in named : j <= k
      BY <2>1, LeastNatural
    <2> QED  BY <2>2
  <1>3. PICK merged : merged = MergeRows(rows)[rows[i].slug]
    OBVIOUS
  <1>4. merged = [source |-> rows[first].source, segs |-> UNION {rows[j].segs : j \in named}]
    BY <1>1, <1>2, <1>3 DEF MergeRows
  <1>5. merged.source = rows[i].source
    BY <1>1, <1>2, <1>4
  <1>6. rows[i].segs \subseteq merged.segs
    BY <1>1, <1>4
  <1> QED  BY <1>3, <1>5, <1>6 DEF SegmentsOf

\* The draft pass, whole or cut short.
LEMMA DraftCovers ==
    ASSUME PipelineInv, CmdDraft
    PROVE  DraftCoversMatrix'
  <1>1. PICK puts, made, rest : /\ DraftSteps(puts, made, MergeRows(project.matrix.rows))
                                /\ Orderly(puts) /\ rest = MarkSteps("draft")
                                /\ Does("draft", puts \o rest)
    BY DraftDoes DEF Calm
  <1>2. PICK ops : ops = puts \o rest
    OBVIOUS
  <1>3. Orderly(ops) /\ Execute("draft", ops)
    BY <1>1, <1>2 DEF Does, Calm
  <1>4. made \in Seq(Slugs) /\ NoneTwice(made) /\ DOMAIN made = 1..Len(made) /\ Len(made) \in Nat
    BY <1>1 DEF DraftSteps
  <1>5. Listed(puts) /\ Len(puts) = Len(made)
    <2>1. puts = [n \in 1..Len(made) |-> puts[n]] /\ Listed(puts)
      BY <1>1, <1>4 DEF DraftSteps, Orderly
    <2>2. DOMAIN puts = 1..Len(made) /\ DOMAIN puts = 1..Len(puts) /\ Len(puts) \in Nat
      BY <2>1 DEF Listed
    <2> QED  BY <1>4, <2>1, <2>2
  <1>6. Orderly(rest)
    BY <1>1, MarkIsOrderly DEF Passes
  <1>7. \A n \in DOMAIN made : ops[n] = puts[n]
    <2>1. \A n \in 1..Len(puts) : (puts \o rest)[n] = puts[n]
      BY <1>1, <1>6, Joined DEF Orderly
    <2> QED  BY <1>2, <1>4, <1>5, <2>1
  <1>8. \A n \in 1..Len(ops) : IF n \in DOMAIN made THEN ops[n].op = "put" /\ ops[n].slug = made[n]
                                                    ELSE ops[n].op \in {"mark", "mirror"}
    <2> TAKE n \in 1..Len(ops)
    <2>1. CASE n \in DOMAIN made
      BY <1>1, <1>7, <2>1 DEF DraftSteps
    <2>2. CASE n \notin DOMAIN made
      <3>1. PICK a, b : a = puts /\ b = rest
        OBVIOUS
      <3>2. /\ \A i \in 1..Len(b) : (a \o b)[Len(a) + i] = b[i]
            /\ \A i \in 1..Len(a \o b) : i \in 1..Len(a) \/ i - Len(a) \in 1..Len(b)
        BY <1>5, <1>6, <3>1, Joined DEF Orderly
      <3>3. ops = a \o b /\ Len(a) = Len(made) /\ n \notin 1..Len(a)
        BY <1>2, <1>4, <1>5, <2>2, <3>1
      <3>4. PICK i \in 1..Len(b) : i = n - Len(a)
        BY <3>2, <3>3
      <3>5. n = Len(a) + i
        BY <1>4, <3>3, <3>4
      <3>6. ops[n] = b[i]
        BY <3>2, <3>3, <3>5
      <3> QED  BY <1>1, <2>2, <3>1, <3>6, MarkStepsAre
    <2> QED  BY <2>1, <2>2
  <1>9. PICK k, torn, h : Cut("draft", ops, k, torn, h)
    BY <1>3, Carried DEF Orderly, Listed
  <1>10. k \in Nat /\ k <= Len(ops) /\ \A i \in 0..k : HoldsAfter(h[i], ops, i)
    BY <1>3, <1>9, WorldsHold
  <1>11. \A i \in 1..Len(ops) : OpOK(ops[i])
    BY <1>3 DEF Orderly
  <1>12. Len(ops) \in Nat
    BY <1>3 DEF Orderly, Listed
  <1> DEFINE T == {i \in Nat : i <= k => Drafted(h[i], made, ops, i)}
  <1>13. 0 \in T
    <2>1. h[0] = World /\ \A j \in DOMAIN made : ~(j <= 0)
      BY <1>4, <1>9 DEF Cut
    <2> QED  BY <2>1 DEF Drafted, Basis
  <1>14. ASSUME NEW i \in T \cap Nat PROVE i + 1 \in T
    <2> SUFFICES ASSUME i + 1 <= k PROVE Drafted(h[i + 1], made, ops, i + 1)
      OBVIOUS
    <2>1. i <= k /\ i + 1 \in 1..k /\ i + 1 \in 1..Len(ops) /\ (i + 1) - 1 = i /\ i \in 0..k
      BY <1>10, <1>12
    <2>2. Drafted(h[i], made, ops, i)
      BY <2>1
    <2>3. h[i + 1] = Apply(h[i], ops[i + 1])
      BY <1>9, <2>1 DEF Cut
    <2>4. WorldOK(h[i])
      BY <1>10, <2>1 DEF HoldsAfter
    <2> HIDE DEF T
    <2>5. PICK w : w = h[i]
      OBVIOUS
    <2>6. Drafted(Apply(w, ops[i + 1]), made, ops, i + 1)
      BY <1>4, <1>8, <1>11, <2>1, <2>2, <2>4, <2>5, DraftedNext
    <2> QED  BY <2>3, <2>5, <2>6
  <1>15. Drafted(h[k], made, ops, k)
    <2>1. k \in T
      <3> HIDE DEF T
      <3> QED  BY <1>10, <1>13, <1>14, SetInduction
    <2> QED  BY <1>10, <2>1
  <1>16. PICK w : w = Left(h, k, torn, ops)
    OBVIOUS
  <1>17. Drafted(w, made, ops, k)
    <2>1. CASE torn = FALSE
      BY <1>15, <1>16, <2>1 DEF Left
    <2>2. CASE torn = TRUE
      <3>1. k + 1 \in 1..Len(ops)
        BY <1>9, <1>10, <1>12, <2>2 DEF Cut
      <3>2. PICK v : v = h[k]
        OBVIOUS
      <3>3. WorldOK(v)
        BY <1>10, <3>2 DEF HoldsAfter
      <3>4. Drafted(Tear(v, ops[k + 1]), made, ops, k)
        BY <1>4, <1>8, <1>10, <1>11, <1>15, <3>1, <3>2, <3>3, DraftedNext
      <3> QED  BY <1>16, <2>2, <3>2, <3>4 DEF Left
    <2>3. torn \in BOOLEAN
      BY <1>9, Zenon DEF Cut
    <2> QED  BY <2>1, <2>2, <2>3
  <1>18. /\ project' = w.project
         /\ last' = [pass |-> "draft", wrote |-> PutSlugs(SubSeq(ops, 1, k)), risks |-> Risks(project.drafts)]
    BY <1>9, <1>16 DEF Cut
  <1>19. \A s \in PutSlugs(SubSeq(ops, 1, k)) : \E j \in DOMAIN made : j <= k /\ made[j] = s
    <2>1. PICK S : ops \in Seq(S)
      BY <1>3, ListedIsSeq DEF Orderly
    <2>2. PICK sub : sub = SubSeq(ops, 1, k)
      OBVIOUS
    <2>3. DOMAIN sub = 1..k /\ \A j \in 1..k : sub[j] = ops[j]
      BY <1>10, <2>1, <2>2
    <2> SUFFICES ASSUME NEW s \in PutSlugs(sub) PROVE \E j \in DOMAIN made : j <= k /\ made[j] = s
      BY <2>2
    <2>4. PICK j \in 1..k : sub[j].op = "put" /\ sub[j].slug = s
      BY <2>3 DEF PutSlugs
    <2>5. j \in 1..Len(ops) /\ j <= k
      BY <1>10, <1>12
    <2>6. j \in DOMAIN made /\ made[j] = s
      BY <1>8, <2>3, <2>4, <2>5
    <2> QED  BY <2>5, <2>6
  <1>20. project'.matrix = project.matrix /\ project'.segments = project.segments
    BY <1>17, <1>18 DEF Drafted, Basis, World
  <1> SUFFICES ASSUME NEW s \in PutSlugs(SubSeq(ops, 1, k)), NEW i \in DOMAIN project.matrix.rows,
                      project.matrix.rows[i].slug = s,
                      \A j \in DOMAIN project.matrix.rows : project.matrix.rows[j].slug = s
                         => project.matrix.rows[j].source = project.matrix.rows[i].source
               PROVE  SegmentsOf(project.matrix.rows[i]) \subseteq project'.drafts[s].segs
    BY <1>18, <1>20 DEF DraftCoversMatrix, SegmentsOf, SegmentIds
  <1>21. PICK j \in DOMAIN made : j <= k /\ made[j] = s
    BY <1>19
  <1>22. project'.drafts[s] = ops[j].draft
    BY <1>17, <1>18, <1>21 DEF Drafted
  <1>23. ops[j].draft.segs = SegmentsOf(MergeRows(project.matrix.rows)[s])
    BY <1>1, <1>7, <1>21 DEF DraftSteps
  <1>24. project.matrix.rows \in MatrixRows
    <2>1. ProjectOK(project) /\ project.matrix \notin {Missing, Torn}
      BY DEF PipelineInv, CmdDraft
    <2> QED  BY <2>1 DEF ProjectOK, MatrixOK
  <1>25. SegmentsOf(project.matrix.rows[i]) \subseteq SegmentsOf(MergeRows(project.matrix.rows)[s])
    BY <1>24, RowsMerged
  <1> QED  BY <1>22, <1>23, <1>25

\* The other commands write no draft in a draft pass.
LEMMA OthersDraftNothing ==
    ASSUME NEW pass, pass # "draft", NEW ops, Orderly(ops), Execute(pass, ops)
    PROVE  DraftCoversMatrix'
  <1>1. PICK k, torn, h : Cut(pass, ops, k, torn, h)
    BY Carried DEF Orderly, Listed
  <1>2. last'.pass = pass
    BY <1>1 DEF Cut
  <1> QED  BY <1>2 DEF DraftCoversMatrix

\* Whatever the model drafted and wherever the pass died, a draft it wrote has every
\* segment that the rows with its slug name, if they all name the same source.
THEOREM DraftsAlwaysCover == PipelineSpec => []DraftCoversMatrix
  <1>1. SeedInit /\ PipelineInit => DraftCoversMatrix
    BY DEF PipelineInit, PipelineAtRest, DraftCoversMatrix
  <1>2. LoadInv /\ DraftCoversMatrix /\ [PipelineNext]_pipelineVars => DraftCoversMatrix'
    <2> SUFFICES ASSUME LoadInv, DraftCoversMatrix, [PipelineNext]_pipelineVars PROVE DraftCoversMatrix'
      OBVIOUS
    <2>12. PipelineInv /\ ProjectOK(project) /\ FilesOK(project)
      BY DEF LoadInv, PipelineInv
    <2>13. ASSUME NEW pass, pass # "draft", NEW ops, Does(pass, ops) PROVE DraftCoversMatrix'
      BY <2>13, OthersDraftNothing DEF Does, Calm
    <2>1. CASE CmdInit
      BY <2>1, <2>12, <2>13, InitDoes
    <2>2. CASE BindJob
      BY <2>2, <2>12, <2>13, BindDoes
    <2>3. CASE CmdParse
      BY <2>3, <2>12, <2>13, ParseDoes
    <2>4. CASE CmdExtract
      BY <2>4, <2>12, <2>13, ExtractDoes
    <2>5. CASE CmdDraft
      BY <2>5, <2>12, DraftCovers
    <2>6. CASE CmdCite
      BY <2>6, <2>12, <2>13, CiteDoes
    <2>7. CASE CmdCanonicalize
      BY <2>7, <2>12, <2>13, CanonicalizeDoes
    <2>8. CASE CmdEdges
      BY <2>8, <2>12, <2>13, EdgesDoes
    <2>9. CASE CmdBundles
      BY <2>9, <2>12, <2>13, BundlesDoes
    <2>10. CASE CmdLoad
      BY <2>10, <2>12, LoadDoes, OthersDraftNothing
    <2>11. CASE UNCHANGED pipelineVars
      BY <2>11 DEF pipelineVars, DraftCoversMatrix, SegmentsOf, SegmentIds
    <2> QED  BY <2>1, <2>2, <2>3, <2>4, <2>5, <2>6, <2>7, <2>8, <2>9, <2>10, <2>11 DEF PipelineNext
  <1> QED  BY <1>1, <1>2, AlwaysLoadInv, PTL DEF PipelineSpec

-----------------------------------------------------------------------------
(* Segments of a document and their pages.                                 *)

\* A bounded set of naturals has a greatest element.
LEMMA GreatestNatural ==
    ASSUME NEW n \in Nat, NEW S, S \subseteq 0..n, S # {}
    PROVE  \E m \in S : \A k \in S : k <= m
  <1> DEFINE D == {n - i : i \in S}
  <1>1. D \subseteq Nat /\ D # {}
    <2>1. PICK i : i \in S
      OBVIOUS
    <2>2. n - i \in D /\ \A k \in S : n - k \in Nat
      BY <2>1
    <2> QED  BY <2>2
  <1>2. PICK d \in D : \A e \in D : d <= e
    <2> HIDE DEF D
    <2> QED  BY <1>1, LeastNatural
  <1>3. PICK m \in S : d = n - m
    OBVIOUS
  <1>4. \A k \in S : n - m <= n - k
    BY <1>2, <1>3
  <1>5. \A k \in S : k \in 0..n
    OBVIOUS
  <1> QED  BY <1>3, <1>4, <1>5

\* A later position is on the same page or on a later one.
LEMMA PagesGrow ==
    ASSUME NEW doc \in Seq(Pieces), NEW p \in Nat, NEW q \in Nat, p <= q
    PROVE  PageAt(doc, p) \in Nat /\ PageAt(doc, q) \in Nat /\ PageAt(doc, p) <= PageAt(doc, q)
  <1> DEFINE Before(i) == {m \in Places(doc, {"marker"}) : m < i}
  <1>1. PICK n \in Nat : DOMAIN doc = 1..n
    OBVIOUS
  <1>2. IsFiniteSet(1..n)
    BY FS_Interval
  <1>3. \A i \in Nat : IsFiniteSet(Before(i))
    <2> TAKE i \in Nat
    <2>1. Before(i) \subseteq 1..n
      BY <1>1 DEF Places
    <2> HIDE DEF Before
    <2> QED  BY <1>2, <2>1, FS_Subset
  <1>4. Before(p) \subseteq Before(q)
    BY <1>1 DEF Places
  <1>5. PageAt(doc, p) = 1 + Cardinality(Before(p)) /\ PageAt(doc, q) = 1 + Cardinality(Before(q))
    BY DEF PageAt
  <1> HIDE DEF Before
  <1>6. Cardinality(Before(p)) \in Nat /\ Cardinality(Before(q)) \in Nat
    BY <1>3, FS_CardinalityType
  <1>7. Cardinality(Before(p)) <= Cardinality(Before(q))
    BY <1>3, <1>4, FS_Subset
  <1> QED  BY <1>5, <1>6, <1>7

\* The last position is in the segment, and no content comes after it.
LEMMA LastContent ==
    ASSUME NEW doc \in Seq(Pieces), NEW start \in Nat, NEW end \in Nat, start < end,
           NEW at, at = LastContentPos(doc, start, end)
    PROVE  /\ at \in start..end - 1 /\ (doc[at] # "marker" \/ at = start)
           /\ \A i \in start..end - 1 : doc[i] # "marker" => i <= at
  <1> DEFINE S == {start} \cup {i \in start..end - 1 : doc[i] # "marker"}
  <1>1. S # {} /\ S \subseteq 0..end
    OBVIOUS
  <1>2. \E m \in S : \A k \in S : k <= m
    <2> HIDE DEF S
    <2> QED  BY <1>1, GreatestNatural
  <1>3. at = CHOOSE i \in S : \A j \in S : j <= i
    BY DEF LastContentPos, Largest
  <1>4. at \in S /\ \A k \in S : k <= at
    <2> HIDE DEF S
    <2> QED  BY <1>2, <1>3
  <1> QED  BY <1>4

Heads(doc) == Places(doc, Headings)

\* A piece of the document with the pages of its ends.
PieceOf(doc, s) ==
    /\ s.start \in 1..Len(doc) /\ s.end \in 1..Len(doc) + 1 /\ s.start < s.end
    /\ s.first = PageAt(doc, s.start) /\ s.last = PageAt(doc, LastContentPos(doc, s.start, s.end))
    /\ \E i \in s.start..s.end - 1 : doc[i] # "marker"

LEMMA HeadsBounded ==
    ASSUME NEW doc \in Seq(Pieces)
    PROVE  Heads(doc) \subseteq 1..Len(doc) /\ Len(doc) \in Nat /\ IsFiniteSet(Heads(doc))
  <1>1. Heads(doc) \subseteq 1..Len(doc) /\ Len(doc) \in Nat
    BY DEF Heads, Places
  <1>2. IsFiniteSet(1..Len(doc))
    BY <1>1, FS_Interval
  <1> QED  BY <1>1, <1>2, FS_Subset

\* Without a heading: one segment, or none.
LEMMA WholeDocument ==
    ASSUME NEW doc \in Seq(Pieces), Heads(doc) = {}, NEW S, S = MarkdownToSegments(doc), S # {}
    PROVE  \E s : S = {s} /\ s.start = 1 /\ s.end = Len(doc) + 1 /\ PieceOf(doc, s)
  <1>1. PICK s : s = Segment(doc, 1, 1, Len(doc) + 1, <<>>)
    OBVIOUS
  <1>2. Places(doc, {"text"}) # {} /\ S = {s}
    BY <1>1 DEF MarkdownToSegments, Heads
  <1>3. 1 \in 1..Len(doc) /\ Len(doc) \in Nat /\ \E i \in 1..Len(doc) : doc[i] # "marker"
    <2>1. PICK i : i \in 1..Len(doc) /\ doc[i] # "marker"
      <3>1. PICK i : i \in Places(doc, {"text"})
        BY <1>2
      <3>2. i \in 1..Len(doc) /\ doc[i] # "marker"
        BY <3>1 DEF Places
      <3> QED  BY <3>2
    <2>2. Len(doc) \in Nat
      OBVIOUS
    <2> QED  BY <2>1, <2>2
  <1>4. s.start = 1 /\ s.end = Len(doc) + 1
    BY <1>1 DEF Segment
  <1>5. s.first = PageAt(doc, 1) /\ s.last = PageAt(doc, LastContentPos(doc, 1, Len(doc) + 1))
    BY <1>1 DEF Segment
  <1>6. PieceOf(doc, s)
    <2>1. \E i \in s.start..s.end - 1 : doc[i] # "marker"
      BY <1>3, <1>4
    <2> QED  BY <1>3, <1>4, <1>5, <2>1 DEF PieceOf
  <1> QED  BY <1>2, <1>4, <1>6

\* With headings: a segment from each to the next one.
FromHeading(doc, heads, s) ==
    /\ PieceOf(doc, s) /\ s.start \in heads
    /\ s.number = Cardinality({j \in heads : j <= s.start})
    /\ \A j \in heads : j > s.start => s.end <= j
    /\ s.end = Len(doc) + 1 \/ s.end \in heads

LEMMA CutAtHeadings ==
    ASSUME NEW doc \in Seq(Pieces), NEW heads, heads = Heads(doc), heads # {},
           NEW S, S = MarkdownToSegments(doc)
    PROVE  /\ \A s \in S : FromHeading(doc, heads, s)
           /\ \A i \in heads : \E s \in S : s.start = i
           /\ \A r, s \in S : r.start = s.start => r = s
  <1> DEFINE ends(i) == {j \in heads : j > i} \cup {Len(doc) + 1}
             end(i) == CHOOSE j \in ends(i) : \A k \in ends(i) : j <= k
             Seg(i) == Segment(doc, Cardinality({j \in heads : j <= i}), i, end(i), HeadingPath(doc, i))
  <1>1. S = {Seg(i) : i \in heads}
    BY DEF MarkdownToSegments, Heads
  <1>2. heads \subseteq 1..Len(doc) /\ Len(doc) \in Nat
    BY HeadsBounded
  <1>3. ASSUME NEW i \in heads PROVE end(i) \in ends(i) /\ \A k \in ends(i) : end(i) <= k
    <2>1. ends(i) \subseteq Nat /\ ends(i) # {}
      BY <1>2
    <2>2. \E j \in ends(i) : \A k \in ends(i) : j <= k
      <3> HIDE DEF ends
      <3> QED  BY <2>1, LeastNatural
    <2> HIDE DEF ends
    <2> QED  BY <2>2
  <1>4. ASSUME NEW i \in heads PROVE Seg(i).start = i /\ FromHeading(doc, heads, Seg(i))
    <2>1. PICK s, e : s = Seg(i) /\ e = end(i)
      OBVIOUS
    <2>2. e \in ends(i) /\ \A k \in ends(i) : e <= k
      BY <1>3, <2>1
    <2>3. e \in 1..Len(doc) + 1 /\ i < e /\ i \in 1..Len(doc) /\ (e = Len(doc) + 1 \/ e \in heads)
      BY <1>2, <2>2
    <2>4. \A j \in heads : j > i => e <= j
      BY <2>2
    <2>5. /\ s.number = Cardinality({j \in heads : j <= i}) /\ s.start = i /\ s.end = e
          /\ s.first = PageAt(doc, i) /\ s.last = PageAt(doc, LastContentPos(doc, i, e))
      BY <2>1 DEF Segment
    <2>6. FromHeading(doc, heads, s)
      <3> HIDE DEF end, ends, Seg
      <3>1. doc[i] # "marker"
        BY DEF Heads, Places, Headings
      <3>2. \E k \in s.start..s.end - 1 : doc[k] # "marker"
        BY <1>2, <2>3, <2>5, <3>1
      <3> QED  BY <2>3, <2>4, <2>5, <3>2 DEF FromHeading, PieceOf
    <2> QED  BY <2>1, <2>5, <2>6
  <1> HIDE DEF Seg
  <1> QED  BY <1>1, <1>4

\* The pages of a piece.
LEMMA PiecePages ==
    ASSUME NEW doc \in Seq(Pieces), NEW s, PieceOf(doc, s)
    PROVE  /\ \A t \in s.start..s.end - 1 : doc[t] = "text" => PageAt(doc, t) \in s.first..s.last
           /\ OnPage(doc, s, s.last)
           /\ doc[s.start] # "marker" => OnPage(doc, s, s.first)
           /\ \A p \in Nat : s.end <= p => s.last <= PageAt(doc, p)
  <1>1. PICK at : at = LastContentPos(doc, s.start, s.end)
    OBVIOUS
  <1>2. s.start \in Nat /\ s.end \in Nat /\ s.start < s.end
    BY DEF PieceOf
  <1>3. /\ at \in s.start..s.end - 1 /\ doc[at] # "marker"
        /\ \A i \in s.start..s.end - 1 : doc[i] # "marker" => i <= at
    <2>1. /\ at \in s.start..s.end - 1 /\ (doc[at] # "marker" \/ at = s.start)
          /\ \A i \in s.start..s.end - 1 : doc[i] # "marker" => i <= at
      BY <1>1, <1>2, LastContent
    <2>2. PICK i \in s.start..s.end - 1 : doc[i] # "marker"
      BY DEF PieceOf
    <2>3. CASE at = s.start
      <3>1. i = at
        BY <1>2, <2>1, <2>2, <2>3
      <3> QED  BY <2>1, <2>2, <3>1
    <2> QED  BY <2>1, <2>3
  <1>4. at \in Nat /\ s.last = PageAt(doc, at) /\ s.first = PageAt(doc, s.start)
    BY <1>1, <1>2, <1>3 DEF PieceOf
  <1>5. ASSUME NEW t \in s.start..s.end - 1, doc[t] = "text" PROVE PageAt(doc, t) \in s.first..s.last
    <2>1. t \in Nat /\ s.start <= t /\ t <= at
      BY <1>2, <1>3, <1>5
    <2>2. PageAt(doc, s.start) \in Nat /\ PageAt(doc, t) \in Nat /\ PageAt(doc, s.start) <= PageAt(doc, t)
      BY <1>2, <2>1, PagesGrow
    <2>3. PageAt(doc, at) \in Nat /\ PageAt(doc, t) <= PageAt(doc, at)
      BY <1>4, <2>1, PagesGrow
    <2> QED  BY <1>4, <2>2, <2>3
  <1>6. ASSUME NEW p \in Nat, s.end <= p PROVE s.last <= PageAt(doc, p)
    <2>1. at <= p
      BY <1>2, <1>3, <1>6
    <2> QED  BY <1>4, <2>1, PagesGrow
  <1>7. OnPage(doc, s, s.last)
    BY <1>3, <1>4 DEF OnPage
  <1>8. doc[s.start] # "marker" => OnPage(doc, s, s.first)
    <2>1. s.start \in s.start..s.end - 1
      BY <1>2
    <2> QED  BY <1>4, <2>1 DEF OnPage
  <1> QED  BY <1>5, <1>6, <1>7, <1>8

\* PagesCoverText of a document and its segments.
Covered(doc, S) ==
    S # {} =>
    LET s0 == CHOOSE i \in {s.start : s \in S} : \A s \in S : i <= s.start
    IN
    /\ \A t \in Places(doc, {"text"}) :
         LET in == {s \in S : t \in s.start..s.end - 1}
         IN  /\ Cardinality(in) = IF t < s0 THEN 0 ELSE 1
             /\ \A s \in in : PageAt(doc, t) \in s.first..s.last
    /\ \A s \in S :
         /\ OnPage(doc, s, s.last)
         /\ OnPage(doc, s, s.first) \/ (doc[s.start] = "marker" /\ Places(doc, Headings) = {})
    /\ \A r, s \in S : r.number < s.number => r.end <= s.start /\ r.last <= s.first

LEMMA WholeIsCovered ==
    ASSUME NEW doc \in Seq(Pieces), Heads(doc) = {}
    PROVE  Covered(doc, MarkdownToSegments(doc))
  <1>1. PICK S : S = MarkdownToSegments(doc)
    OBVIOUS
  <1> SUFFICES ASSUME S # {} PROVE Covered(doc, S)
    BY <1>1 DEF Covered
  <1>2. PICK s : S = {s} /\ s.start = 1 /\ s.end = Len(doc) + 1 /\ PieceOf(doc, s)
    BY <1>1, WholeDocument
  <1>3. PICK s0 : s0 = CHOOSE i \in {r.start : r \in S} : \A r \in S : i <= r.start
    OBVIOUS
  <1>4. s0 = 1
    <2>1. {r.start : r \in S} = {1} /\ \A r \in S : 1 <= r.start
      BY <1>2
    <2> QED  BY <1>3, <2>1
  <1>5. Len(doc) \in Nat
    OBVIOUS
  <1>6. ASSUME NEW t \in Places(doc, {"text"})
        PROVE  /\ {r \in S : t \in r.start..r.end - 1} = {s}
               /\ ~(t < s0) /\ PageAt(doc, t) \in s.first..s.last
    <2>1. t \in 1..Len(doc) /\ doc[t] = "text"
      BY DEF Places
    <2>2. t \in s.start..s.end - 1
      BY <1>2, <1>5, <2>1
    <2>3. PageAt(doc, t) \in s.first..s.last
      BY <1>2, <2>1, <2>2, PiecePages
    <2>4. {r \in S : t \in r.start..r.end - 1} = {s}
      BY ONLY <1>2, <2>2
    <2> QED  BY <1>4, <2>1, <2>3, <2>4
  <1>7. \A t \in Places(doc, {"text"}) :
         LET in == {r \in S : t \in r.start..r.end - 1}
         IN  /\ Cardinality(in) = IF t < s0 THEN 0 ELSE 1
             /\ \A r \in in : PageAt(doc, t) \in r.first..r.last
    <2> TAKE t \in Places(doc, {"text"})
    <2>1. PICK in : in = {r \in S : t \in r.start..r.end - 1}
      OBVIOUS
    <2>2. in = {s} /\ ~(t < s0) /\ PageAt(doc, t) \in s.first..s.last
      BY <1>6, <2>1
    <2>3. Cardinality(in) = 1
      BY ONLY <2>2, FS_Singleton
    <2> QED  BY <2>1, <2>2, <2>3
  <1>8. s.number < s.number => s.end <= s.start /\ s.last <= s.first
    <2>1. S = {Segment(doc, 1, 1, Len(doc) + 1, <<>>)}
      BY <1>1 DEF MarkdownToSegments, Heads
    <2>2. s.number = 1
      BY <1>2, <2>1 DEF Segment
    <2> QED  BY <2>2
  <1>9. \A r \in S :
         /\ OnPage(doc, r, r.last)
         /\ OnPage(doc, r, r.first) \/ (doc[r.start] = "marker" /\ Places(doc, Headings) = {})
    <2>1. OnPage(doc, s, s.last) /\ (OnPage(doc, s, s.first) \/ doc[s.start] = "marker")
      BY <1>2, PiecePages
    <2>2. Places(doc, Headings) = {}
      BY DEF Heads
    <2> QED  BY ONLY <1>2, <2>1, <2>2
  <1>10. \A r, q \in S : r.number < q.number => r.end <= q.start /\ r.last <= q.first
    BY ONLY <1>2, <1>8
  <1> QED  BY <1>3, <1>7, <1>9, <1>10, Zenon DEF Covered

LEMMA CutsAreCovered ==
    ASSUME NEW doc \in Seq(Pieces), Heads(doc) # {}
    PROVE  Covered(doc, MarkdownToSegments(doc))
  <1>1. PICK S, heads, n : S = MarkdownToSegments(doc) /\ heads = Heads(doc) /\ n = Len(doc)
    OBVIOUS
  <1>2. heads \subseteq 1..n /\ n \in Nat /\ IsFiniteSet(heads) /\ heads # {}
    BY <1>1, HeadsBounded
  <1>3. /\ \A s \in S : FromHeading(doc, heads, s)
        /\ \A i \in heads : \E s \in S : s.start = i
        /\ \A r, s \in S : r.start = s.start => r = s
    BY <1>1, CutAtHeadings
  <1>4. \A s \in S : /\ PieceOf(doc, s) /\ s.start \in heads
                     /\ \A j \in heads : j > s.start => s.end <= j
                     /\ s.end = n + 1 \/ s.end \in heads
                     /\ s.start \in Nat /\ s.end \in Nat /\ s.start < s.end
    <2> TAKE s \in S
    <2>1. FromHeading(doc, heads, s)
      BY <1>3
    <2>2. PieceOf(doc, s) /\ s.start \in heads
      BY <2>1 DEF FromHeading
    <2>4. \A j \in heads : j > s.start => s.end <= j
      BY <2>1 DEF FromHeading
    <2>5. s.end = n + 1 \/ s.end \in heads
      BY <1>1, <2>1 DEF FromHeading
    <2>6. s.start \in Nat /\ s.end \in Nat /\ s.start < s.end
      BY <1>1, <1>2, <2>2 DEF PieceOf
    <2> QED  BY <2>2, <2>4, <2>5, <2>6
  <1>5. PICK s0 : s0 = CHOOSE i \in {s.start : s \in S} : \A s \in S : i <= s.start
    OBVIOUS
  <1>6. s0 \in heads /\ \A i \in heads : s0 <= i
    <2>1. PICK m \in heads : \A k \in heads : m <= k
      <3>1. heads \subseteq Nat
        BY <1>2
      <3> QED  BY <1>2, <3>1, LeastNatural
    <2>2. {s.start : s \in S} = heads
      BY <1>3, <1>4
    <2>3. \A i : (\A s \in S : i <= s.start) <=> (\A k \in heads : i <= k)
      BY <1>3, <1>4
    <2>4. s0 = CHOOSE i \in heads : \A s \in S : i <= s.start
      BY <1>5, <2>2
    <2>5. s0 \in heads /\ \A s \in S : s0 <= s.start
      BY <2>1, <2>3, <2>4
    <2> QED  BY <2>3, <2>5
  <1>7. ASSUME NEW t \in Places(doc, {"text"}), NEW in, in = {s \in S : t \in s.start..s.end - 1}
        PROVE  /\ Cardinality(in) = IF t < s0 THEN 0 ELSE 1
               /\ \A s \in in : PageAt(doc, t) \in s.first..s.last
    <2>1. t \in 1..n /\ doc[t] = "text"
      BY <1>1 DEF Places
    <2>2. \A s \in in : PageAt(doc, t) \in s.first..s.last
      BY <1>4, <1>7, <2>1, PiecePages
    <2>3. CASE t < s0
      <3>1. in = {}
        <4> SUFFICES ASSUME NEW s \in in PROVE FALSE
          OBVIOUS
        <4>1. s.start <= t /\ s0 <= s.start /\ s.start \in Nat
          BY <1>2, <1>4, <1>6, <1>7, <2>1
        <4> QED  BY <1>2, <1>6, <2>1, <2>3, <4>1
      <3> QED  BY <2>2, <2>3, <3>1, FS_EmptySet
    <2>4. CASE ~(t < s0)
      <3> DEFINE before == {i \in heads : i <= t}
      <3>1. PICK i \in before : \A k \in before : k <= i
        <4>1. before \subseteq 0..n /\ s0 \in before
          <5>1. \A k \in 1..n : k \in 0..n
            BY <1>2
          <5>2. before \subseteq 0..n
            BY <1>2, <5>1
          <5>3. s0 \in 1..n /\ t \in 1..n
            BY <1>2, <1>6, <2>1
          <5>4. s0 <= t
            BY <1>2, <2>4, <5>3
          <5> QED  BY <1>6, <5>2, <5>4
        <4> HIDE DEF before
        <4> QED  BY <1>2, <4>1, GreatestNatural
      <3>2. PICK s \in S : s.start = i
        BY <1>3
      <3>3. s \in in
        <4>1. i <= t /\ i \in Nat /\ t \in Nat /\ t <= n
          BY <1>2, <2>1
        <4>2. t < s.end
          <5>1. CASE s.end = n + 1
            BY <1>2, <4>1, <5>1
          <5>2. CASE s.end \in heads
            <6>1. ~(s.end <= t)
              <7> SUFFICES ASSUME s.end <= t PROVE FALSE
                OBVIOUS
              <7>1. s.end \in before
                BY <5>2
              <7>2. s.end <= i
                BY <3>1, <7>1
              <7> QED  BY <1>4, <3>2, <7>2
            <6> QED  BY <1>4, <4>1, <6>1
          <5> QED  BY <1>4, <5>1, <5>2
        <4>3. t \in s.start..s.end - 1
          BY <1>4, <3>2, <4>1, <4>2
        <4> QED  BY <1>7, <4>3
      <3>4. \A r \in in : r = s
        <4> SUFFICES ASSUME NEW r \in in PROVE r.start = s.start
          BY <1>3, <1>7
        <4>1. r \in S /\ r.start <= t /\ t < r.end /\ t \in Nat
          BY <1>4, <1>7, <2>1
        <4>2. s.start <= t /\ t < s.end
          BY <1>4, <1>7, <3>3, <4>1
        <4>3. r.start > s.start => s.end <= r.start
          BY <1>4, <4>1
        <4>4. s.start > r.start => r.end <= s.start
          BY <1>4, <4>1
        <4> QED  BY <1>4, <4>1, <4>2, <4>3, <4>4
      <3>5. in = {s}
        BY <3>3, <3>4
      <3> QED  BY <2>2, <2>4, <3>5, FS_Singleton
    <2> QED  BY <2>3, <2>4
  <1>8. ASSUME NEW r \in S, NEW s \in S, r.number < s.number
        PROVE  r.end <= s.start /\ r.last <= s.first
    <2> DEFINE upto(i) == {j \in heads : j <= i}
    <2>1. r.start < s.start
      <3> SUFFICES ASSUME s.start <= r.start PROVE FALSE
        BY <1>4
      <3>1. upto(s.start) \subseteq upto(r.start) /\ IsFiniteSet(upto(r.start))
        <4>1. upto(r.start) \subseteq heads
          OBVIOUS
        <4>2. upto(s.start) \subseteq upto(r.start)
          <5> SUFFICES ASSUME NEW j \in upto(s.start) PROVE j <= r.start
            OBVIOUS
          <5>1. j \in Nat /\ j <= s.start
            BY <1>2
          <5>2. r.start \in Nat /\ s.start \in Nat
            BY <1>4
          <5> QED  BY <5>1, <5>2
        <4> HIDE DEF upto
        <4> QED  BY <1>2, <4>1, <4>2, FS_Subset
      <3>2. r.number = Cardinality(upto(r.start)) /\ s.number = Cardinality(upto(s.start))
        BY <1>3 DEF FromHeading
      <3> HIDE DEF upto
      <3>3. Cardinality(upto(s.start)) <= Cardinality(upto(r.start)) /\ IsFiniteSet(upto(s.start))
        BY <3>1, FS_Subset
      <3>4. Cardinality(upto(s.start)) \in Nat /\ Cardinality(upto(r.start)) \in Nat
        BY <3>1, <3>3, FS_CardinalityType
      <3> QED  BY <1>8, <3>2, <3>3, <3>4
    <2>2. r.end <= s.start
      BY <1>4, <2>1
    <2>3. r.last <= PageAt(doc, s.start)
      BY <1>4, <2>2, PiecePages
    <2> QED  BY <1>4, <2>2, <2>3 DEF PieceOf
  <1>9. \A t \in Places(doc, {"text"}) :
         LET in == {s \in S : t \in s.start..s.end - 1}
         IN  /\ Cardinality(in) = IF t < s0 THEN 0 ELSE 1
             /\ \A s \in in : PageAt(doc, t) \in s.first..s.last
    BY <1>7
  <1>10. \A s \in S :
         /\ OnPage(doc, s, s.last)
         /\ OnPage(doc, s, s.first) \/ (doc[s.start] = "marker" /\ Places(doc, Headings) = {})
    <2> TAKE s \in S
    <2>1. PieceOf(doc, s) /\ s.start \in heads
      BY <1>4
    <2>2. doc[s.start] # "marker"
      BY <1>1, <2>1 DEF Heads, Places, Headings
    <2> QED  BY <2>1, <2>2, PiecePages
  <1> QED  BY <1>1, <1>5, <1>8, <1>9, <1>10 DEF Covered

\* Segments are what was cut from a document, or none yet.
SegmentationInv == document \in Seq(Pieces) /\ segments \in {{}, MarkdownToSegments(document)}

LEMMA SegmentationStart == SegmentationInit => SegmentationInv
  BY DEF SegmentationInit, SegmentationInv

LEMMA SegmentationStep == SegmentationInv /\ [RunParse]_segmentVars => SegmentationInv'
  BY DEF SegmentationInv, RunParse, segmentVars

\* Of any document: a segment starts before it ends, within the document, and its
\* pages are numbers.
LEMMA SegmentsLie ==
    ASSUME NEW doc \in Seq(Pieces), NEW s \in MarkdownToSegments(doc)
    PROVE  s.start \in 1..s.end /\ s.end <= Len(doc) + 1 /\ s.first \in Nat /\ s.last \in Nat
  <1>1. PICK S, heads : S = MarkdownToSegments(doc) /\ heads = Heads(doc)
    OBVIOUS
  <1>2. PieceOf(doc, s)
    <2>1. CASE heads = {}
      <3>1. \E r : S = {r} /\ r.start = 1 /\ r.end = Len(doc) + 1 /\ PieceOf(doc, r)
        BY <1>1, <2>1, WholeDocument
      <3> QED  BY <1>1, <3>1
    <2>2. CASE heads # {}
      <3>1. \A r \in S : FromHeading(doc, heads, r)
        BY <1>1, <2>2, CutAtHeadings
      <3> QED  BY <1>1, <3>1 DEF FromHeading
    <2> QED  BY <2>1, <2>2
  <1>3. /\ s.start \in 1..Len(doc) /\ s.end \in 1..Len(doc) + 1 /\ s.start < s.end
        /\ s.first = PageAt(doc, s.start)
    BY <1>2 DEF PieceOf
  <1>4. PICK i \in s.start..s.end - 1 : PageAt(doc, i) = s.last
    BY <1>2, PiecePages DEF OnPage
  <1>5. i \in Nat /\ s.start \in Nat /\ Len(doc) \in Nat
    BY <1>3, <1>4
  <1>6. s.start <= i
    BY <1>4, <1>5
  <1>7. PageAt(doc, i) \in Nat /\ PageAt(doc, s.start) \in Nat
    BY <1>5, <1>6, PagesGrow
  <1> QED  BY <1>3, <1>4, <1>5, <1>7

LEMMA SegmentationTypes == SegmentationInv => SegmentationTypeOK
  <1> SUFFICES ASSUME SegmentationInv, NEW s \in segments
               PROVE  /\ s.start \in 1..s.end /\ s.end <= Len(document) + 1
                      /\ s.first \in Nat /\ s.last \in Nat
    BY DEF SegmentationTypeOK
  <1>1. document \in Seq(Pieces) /\ s \in MarkdownToSegments(document)
    BY DEF SegmentationInv
  <1> QED  BY <1>1, SegmentsLie

\* A segment never ends before it starts, nor after its source does.
THEOREM SegmentsTyped == SegmentationSpec => []SegmentationTypeOK
  BY SegmentationStart, SegmentationStep, SegmentationTypes, PTL DEF SegmentationSpec

\* Whatever the document, the pages recorded for its segments are those a reader
\* finds their text on; a marker at the start of a document without headings is
\* the one case where the first page may have none of it.
THEOREM PagesAlwaysCover == SegmentationSpec => []PagesCoverText
  <1>1. SegmentationInv => PagesCoverText
    <2> SUFFICES ASSUME SegmentationInv PROVE PagesCoverText
      OBVIOUS
    <2>1. PICK doc, S : doc = document /\ S = segments
      OBVIOUS
    <2>2. doc \in Seq(Pieces) /\ S \in {{}, MarkdownToSegments(doc)}
      BY <2>1 DEF SegmentationInv
    <2>3. Covered(doc, S)
      <3>1. CASE S = {}
        BY <3>1 DEF Covered
      <3>2. CASE S = MarkdownToSegments(doc)
        BY <2>2, <3>2, WholeIsCovered, CutsAreCovered
      <3> QED  BY <2>2, <3>1, <3>2
    <2>4. Covered(document, segments)
      BY <2>1, <2>3
    <2> QED  BY <2>4 DEF Covered, PagesCoverText
  <1> QED  BY <1>1, SegmentationStart, SegmentationStep, PTL DEF SegmentationSpec
=============================================================================
