----------------------------- MODULE IngestJobs -----------------------------
(***************************************************************************)
(* The rows of ingest_jobs and ingest_job_passes of one job, and what the  *)
(* ingest service does to them (services/ingest.py).  create_job takes the *)
(* id of the job before it has one, so its passes are refused and no       *)
(* request creates a job.  The rows are there from the start: at this      *)
(* commit only a job that was inserted by other means can be reported on.  *)
(*                                                                         *)
(* Reporters are processes with a session each (job_tracker.py).  A report *)
(* selects the job, selects its passes, and writes what it changed.  The   *)
(* flush locks the rows it writes until the commit, so both are one step.  *)
(***************************************************************************)
EXTENDS Naturals

CONSTANTS
    TrackedPasses,  \* the passes other callers of the tracker report on
    Reporters       \* processes that report on the job

Passes == {"parse", "extract", "draft", "cite", "canonicalize", "edges", "bundles", "load"}

ASSUME JobsAssumption == TrackedPasses \subseteq Passes /\ TrackedPasses # {}

VARIABLES
    job,        \* status and, by pass, the status of the pass
    report,     \* by reporter, the report it is making and the rows it has read
    byHand      \* history: fail_job was called since a pass last changed

jobVars == <<job, report, byHand>>

PassStatuses == {"pending", "running", "completed", "failed", "skipped"}
JobRow == [status : {"pending", "running", "completed", "failed"}, passes : [Passes -> PassStatuses]]

Operations == {"start", "complete", "fail", "fail_job"}

Idle == [op |-> "idle"]
Report == [op : Operations, pass : Passes, at : {"passes", "flush"}, seen : JobRow]

\* create_job: the flush fails on the first pass, and with it the request.
CreateJob == UNCHANGED jobVars

StartPass(j, p) ==
    [status |-> IF j.status = "pending" THEN "running" ELSE j.status,
     passes |-> [j.passes EXCEPT ![p] = "running"]]

\* Mutant: the passes are looked at before this one is marked.
AllTerminalBefore(j, p) == \A q \in Passes : j.passes[q] \in {"completed", "skipped"}

AllTerminal(j, p) == \A q \in Passes \ {p} : j.passes[q] \in {"completed", "skipped"}

\* Completing the last pass completes the job, whatever its status was.
CompletePass(j, p) ==
    [status |-> IF AllTerminal(j, p) THEN "completed" ELSE j.status,
     passes |-> [j.passes EXCEPT ![p] = "completed"]]

FailPass(j, p) == [status |-> "failed", passes |-> [j.passes EXCEPT ![p] = "failed"]]

\* What a report makes of the rows it read.
Reported(j, op, p) ==
    CASE op = "start" -> StartPass(j, p)
      [] op = "complete" -> CompletePass(j, p)
      [] op = "fail" -> FailPass(j, p)
      [] op = "fail_job" -> [j EXCEPT !.status = "failed"]

\* The unit of work writes the columns that differ from what was read.
Flushed(seen, new, now) ==
    [status |-> IF new.status = seen.status THEN now.status ELSE new.status,
     passes |-> [q \in Passes |-> IF new.passes[q] = seen.passes[q] THEN now.passes[q] ELSE new.passes[q]]]

LoadJob(r, op, p) ==
    /\ report[r] = Idle
    /\ report' = [report EXCEPT ![r] = [op |-> op, pass |-> p, at |-> "passes", seen |-> job]]
    /\ UNCHANGED <<job, byHand>>

\* selectinload: the passes are a statement of their own.
LoadPasses(r) ==
    /\ report[r] # Idle /\ report[r].at = "passes"
    /\ report' = [report EXCEPT ![r].at = "flush", ![r].seen.passes = job.passes]
    /\ UNCHANGED <<job, byHand>>

CommitReport(r) ==
    /\ report[r] # Idle /\ report[r].at = "flush"
    /\ LET seen == report[r].seen
       IN  job' = Flushed(seen, Reported(seen, report[r].op, report[r].pass), job)
    /\ byHand' = (report[r].op = "fail_job")
    /\ report' = [report EXCEPT ![r] = Idle]

\* The tracker only warns when the database cannot be reached any more.
LoseReport(r) ==
    /\ report[r] # Idle
    /\ report' = [report EXCEPT ![r] = Idle]
    /\ UNCHANGED <<job, byHand>>

JobsInit ==
    /\ job = [status |-> "pending",
              passes |-> [p \in Passes |-> IF p \in TrackedPasses THEN "pending" ELSE "skipped"]]
    /\ report = [r \in Reporters |-> Idle]
    /\ byHand = FALSE

\* The operations in any order, as callers of the tracker can report passes: nothing
\* keeps them from starting a completed pass or completing a failed one.
JobsNext ==
    \/ \E r \in Reporters :
         \/ \E op \in Operations, p \in TrackedPasses : LoadJob(r, op, p)
         \/ LoadPasses(r) \/ CommitReport(r) \/ LoseReport(r)
    \/ CreateJob

JobsSpec == JobsInit /\ [][JobsNext]_jobVars

JobsTypeOK ==
    /\ job \in JobRow
    /\ report \in [Reporters -> {Idle} \cup Report]
    /\ byHand \in BOOLEAN

\* The job's status tells of its passes, in whatever order one process reports and
\* retries them: while one is failed the job is failed, once all are terminal it is
\* completed (unless it was failed by hand), and while one runs it is not pending.
JobTellsPasses ==
    /\ (\E p \in Passes : job.passes[p] = "failed") => job.status = "failed"
    /\ (\A p \in Passes : job.passes[p] \in {"completed", "skipped"}) => job.status = "completed" \/ byHand
    /\ (\E p \in Passes : job.passes[p] = "running") => job.status # "pending"
=============================================================================
