------------------------------ MODULE CloudRun ------------------------------
(***************************************************************************)
(* The cloud run of one approved portfolio: the command run_m4_cloud, which *)
(* operators may start, lose and start again, and the execution it drives   *)
(* (execute_cloud_portfolio): upload every bundle, find or launch one       *)
(* Dataflow job per source, wait, compare the warehouse with the bundle,    *)
(* write the audit, copy the evidence to Mission Control, write the proof.  *)
(*                                                                          *)
(* Several operators may run at once.  They share the bucket, the jobs, the *)
(* warehouse tables, the audit table, Mission Control and the output paths, *)
(* and between two calls of one operator any other may act, any job may     *)
(* load rows, end or fail, and the operator itself may fail or die.         *)
(*                                                                          *)
(* Before all that the portfolio is prepared; a source goes through the     *)
(* stages of PortfolioData, and a snapshot is saved.                        *)
(***************************************************************************)
EXTENDS PortfolioData

CONSTANTS
    Operators,     \* processes running the command
    SourceOrder,   \* the sources, in the order of SOURCE_ORDER
    Batches,       \* sanitized rows of each source, by the name of the reading
    Plans,         \* compiled plans: their manifest and, per source, the plan
    Snapshots,     \* prepared portfolios an operator may pass as --snapshot
    Approvals,     \* approval records an operator may pass by hand
    McApproval,    \* the approval Mission Control recorded for this run
    Paths,         \* output paths
    MaxJobs,       \* bound: jobs ever created
    Handed,        \* bound: the source and draft whose snapshot is saved
    None

Sources == {SourceOrder[i] : i \in DOMAIN SourceOrder}

ASSUME CloudAssumption ==
    /\ SourceOrder \in Seq(Sources) /\ Len(SourceOrder) = Cardinality(Sources)
    /\ SourceOrder # <<>>
    /\ MaxJobs \in Nat

\* A snapshot names plans and records; both have been read under their schemas.
ASSUME PortfolioAssumption ==
    /\ \A p \in Snapshots : p.plans \in DOMAIN Plans /\ p.records \in DOMAIN Batches
    /\ \A n \in DOMAIN Plans, s \in Sources : PlanTyped(Plans[n].of[s])
    /\ \A n \in DOMAIN Batches, s \in Sources :
          /\ List(Batches[n][s])
          /\ \A i \in DOMAIN Batches[n][s] : \A f \in DOMAIN Batches[n][s][i] :
                LET c == Batches[n][s][i][f]
                IN  /\ c = [protection |-> c.protection, value |-> c.value]
                    /\ c.value.t \in ScalarTypes /\ DecodedValue(c.value)

VARIABLES
    objects,   \* bundles in the ingress bucket (create-only)
    jobs,      \* the Dataflow jobs in order of creation
    audit,     \* the audit table: per source a row or None
    mirror,    \* Mission Control: state and evidence of each source
    files,     \* the output paths: None, or a file that holds a proof or nothing
    op         \* the operators' processes

cloud == <<objects, jobs, audit, mirror, files, op>>
vars == <<desk, cloud>>

-----------------------------------------------------------------------------
(* The approved work. *)

\* The batch of every source was read under the manifest the snapshot holds.
Documents(p) == p.batch = p.manifest

\* The plans were compiled for that manifest; their digest is recomputed.
PlansDigest(p) == p.plans
PlansBound(p) == Plans[p.plans].manifest = p.manifest

\* A snapshot is accepted when its parts agree and its recorded digest is the
\* recomputed one.  The records themselves are under no digest of the snapshot.
Decoded(p) == Documents(p) /\ PlansBound(p) /\ p.digest = PlansDigest(p)

\* The approval names exactly the digest of the snapshot's plans.
Authorised(a, p) == a.digest = p.digest

\* What a snapshot's output is a function of: its plans and its records.
Output(p) == [plans |-> p.plans, records |-> p.records]
PlanOf(w, s) == Plans[w.plans].of[s]
RecordsOf(w, s) == Batches[w.records][s]

\* What the interpreter makes of a source, and the bundle builder of that.
\* The planner's gate is not run again on a loaded snapshot.
Execution(w, s) == ExecutePlan(PlanOf(w, s), RecordsOf(w, s))
Canonical(w, s) == CanonicalRows(Execution(w, s).rows, PlanOf(w, s).outputs)

\* The local execution and the bundles: every source or nothing.
Runnable == {p \in Snapshots : Decoded(p) /\ \A s \in Sources : Execution(p, s).code = "ok"}
Bundleable == {p \in Runnable : \A s \in Sources : Canonical(p, s).code = "ok"}

Executed(a, p) == p \in Runnable /\ Authorised(a, p)

Outputs == {Output(p) : p \in Bundleable}
RecordCount == [w \in Outputs |-> [s \in Sources |-> Len(Canonical(w, s).rows)]]

\* The job's own opinion of the rows.
Loadable ==
    [w \in Outputs |-> [s \in Sources |->
        ValidateBundleDocument(Canonical(w, s).rows, PlanOf(w, s).outputs)]]

\* The approval the command works under: Mission Control's, or the operator's.
ApprovalRecords(mission) == IF mission THEN {McApproval} ELSE Approvals

\* The content-addressed bundle of a source; equal bundles have equal digests,
\* object names and job names.
Bundle(s, a, p) ==
    [source |-> s, plans |-> PlansDigest(p), approval |-> a, output |-> Output(p)]

Bundles == {Bundle(s, a, p) :
               s \in Sources, a \in {McApproval} \cup Approvals, p \in Bundleable}

JobName(b) == b

\* The rows a job derives from its bundle carry the ordinals 0 .. n-1.
DestinationRows(b) == 0 .. (RecordCount[b.output][b.source] - 1)

\* The job's own check of the object it reads, before any row.
ValidBundle(b) == b \in objects /\ Loadable[b.output][b.source]

-----------------------------------------------------------------------------
(* What the warehouse and Dataflow answer. *)

JobIds == DOMAIN jobs
JobsOf(s) == {j \in JobIds : jobs[j].bundle.source = s}

\* The lineage of a source: every row of the run and the source, whatever job
\* wrote it.  The distinct digests and job names are those of the bundles.
Observation(s) ==
    LET rows == UNION {{<<j, n>> : n \in jobs[j].rows} : j \in JobsOf(s)}
    IN  [row_count |-> Cardinality(rows),
         ordinals  |-> {r[2] : r \in rows},
         bundles   |-> {jobs[r[1]].bundle : r \in rows}]

NoRows(seen) == seen = [row_count |-> 0, ordinals |-> {}, bundles |-> {}]

Reconciles(seen, b) ==
    /\ seen.row_count = RecordCount[b.output][b.source]
    /\ seen.ordinals = DestinationRows(b)
    /\ seen.bundles = {b}

\* Every job of that name, of any state.
FindJobByName(b) == {j \in JobIds : JobName(jobs[j].bundle) = JobName(b)}

Terminal == {"done", "failed"}

-----------------------------------------------------------------------------
(* The operators. *)

Idle == [at |-> "idle"]

Src(o) == SourceOrder[op[o].i]
Mine(o) == Bundle(Src(o), op[o].approval, op[o].snapshot)
Moved(o, p) == op' = [op EXCEPT ![o] = p]
Last(o) == op[o].i = Len(SourceOrder)

\* An error on any step: nothing but the reserved output path is undone.
Discard(o) == files' = [files EXCEPT ![op[o].path] = None]
Rejected(o) ==
    /\ Moved(o, Idle) /\ Discard(o)
    /\ UNCHANGED <<objects, jobs, audit, mirror>>

\* The next source of the loop, or the next loop.
Step(o, p, same, next) ==
    Moved(o, IF Last(o) THEN [p EXCEPT !.at = next, !.i = 1]
                        ELSE [p EXCEPT !.at = same, !.i = @ + 1])

\* prepare: the portfolio's snapshot is written, with its plans and batches.
Saved == [at |-> "saved"]
Save ==
    /\ Going("planned") /\ <<desk.decoded, desk.draft>> = Handed
    /\ desk' = Saved
    /\ UNCHANGED cloud

\* The command up to its reservation of the output path.
Invoke(o) ==
    /\ op[o] = Idle /\ desk = Saved
    /\ \E mission \in BOOLEAN, p \in Snapshots, path \in Paths :
         \E a \in ApprovalRecords(mission) :
           /\ Executed(a, p) /\ p \in Bundleable
           /\ files[path] = None
           /\ files' = [files EXCEPT ![path] = [proof |-> None]]
           /\ Moved(o, [at |-> "upload", mission |-> mission, snapshot |-> p,
                        approval |-> a, path |-> path, i |-> 1, seen |-> None,
                        job |-> <<>>, view |-> None])
    /\ UNCHANGED <<objects, jobs, audit, mirror>>

\* Slip: compute starts as soon as the first bundle is stored.
AfterUploadEager(o) == "observe"

\* The phase after the upload of one bundle.
AfterUpload(o) == IF Last(o) THEN "observe" ELSE "upload"

\* Create the object unless it exists; one that exists holds the same bytes.
Upload(o) ==
    /\ op[o].at = "upload"
    /\ objects' = objects \cup {Mine(o)}
    /\ Moved(o, [op[o] EXCEPT !.at = AfterUpload(o),
                              !.i = IF AfterUpload(o) = "upload" THEN @ + 1 ELSE 1])
    /\ UNCHANGED <<jobs, audit, mirror, files>>

Observe(o) ==
    /\ op[o].at = "observe"
    /\ Moved(o, [op[o] EXCEPT !.at = "find", !.seen = Observation(Src(o))])
    /\ UNCHANGED <<objects, jobs, audit, mirror, files>>

\* Hold a job for the source and go on with the next.
Holding(o, j) == Step(o, [op[o] EXCEPT !.job = Append(@, j), !.seen = None], "observe", "wait")

\* The job of the bundle's name is adopted; two of them, rows that do not
\* reconcile, or rows without a job end the command.
Find(o) ==
    /\ op[o].at = "find"
    /\ LET found == FindJobByName(Mine(o))
           clean == NoRows(op[o].seen) \/ Reconciles(op[o].seen, Mine(o))
       IN  \/ /\ clean /\ Cardinality(found) = 1
              /\ Holding(o, CHOOSE j \in found : TRUE)
              /\ UNCHANGED <<objects, jobs, audit, mirror, files>>
           \/ /\ found = {} /\ NoRows(op[o].seen)
              /\ Moved(o, [op[o] EXCEPT !.at = "launch"])
              /\ UNCHANGED <<objects, jobs, audit, mirror, files>>
           \/ /\ \/ Cardinality(found) > 1
                 \/ ~clean
                 \/ found = {} /\ ~NoRows(op[o].seen)
              /\ Rejected(o)

\* Launch; the client library repeats a request it thinks lost, three times at
\* most, so that several jobs may exist, of which the operator knows the last.
Requests == 1 .. 4
Launch(o) ==
    /\ op[o].at = "launch"
    /\ \E n \in Requests :
         /\ Len(jobs) + n <= MaxJobs
         /\ jobs' = jobs \o [k \in 1 .. n |->
                        [bundle |-> Mine(o), state |-> "running", rows |-> {}]]
         /\ Holding(o, Len(jobs) + n)
    /\ UNCHANGED <<objects, audit, mirror, files>>

\* Slip: any terminal state ends the wait well.
SucceededTerminal(j) == jobs[j].state \in Terminal

\* Only JOB_STATE_DONE is a success; every other terminal state is rejected.
Succeeded(j) == jobs[j].state = "done"

\* Slip: Mission Control is brought up to date before the audit is written.
AfterVerifyMirror(p) == IF p.mission THEN "get_run" ELSE "audit"

\* What follows the last source's verification.
AfterVerify(p) == "audit"

\* Poll until the job is terminal; only a job that is done counts, and only
\* when the lineage then observed is exactly the bundle's.  A job stays in its
\* terminal state, so the poll and the observation are one step.
Verify(o) ==
    /\ op[o].at = "wait"
    /\ LET j == op[o].job[op[o].i]
       IN  /\ jobs[j].state \in Terminal
           /\ IF Succeeded(j) /\ Reconciles(Observation(Src(o)), Mine(o))
              THEN /\ Step(o, op[o], "wait", AfterVerify(op[o]))
                   /\ UNCHANGED <<objects, jobs, audit, mirror, files>>
              ELSE Rejected(o)

-----------------------------------------------------------------------------
(* The audit, Mission Control and the proof. *)

\* The verified sources: job and bundle of each.  The audit digest is theirs.
Results(p) ==
    [s \in Sources |->
        LET i == CHOOSE k \in DOMAIN SourceOrder : SourceOrder[k] = s
        IN  [job |-> p.job[i], bundle |-> Bundle(s, p.approval, p.snapshot)]]

\* MERGE: a source without a row gets one, a source with a row keeps it.
Merged(table, results) ==
    [s \in Sources |-> IF table[s] = None THEN results[s] ELSE table[s]]

\* The rows read back must be the ones this operator meant to write.
AuditMatches(table, results) == table = results

EnsureAudit(o) ==
    /\ op[o].at = "audit"
    /\ audit' = Merged(audit, Results(op[o]))
    /\ IF AuditMatches(audit', Results(op[o]))
       THEN /\ Moved(o, [op[o] EXCEPT !.at = IF op[o].mission THEN "get_run" ELSE "commit"])
            /\ UNCHANGED files
       ELSE Moved(o, Idle) /\ Discard(o)
    /\ UNCHANGED <<objects, jobs, mirror>>

MirrorStates == <<"approved", "executing", "verifying", "completed">>
Following(state) ==
    MirrorStates[1 + CHOOSE k \in DOMAIN MirrorStates : MirrorStates[k] = state]

\* The states of all sources are read once.
GetRun(o) ==
    /\ op[o].at = "get_run"
    /\ Moved(o, [op[o] EXCEPT !.at = "sync", !.view = [s \in Sources |-> mirror[s].state]])
    /\ UNCHANGED <<objects, jobs, audit, mirror, files>>

\* Advance the source by one state from the state last known to this operator;
\* Mission Control refuses a state that does not follow its own.
Advance(o) ==
    /\ op[o].at = "sync" /\ op[o].view[Src(o)] # "completed"
    /\ LET s == Src(o)
           to == Following(op[o].view[s])
       IN  IF mirror[s].state = op[o].view[s]
           THEN /\ mirror' = [mirror EXCEPT
                     ![s].state = to,
                     ![s].bundle = IF to = "verifying" THEN Mine(o) ELSE @,
                     ![s].audit = IF to = "completed" THEN Results(op[o]) ELSE @]
                /\ Moved(o, [op[o] EXCEPT !.view[s] = to])
                /\ UNCHANGED <<objects, jobs, audit, files>>
           ELSE Rejected(o)

\* A source already complete is left; after the last one the frames follow.
Synced(o) ==
    /\ op[o].at = "sync" /\ op[o].view[Src(o)] = "completed"
    /\ Step(o, op[o], "sync", "emit")
    /\ UNCHANGED <<objects, jobs, audit, mirror, files>>

\* The terminal frames only report; what they carry is in the results.
Emit(o) ==
    /\ op[o].at = "emit"
    /\ Moved(o, [op[o] EXCEPT !.at = "commit"])
    /\ UNCHANGED <<objects, jobs, audit, mirror, files>>

Proof(p) == Results(p)

\* A missing row, bundle or proof is told from one that is there.
ASSUME NoneAssumption ==
    None \notin [job : Nat, bundle : Bundles] \cup [proof : {None}]

Commit(o) ==
    /\ op[o].at = "commit"
    /\ files' = [files EXCEPT ![op[o].path].proof = Proof(op[o])]
    /\ Moved(o, Idle)
    /\ UNCHANGED <<objects, jobs, audit, mirror>>

\* Any provider call may fail, time out or lose its answer.
Fail(o) == op[o] # Idle /\ Rejected(o)

\* The process dies: its output path stays reserved, as nobody removes it.
Die(o) == op[o] # Idle /\ Moved(o, Idle) /\ UNCHANGED <<objects, jobs, audit, mirror, files>>

-----------------------------------------------------------------------------
(* The jobs, on their own. *)

\* The rows are appended when the pipeline runs: all, of a valid bundle.
Load(j) ==
    /\ jobs[j].state = "running" /\ jobs[j].rows = {}
    /\ ValidBundle(jobs[j].bundle)
    /\ jobs' = [jobs EXCEPT ![j].rows = DestinationRows(jobs[j].bundle)]
    /\ UNCHANGED <<objects, audit, mirror, files, op>>

\* A job is done once its rows are in the table.
Finish(j) ==
    /\ jobs[j].state = "running" /\ jobs[j].rows = DestinationRows(jobs[j].bundle)
    /\ jobs' = [jobs EXCEPT ![j].state = "done"]
    /\ UNCHANGED <<objects, audit, mirror, files, op>>

\* A job that fails (or is cancelled) may have appended some rows, or all.
Break(j) ==
    /\ jobs[j].state = "running"
    /\ \E rows \in SUBSET DestinationRows(jobs[j].bundle) :
         /\ jobs[j].rows \subseteq rows
         /\ jobs' = [jobs EXCEPT ![j].state = "failed", ![j].rows = rows]
    /\ UNCHANGED <<objects, audit, mirror, files, op>>

Init ==
    /\ desk = Empty
    /\ objects = {}
    /\ jobs = <<>>
    /\ audit = [s \in Sources |-> None]
    /\ mirror = [s \in Sources |-> [state |-> "approved", bundle |-> None, audit |-> None]]
    /\ files = [p \in Paths |-> None]
    /\ op = [o \in Operators |-> Idle]

Prepare == (DataPath /\ UNCHANGED cloud) \/ Save

Command ==
    \/ \E o \in Operators :
         \/ Invoke(o) \/ Upload(o) \/ Observe(o) \/ Find(o) \/ Launch(o)
         \/ Verify(o) \/ EnsureAudit(o) \/ GetRun(o) \/ Advance(o)
         \/ Synced(o) \/ Emit(o) \/ Commit(o) \/ Fail(o) \/ Die(o)
    \/ \E j \in JobIds : Load(j) \/ Finish(j) \/ Break(j)

Next == Prepare \/ (Command /\ UNCHANGED desk)

Spec == Init /\ [][Next]_vars

-----------------------------------------------------------------------------
Audited == \A s \in Sources : audit[s] # None
Proofs == {f.proof : f \in {files[p] : p \in Paths} \ {None}} \ {None}

\* No job runs ahead of its inputs: whatever operator started it, the bundles of
\* every source of the same snapshot and approval are in the bucket, and that
\* approval names the plans of that snapshot ("Upload every content-addressed
\* input before starting compute"); and no job will refuse the bundle it reads.
WorkReady ==
    \A j \in JobIds :
      LET b == jobs[j].bundle
      IN  /\ b.approval.digest = b.plans
          /\ \A s \in Sources :
                [b EXCEPT !.source = s] \in objects /\ Loadable[b.output][s]

\* The audit is all or nothing, of one approval and one output of the plans; it
\* names jobs that are done and that appended every row of their bundle, and
\* every proof ever written, by any operator, is that audit.  What a further
\* job of the source appended is not the audit's but AppendedOnce's business.
AuditTruthful ==
    /\ Audited \/ \A s \in Sources : audit[s] = None
    /\ Audited => \A s \in Sources :
         LET row == audit[s]
         IN  /\ jobs[row.job].state = "done"
             /\ jobs[row.job].bundle = row.bundle
             /\ jobs[row.job].rows = DestinationRows(row.bundle)
             /\ \A t \in Sources : audit[t].bundle = [row.bundle EXCEPT !.source = t]
    /\ \A proof \in Proofs : proof = audit

\* "A lost response cannot cause a duplicate append": no two jobs of one bundle
\* append the same row.
AppendedOnce ==
    \A j, k \in JobIds :
      j # k /\ jobs[j].bundle = jobs[k].bundle => jobs[j].rows \cap jobs[k].rows = {}

\* Mission Control never runs ahead of the warehouse, and never against it: a
\* source that left "approved" has a written audit, and the evidence of a
\* verified and of a completed source is the audit's, whichever operators took
\* turns in advancing it.
MirrorTruthful ==
    \A s \in Sources :
      /\ mirror[s].state # "approved" => Audited
      /\ mirror[s].bundle # None => mirror[s].bundle = audit[s].bundle
      /\ mirror[s].audit # None => mirror[s].audit = audit
=============================================================================
