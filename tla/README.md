# Verification of the zero-trust migration agents

TLA+ models of the parts of this repository that decide what may be done to a
customer's systems, who consented to it and what is remembered of it; TLC runs
that check them on small instances; TLAPS proofs of the results that must hold
for every instance. `PROJECT.json` is the index: components, runs, the map from
definitions to source lines, hazards, findings and theorems.

## 1. Inventory

### Modelled

| Component | State it keeps | Operations | Module |
|---|---|---|---|
| Trust spine (`agent_runtime/trust_spine`) | append-only node records and approvals, one checkpoint, the stored result; in the process: the node being driven | `execute`, which walks validate/repair, policy, Vale, two approvals, the seal, dispatch, reconcile, certify | `TrustSpine` |
| Migration graph kernel (`agent_runtime/graph`, `m3_integration.py`) | one snapshot per run with its journal, under a revision | `run`, `request_interrupt`, `resume`, `apply_plan_route`, `record_model_call`, the handoff of a frozen plan | `CatalogGraph`, abstractly `CatalogFlow` |
| Approval kernel (`agent_runtime/approval`) | pending approvals, decisions, spent nonces, registered authority | `issue`, `approve_simulation`, `approve_production` | `Approvals` |
| Dynamic engine (`agent_runtime/dynamic`) | one task per source or topic, a semaphore, budgets, usage | the source and research workflows, with retries, repairs, children, time-out | `DynamicEngine` |
| M3 run authority (`studio-backend/m3_persistence.go`, SQL migration) | runs, nonces, approvals, approval journal, workflow checkpoint, releases, launch and reconciliation results, stored answers, events | `CreateRun`, `TransitionRun`, `RegisterApprovalNonce`, `RecordApproval`, `AppendSimulationApprovalJournal`, `CreateWorkflowCheckpoint`, `CommitProductionApprovalSeal`, `CreateRelease`, `RecordLaunchResult`, `RecordReconciliation` | `RunAuthority` |
| M3 task leases and effects (same file) | tasks, attempts, leases, effects, events | `EnqueueTask`, `ClaimTask`, `HeartbeatLease`, `CompleteTask`, `RecoverExpiredLeases`, `ReserveEffect`, `CommitEffect` | `TaskLeases` |
| M3 outbox (same file) | the delivery columns of the events | `ClaimOutbox`, `MarkOutboxPublished`, `FailOutbox` | `Outbox` |
| Portfolio control plane (`studio-backend/control_plane.go`, `firestore_state.go`, commands of `orchestrator_bridge.go`) | one snapshot: runs of three sources, decisions, events; stored in a file or a Firestore object | `CreateRun`, `AdvanceSource`, `AttachSourcePlan`, `EnterAwaitingApproval`, `FailSource`, `Decide`, `EventsAfter`, open, commit | `ControlPlane` |
| Data path (`edge_security`, `control_plane/artifacts.py`, `gemini_planner.py`, `trusted_runtime/interpreter.py`, `cloud_runtime/bundle.py`, `dataflow_template.py`) | a source on its way: records, draft, rows | redact, pack, admit a draft, execute it, bundle, validate in the job | `PortfolioData` |
| Cloud run (`scripts/run_m4_cloud.py`, `control_plane/workflow.py`, `cloud_runtime/orchestrator.py`, `google_adapters.py`, `mission_control_client.py`) | bucket, Dataflow jobs, warehouse rows, audit table, Mission Control, output files; the operators' processes | prepare, save, invoke, upload, find, launch, wait, verify, audit, mirror, prove | `CloudRun`, on top of `PortfolioData` |

How they meet. The catalog graph turns what a catalog knows into a frozen plan and
hands it to the trust spine. The spine runs in a worker that holds a task lease of
the M3 authority; the authority keeps the decisions the spine asks for, the sealed
checkpoint and the results it reports, and each of its commands appends events that
the outbox delivers. The approval kernel is the in-process form of the same two-stage
consent; the dynamic engine does the bounded model work. Beside these stands the
portfolio: the data path prepares a snapshot, a person decides on its plans in the
control plane, and the cloud run executes exactly what was approved, copying its
evidence back to the control plane, whose clients follow the event stream.

What is hard in them: a process may die between any two durable writes and is
resumed by running again; several processes may drive one run; a lease may expire
while its holder works on; an answer may be lost and its command retried; an approval
must stay bound to the very thing approved, although authority and clock were read
before the lock; a cancelled tree must unwind whole; each stage of the data path
checks the one before by rules of its own. The list, line by line, is `hazards` in
`PROJECT.json`.

### Not modelled

| Component | Why |
|---|---|
| `m3_approval.go`, `m3_approval_integration.go` | the HTTP side of approvals; what it records is decided by the commands of `RunAuthority` |
| `web_store.go`, `web_publication.go`, `web_runs.go`, `web_bff.go`, `web_identity.go` | sessions, pages and publication: mostly reads of rows whose writers are modelled; the rows of its own would be a model beside the others |
| `cloud_evidence.go`, `main.go` | queries for display, configuration |
| `edge_runtime` | decoders of legacy byte formats, archives and the local model's process; what they yield is what `PortfolioData` starts from |
| `plugin_factory/factory.py` | writes a directory from templates and runs its gates once in sequence |
| `scripts/stage_executor.py`, `mission_control_pipeline.py` | a demonstration server and its stages: printing, sample files, subprocesses |
| `studio` | pages over the event stream; the resume cursor is modelled on the server side |
| `cartridge_lab`, Beam pipelines | conversions of sample records, no state of their own |

Partly modelled: the orchestrator bridge (its credentials and JSON decoding are left
out) and the cloud run command (transport, tokens and local identity checks are left
out).

## 2. Plan

1. Core (done): `TrustSpine`, then the Go authority it reports to
   (`TaskLeases`, `Outbox`, `RunAuthority`), then `ControlPlane`.
2. The rest of the agents and the portfolio (done): `CatalogGraph` with its
   abstraction, `Approvals`, `DynamicEngine`, `PortfolioData`, and `CloudRun` composed
   with it.
3. Proofs (done): every invariant and every action property that a passing run checks, and
   the refinement of `CatalogFlow` by `CatalogGraph` (section 5).
4. Left: `m3_approval.go` composed with `RunAuthority`, and the web store.

## 3. The modules and the code

Every module keeps the control of the code it models and reduces data to what
its properties tell apart. Definitions whose comment begins with *Slip* are not
part of a model: each is a plausible mistake in the definition after it, used to
see that a property notices it (`mutants` in `PROJECT.json`).

### TrustSpine

One run of one frozen plan. `pc` is the node or approval boundary that
`TrustSpineRuntime.execute` is driving and `step` the place in its driver:
`_pure_node` and `_effect_node` replay a recorded answer, or append an intent
(`Begin`), invoke (`InvokePure`, `InvokeRepair`, `InvokePort`), write the output
(`Output`), append the success (`Succeed`) and move the checkpoint
(`SucceedCheckpoint`); failures have the same two halves. Each of these is one
durable write or one port call, so `Crash` may fall between any two. `Execute`
is `Journal.__init__`: it rebuilds the position from the records and refuses a
store whose records, chain and checkpoint disagree. `ApproveSimulation` and `Seal`
are the two approval boundaries; `Decide` is the approver, who may take any time.
The digest chain is a count of folded items, an idempotency key the record it is
derived from; both are exact as long as one process works on a run.

### TaskLeases, Outbox, RunAuthority

A command is one SQL transaction that locks the run, so it is one step. Clocks
are the database's, and a lease or a retry time has passed or has not: expiry is
a separate step that may come at any moment. Workers and relays are outside the
database and may hold a lease long after it was lost; `Forget`, `Send` and `Crash`
are theirs. A token drawn per claim is the generation that claim assigned.
`RunAuthority` follows one run; the other runs of the table share no row with
it. A command carries the revision its caller last saw, and the idempotency
table keeps the answer of each operation, so a retry is the same command again.

### ControlPlane

Each action is one method of `cpStore`, run under its mutex on the snapshot the
instance serves, and ends in `commit`: validate, write, adopt. A write ends in one
of four ways. It may be refused (no step). It may be `Written`. Hosted, the swap
may take effect while the answer is lost (`Unheard`): the instance keeps its old
snapshot and revision. Locally the rename may be done while the directory cannot
be synced (`Unsynced`): the new state is served and the command fails. `safe` is
what a power loss cannot undo. Reads change nothing; `EventsAfter` is an operator
the properties use. An event's random id is its place in the log together with the
power losses before it: a log that was cut off and grew again never reuses an id.

### CatalogGraph and CatalogFlow

`store` is the one snapshot of a run. A driver calls `run`: it takes the stored
snapshot (`Run`), computes the next node on its own copy and commits it if the
revision has not moved (`RunStep`), and starts over when it has (`Conflict`). `run`
commits after every node, and probes are committed one by one, so `Crash` may fall
between any two. Clients request interrupts, answer them with an idempotency key,
report model calls and plan routes, each a load and a compare-and-set in one call;
`Handoff` builds the frozen plan of a complete run. A refused call and a replayed
receipt change nothing. `receipts` is `resume_digests`: the keys answered so far, in
order, each with the text of its answer.

`CatalogFlow` is what all this promises a reader of the store: one sequential walk of
the graph, in which each fact is learned once and in order, a pause is left only to
the place it was taken at, repairs are bounded and an end is an end. `FlowSpec` is the
refinement: `phase`, `learned`, `held` and `repairs` are read off the snapshot.

### Approvals

`_approve` is four steps of a caller's thread: `Load` the pending approval, `Resolve`
the authority behind the credential, `ReadClock`, `CompareAndRecord` under the store's
lock. Between them `Issue`, `Register` (authority changes), `Tick` and other callers
may come. The store compares again what it holds; what was read before is used as
read. `clock` never goes back, while the code reads the wall clock: that a production
decision is dated no earlier than the simulation it rests on holds only as long as the
wall clock does not go back either.

### DynamicEngine

A task is its path in the tree. A step is what a task does between two awaits:
`Begin` counts the invocation, `Enter` takes a slot, consumes the root's budget, counts
the call and enters the runner. The runner's answer is a transient failure (`Transient`:
sleep without a slot, then `Wake`), one outside the schema (`Malformed`), any other
failure (`Broken`), or a response (`Answer`), whose proposed children become tasks;
`GatherChildren` is a parent whose children are done. A branch that fails ends as an outcome and
stops no other. `Return` is the run's answer, a result or blocked. The wall time or a
cancellation (`Expire`) tells every live task at once; `Unwind` is such a task running to
its end, a parent after its children, and `TimeOut` is the answer when all have.

### PortfolioData and CloudRun

`PortfolioData` follows one source on a `desk`: `Edge` redacts and packs it, `Plan`
admits or refuses any draft a model may answer with, `Execute` is the interpreter,
`Package` the bundle builder, `Receive` the job's validation. Each stage is an operator
that returns rows or a refusal code; which texts parse as what (`Reads`) and how a
value of each type is written again (`Written`) are constants, of which
`TextAssumption` says what the library conversions give: an integer reads as a
decimal, a value that was written reads as what it was, writing it again changes
nothing, and none is written like an address or a telephone number. `Folded` is
`casefold`, which `Truth` applies before it compares a text with `true` and `1`. The
refusals of the interpreter keep their codes: a cast or a column that would give a
token another type (`tokenized_type_change`), a value that does not parse
(`invalid_cast`), a number that is not finite (`nonfinite_numeric`), a null or a type
the column does not admit (`output_nullability`, `output_type`). `Lineage` follows
each output field back to the field of the record it came from. A token is the record of what it authenticates, so two
fields have equal tokens only if the keyed hash gives them the same.

`CloudRun` extends it: `Prepare` is that path, ending in a saved snapshot; `Command` is
everything `run_m4_cloud` does afterwards. An operator goes through its program one
external call at a time: `Invoke` (load, approve, execute locally, reserve the output
path), `Upload`, `Observe`, `Find`, `Launch`, `Verify`, `EnsureAudit`, then `GetRun`,
`Advance`, `Synced`, `Emit`, `Commit`. It may `Fail` at any of them or `Die` without a
trace. Jobs `Load`, `Finish` and `Break` by themselves. Bucket, jobs, tables and Mission
Control are what the calls made to them require: create-only objects, jobs that can
share a name, append-only rows, a merge that inserts what is absent.

Three of these deserve a word. `Launch` sends its request up to four times (`Requests`,
for `num_retries=3`), and each may start a job; `MaxJobs` bounds the jobs of a model.
That the service may run several jobs of one name is taken from the code, whose
`find_job_by_name` provides for more than one; a service that turns down a second
active job of a name would leave fewer behaviours. And the audit's `MERGE` is taken as
one atomic check and insert.

## 4. Runs

| Run | Checks | Distinct states |
|---|---|---|
| `trust_spine` | `TypeOK`, `EffectsAuthorised`, `JournalSound`, `ResultFaithful`, `SealIrreversible`, `SealedRunEnds` | 72,780 |
| `trust_spine_resume` | violation: `PendingApprovalResumes` | |
| `task_leases` | `TypeOK`, `OneRunningAttempt`, `BudgetKept`, `EventsTell`, `OneRequestPerKey`, `HistoryImmutable`, `LateWorkerPowerless`, `TasksEnd` | 269,188 |
| `outbox` | `DeliverySound`, `DeliveryFinal`, `EventsDelivered` | 143,724 |
| `consent` | `SealSound`, `RecordsAgree`, `FactsStand`, `StagesInOrder`, `DecidedOnce`, `DecisionsStand` | 448,421 |
| `run_authority_retry` | violation: `LaunchRetryAnswered` | |
| `control_plane` | `NeverSelfRefused`, `ExecutionApproved`, `LogSound` | 313,116 |
| `control_plane_shared` | `AckDurable`, `StreamGapless`, `HistoryStands` | 182,394 |
| `agent_runs` | `JournalSound`, `FlowSpec` (refinement), `RunSettles`, `UsageExact`, `EndsWhole`, `RunEnds` | 379,471 |
| `cloud_run` | `WorkReady`, `AuditTruthful`, `MirrorTruthful`, `ProtectedToTheEnd`, `GatesAgree` | 1,720,167 |
| `cloud_run_append` | violation: `AppendedOnce` | |
| `cloud_run_draft` | violation: `AdmittedDraftsApply` | |

Two runs check two models each that share no state, so that interleaving them would
show nothing. In `consent` a behaviour is one of `RunAuthority` or one of `Approvals`.
In `agent_runs`, which has liveness properties, the engine's run comes first, and where
it has ended in one particular way the graph's run begins; each model takes every step
it takes alone, under the fairness of its own specification.

The property comments in the modules say what each means; the larger ones are
conjunctions of named parts. In short:

* Consent. `EffectsAuthorised`, `SealIrreversible` (spine); `SealSound`, that is
  `SealAtomic`, `SealEarned` and `SuccessEarned` (authority); `StagesInOrder` and
  `DecidedOnce` (approval kernel); `ExecutionApproved` (control plane); `WorkReady`
  (cloud run).
* Nothing is done twice or forgotten. `JournalSound` (one key per effect, intent before
  effect, output before success, one record per step, a phase backed by its records);
  `OneRunningAttempt`, `LateWorkerPowerless`, `OneRequestPerKey`, `HistoryImmutable`
  (leases); `RecordsAgree`, `FactsStand` (authority); `AckDurable`, `HistoryStands`
  (control plane); `DecisionsStand`; `FlowSpec`; `UsageExact`.
* Resuming works. `NoFalseCorruption`, a part of the spine's `JournalSound`: no crash
  leaves a store that the next `execute` calls corrupt. `NeverSelfRefused`:
  validation before each write never turns down a legal command.
  `SealedRunEnds`, `TasksEnd`, `EventsDelivered`, `RunSettles`, `RunEnds`: what
  was begun comes to an end.
* What is told is true. `ResultFaithful`, `EventsTell`, `LogSound`, `DeliverySound`,
  `StreamGapless`, `AuditTruthful`, `MirrorTruthful`.
* Data. `ProtectedToTheEnd`: whatever the model drafts, a classified value reaches the
  warehouse only as its own token. `GatesAgree`: how far stages written separately agree. What
  the redactor makes of uniform records the packer takes. A draft the planner admits
  never fails in the interpreter on its operations or the names of its fields; it fails
  for the text of a value, for a column of a type the field's casts do not give it, or
  for giving a token another type, and in the last case always (finding 4). The builder
  finds a token wherever it expects one, and the job takes every bundle that was built.
  It says nothing of the builder's own refusals: of dotted names, of numbers outside
  the warehouse's domain, and of numbers it writes in another way (section 6).

### Bounds, and why they are enough

* `trust_spine`: five payloads, one for each way a payload can fare (rejected by
  validation, by policy, by Vale, good, and a second good one so that a changed
  payload is noticed); three repairs, the most the budget type allows, under a plan whose model
  calls suffice and one whose calls run out first; three crashes, so that a resume, its own interruption and a
  third attempt occur; two answers per port.
* `task_leases`: two workers over three attempts of one task meet every race
  between a holder, a late holder and recovery; one effect key with two requests and
  two results shows reuse. Two tasks share only the run's lock and the event log; the
  proofs cover any number.
* `outbox`: a run with two events and a run with one, two deliveries each, two relays,
  a claim that takes two rows: a first event that is late, retried or dead before a
  second one, and a claim across runs.
* `consent`, the authority: two digests, sources, nonces and approval ids each, so that
  the wrong one can be presented; `MaxRevision` 8 is enough for the whole way to
  success with one step to spare. The approval kernel: two callers and two requests for
  the two stages of one run, two plans and nonces so that the wrong one is presented, a
  window of one tick in a clock of two readings: inside and past it.
* `control_plane`: two of the three sources, since the derived state and the gate
  compare sources pairwise; one run to its end (18 events). `control_plane_shared`:
  one source, two runs one after the other under the same name, two instances;
  14 events are a failed run and a complete one.
* `agent_runs`, the engine: one slot, the width at which a parent waiting for its
  children could block them; five calls over two or three roots, so that quotas do not
  divide and a tree of three levels runs out of calls; proposals of none, one, and more
  than the engine admits. The graph: two drivers, one of which may crash for good; three
  kinds of facts, of which one may lack required fields and one be answered for the
  wrong kind; two interrupts (`MaxInterrupts`), so that an answer to the first arrives in
  the second.
* `cloud_run`: two operators, two sources, two approvals of the same plans, and eight
  snapshots of which one is sound; `MaxJobs` 3, so that one source gets a second job (of
  the up to four its launch requests could start; the proofs cover any number).
  The data path is run for 33 decoded sources and every draft of one or two operations
  of `MCCandidates`. Only one prepared source and draft, `Handed`, goes on to the cloud
  phase; the other snapshots an operator may hold are in `Snapshots`.

Deadlock is checked where the system should always be able to go on (`trust_spine`,
`control_plane`, `control_plane_shared`); the other models end when every task, event
or run has reached its end or its bound.

### Fairness

* `TrustSpine`: weak fairness of `Worker`, the caller that resumes a run it has not
  seen end; crashes and approvers are not fair.
* `TaskLeases`: the database clock passes every lease that nobody renews and every
  retry time; recovery and claims are polled in a loop; a worker does not hold a
  lost lease for ever.
* `Outbox`: the same for delivery leases, and relays poll `ClaimOutbox`.
* `CatalogGraph`: weak fairness of `Drive` for the drivers in `Reliable` only, whose
  processes stay up and call `run` again; callbacks may raise, other drivers may crash,
  clients owe nothing.
* `DynamicEngine`: weak fairness of the event loop running what is ready and of the
  runner answering. The wall time is not fair: runs end without it.

## 5. Proofs

A module `XProofs` holds the theorems about module `X`, for every value of its
constants; bounds such as `MaxCrashes` are any number, so no proof rests on one.
`AgentProofs` has two parts, for the two kernels an agent process runs beside the graph,
`Approvals` and `DynamicEngine`. They share no state.

| Module | Theorem | States |
|---|---|---|
| `TrustSpineProofs` | `TypeCorrect`, `EffectsAreAuthorised`, `JournalIsSound`, `ResultIsFaithful`, `SealIsIrreversible` | `TypeOK`, `EffectsAuthorised`, `JournalSound`, `ResultFaithful`, `SealIrreversible` |
| `TaskLeasesProofs` | `TypeCorrect`, `OneWorkerAtATime`, `BudgetIsKept`, `OneRequestForKey`, `EventsTellAll`, `HistoryIsImmutable`, `LateWorkerIsPowerless` | `TypeOK`, `OneRunningAttempt`, `BudgetKept`, `OneRequestPerKey`, `EventsTell`, `HistoryImmutable`, `LateWorkerPowerless` |
| `OutboxProofs` | `DeliveryIsSound`, `DeliveryIsFinal` | `DeliverySound`, `DeliveryFinal` |
| `RunAuthorityProofs` | `SealIsSound`, `RecordsDoAgree`, `FactsDoStand` | `SealSound`, `RecordsAgree`, `FactsStand` |
| `AgentProofs` | `ProductionAfterSimulation`, `OneDecision`, `DecisionsAreFinal` | `StagesInOrder`, `DecidedOnce`, `DecisionsStand` |
| `AgentProofs` | `UsageIsExact`, `EndsAreWhole` | `UsageExact`, `EndsWhole` |
| `ControlPlaneProofs` | `NeverTurnedDown`, `ExecutionIsApproved`, `LogIsSound`, `AcksAreDurable`, `StreamsAreGapless`, `HistoryIsKept` | `NeverSelfRefused`, `ExecutionApproved`, `LogSound`, `AckDurable`, `StreamGapless`, `HistoryStands` |
| `CatalogGraphProofs` | `JournalIsSound`, `ImplementsFlow` | `JournalSound`, `FlowSpec` |
| `CloudRunProofs` | `GatesDoAgree`, `ProtectionHolds`, `WorkIsReady`, `AuditIsTruthful`, `MirrorIsTruthful` | `GatesAgree`, `ProtectedToTheEnd`, `WorkReady`, `AuditTruthful`, `MirrorTruthful` |

Assumptions. Each module names what it assumes of its constants, and TLC evaluates it
in every run of the module. Most say that `None` (`Absent` in `Approvals`) is none of the values it is told from
(`NoneAssumption`, `AbsentAssumption`, `RowAssumption`) or give a bound its type and the
range the code's schema gives it (`BudgetAssumption`: at most 3 repairs and 30 model
calls; `TaskAssumption`: 1 to 32 attempts; `OutboxAssumption`; `RunAssumption`;
`ApprovalsAssumption`). The others carry something:

* `PayloadAssumption` (spine): what Vale verifies, policy allowed, and what policy
  allows was valid; the three checks run in this order.
* `ControlPlaneAssumption`: the canonical sources are distinct, and `EventLimit` is at
  least seven per source and four more; the code's 10,000 is far above that.
* `DynamicAssumption`: the ranges `DynamicLimits` checks, and the widths the two entry
  points admit, at most seven roots. The proof that the quotas share out the whole
  ceiling goes through these widths; the number of proposed children is any.
* `GraphAssumption`: probe kinds are distinct and are no names of graph nodes.
* `PortfolioAssumption`, `DataAssumption` (cloud run): plans and records have been read
  under their schemas. `TextAssumption`: how library conversions read what they wrote
  (section 3).

### The inductive invariants

`TrustSpine`. `IndInv` is `TypeOK`, `Control`, `Repairs` and `Consent`.
`EffectsAuthorised` alone is not inductive: that an effect step finds the run
sealed with two approvals of the payload it holds depends on the process being
where the checkpoint says it is. `Control` ties `pc` to the checkpoint (effect nodes
only behind the seal, pure nodes only before it); `Repairs` says that what a repair
answered is a payload, which a resumed run relies on; `Consent` says that behind the
simulation boundary the first approval names the payload in hand, and behind the seal
both approvals and the bundle do. `JournalSound` needs more, `JournalInv`. Its durable
part says that the records are one path: keys rise in rank, a key is left only once it
has a terminal record, and each terminal record leads to the key after it; checkpoint,
approvals, effects and stored result hold what the path says. Its volatile part, `Walk`,
says that the process stands on the path, and at its end once it has written. One key
per effect and one terminal record per key are consequences of the path; that no crash
leaves a store the next `execute` refuses follows from counting the chain along it.

`TaskLeases`. Each invariant leans on the others: that a claim may append an attempt
needs the previous one ended, hence the agreement of lease, status and running
attempt; that a claim finding the budget used up was of an expired lease needs
`BudgetKept`. Added are `Reserved` (an effect belongs to an attempt that was started)
and `Fresh` (a task not yet enqueued was never started). The proof goes one task at a
time: a task stays, ends its lease or is claimed. `TellInv` adds that the rows of a task
tell its status and attempts, proved from lemmas on appending rows to a log; the action
properties follow from `TaskSteps`, the four ways a step can touch a task.

`Outbox`. `DeliverySound` is not inductive because a relay may deliver after its lease
was lost. `HeldInTurn` says that a delivery in anyone's hands, however late, is of an
event whose predecessors are all published; `Received` that the subscriber has
every published event and got, before each event, all that precede it.

`RunAuthority`. `Life` says what a run lacks before it is created and that it waits for
approval with a plan; `Staged` that the second write of the checkpoint row is the seal
and stands on a journalled simulation; `Placed` that a decision is of the stage under
which the run names it. With them `SealAtomic`,
`SealEarned`, `SuccessEarned` and `NonceSpentOnce` are inductive: a run that reached
`succeeded` has, at each command before, the approval that command required.
`EventsReplay` and `Answered` are the books: a stored answer names its event and the
revision it was given for, and no two answers of an operation share that.

`Approvals`. What a caller read before the lock may be stale when it is used; `Reading`
says what is left of it: an authority was read before the clock, and the clock reading
is not ahead of the clock. `Issued` says that no two pending approvals share a nonce and
that a production approval was issued after the simulation decision it names; `Dated`
that no decision is of the future. This is just enough for the comparison under the
lock to make the rest true.

`DynamicEngine`. `UsageExact` sums the calls of a tree that grows while it is counted.
The sum is shown to be the number of the calls taken one by one (`MadeCounts`), so a step
that makes one call adds one, to its root's tree and to the run's, and new children add
none. `EngineInv` adds what the sum does not say. `Grown`: the tasks are a tree of at most
three levels, in which a child has one parent, and a root was called before anything below
it; hence the children of an answer are new, and a root finds its quota spent only after
a call of its own. `Consistent`: a queued task was never called exactly when it is neither
a retry nor a repair, so each call is counted as one of the three. `Accounts`: a task is
counted as begun before it is called, and a root never exceeds its quota; the
quotas of all roots are the ceiling (`Ceiling`). `Settled`: a task that has ended has no
child at work and, if it is complete, only complete ones. `EndsWhole` follows
by going down the three levels from the roots (`Downward`), and a stopping run always has
a live task without live children to unwind (`Deepest`).

`ControlPlane`. `StoreInv` says that every snapshot anywhere, stored, safe, served or
acknowledged, is sound (`SnapSound`), and that each has grown into the stored one
(`Grown`: logs are extended, decisions and ended runs stay, plans are not replaced,
counts do not fall). One lemma per command shows that it makes a sound snapshot of a
sound one and only adds to it; one on `commit` carries this through the four ways a
write can end. That validation never refuses needs the event limit out of reach: each
event of a run takes one of seven places of its source or four of the portfolio, an
end taking the place of the success it excludes, and no place is taken twice.

`CatalogGraph`. A stored snapshot is `Good`: well-formed as the constructor demands
(`Shaped`), its operation ids all different and numbered by their place (`Labelled`), its phase backed by
the nodes journalled and those only (`Placed`), its interrupts asked and answered in
turn (`Asked`). A driver's copy equals the store exactly while the revision it expects
is the stored one (`Held`), so a compare-and-set that succeeds is a step from the
stored snapshot. Each such step `Moves` the snapshot as one step of `CatalogFlow`; the
answers of one fan-out are committed one by one, each such a step. `ImplementsFlow` is the
step simulation for the mapping in `FlowSpec`.

`CloudRun`. For the data path `DeskInv` says what each stage guarantees to the next:
after planning, that the fields the planner computed for a draft are the fields the
interpreter will compute; after execution, that the rows have the declared fields and
types and tokens where there were tokens; after bundling, that the job's validation
accepts the document. `DeskCarries` says that each value is its own record's, by
lineage. For the cloud phase `CloudInv` has a part per store (`JobsSound`, `AuditSound`,
`MirrorSound`, `FilesSound`) and `OpsSound`: what an operator has established so far.
Steps of other operators cannot undo it, because bucket and list of jobs only grow,
jobs keep their bundles, and audit rows are inserted once (`Grows`).

Facts about folds and counts of any length (the draft's operations, the records, the
journal, the calls of a tree) are proved with the least index or size at which they
would fail, since the library's induction theorems are out of the provers' reach.

### Only model-checked

* Liveness: `SealedRunEnds`, `TasksEnd`, `EventsDelivered`, `RunSettles`, `RunEnds`.
  Fairness and ENABLED are beyond the prover.
* What the four violation runs refute.


## 6. Findings

1. `trust_spine_resume`. `_repair` compares the number of journalled repairs with the
   budget before it looks for the repair's durable record. A run that used its
   whole budget and then waits for an approval therefore fails when it is resumed,
   although the design document says that calling `execute` again resumes it.
2. `run_authority_retry`. `RecordLaunchResult` refuses every call on a run that is
   neither approved nor running before it looks for the recorded row, so the retry of a
   lost answer is refused once the run has ended, although its comment promises the
   original row.

3. `cloud_run_append`. The launch is a POST repeated up to three times when its answer
   is lost, and nothing in the request lets the service tell the repetition; a second
   operator may also launch between another's search for the job and its launch. Two
   jobs of one name then append the same rows, although
   `MILESTONE_4_TRUSTED_CLOUD_RUNTIME.md` says that "a lost response cannot cause a
   duplicate append". Rows are only ever appended, so if both jobs have loaded before the
   verification, the comparison with the bundle fails for good and the portfolio is
   never audited; a second job that loads after the audit leaves duplicate rows under an
   audit that is true of the first.
4. `cloud_run_draft`. `_validate_cloud_draft` follows the names of the fields through a
   draft and not their protection, so it admits a cast or a column that gives a
   tokenised field another type. The interpreter refuses that for every value, after
   the plan was approved, although the gate's docstring says it rejects "plans that the
   closed cloud interpreter cannot apply". It fails closed: nothing is disclosed
   (`ProtectedToTheEnd`). A column of a public field whose type its casts do not give it is
   admitted and refused in the same way.

A comment that the code contradicts, seen in `ControlPlane` and without a run of its own:

* `commit` in `control_plane.go` (line 1087) "validates and durably writes next, and only
  then makes it visible. A failed write leaves the in-memory state exactly as it was."
  When only the directory sync fails (`Unsynced`), the new state is adopted and the
  command is answered with an error all the same; `AckDurable` and `NeverSelfRefused` are
  shown with that behaviour.

Observations that contradict no document:

* `CreateWorkflowCheckpoint` accepts the phase `verified`, from which no command
  advances, so such a run can never be sealed.
* `RecordApproval` does not consult the workflow checkpoint; that the digest is the
  right one is checked only by the seal.
* `RecordReconciliation` is accepted in any run state. `CreateRelease` needs the state
  `approved`: a run moved to `running` before its release can no longer succeed.
* `CommitEffect` takes no lease, and locks effect and run in the other order than
  `ReserveEffect`; PostgreSQL resolves a deadlock by aborting one of them.
* An effect node that failed for good is reported by the spine as `STATE_CORRUPTION`
  on the next call; the model names the outcome `NODE_FAILED`.
* A hosted instance that lost a swap serves its old snapshot until it is restarted.
* Ended runs are never removed from the snapshot, so `cpMaxRuns` bounds the runs ever
  created.
* Nothing in the graph kernel itself enters the phase `planning`; a run is in it when
  its snapshot was created there.
* The records in a prepared snapshot are under no approved digest: the approval binds
  the plans and the manifest.
* An operator that dies leaves its output path reserved, and a failed job's name keeps
  later operators from launching another.
* The interpreter digests a decimal as it was written and the bundle builder as it is
  normalised, so `12.50`, or an integer under a decimal column, executes locally and is
  refused after approval (`bundle.py:321`). It fails closed.
* A field name with a dot passes schema and planner and is refused by the bundle builder.
* A public field that is null in some records and not in others is refused at the edge,
  whatever its column's nullability.

## 7. Running

In this directory: `tlc -workers 2 -config MCTrustSpine.cfg MCTrustSpine`, likewise for
the other configurations (each is named after its module; `MCTrustSpineResume`,
`MCRunAuthorityRetry`, `MCControlPlaneShared`, `MCCloudRunAppend` and `MCCloudRunDraft`
name a question after the module). `MCConsent` and `MCAgentRuns` put two models in one run.
The proofs: `tlapm TrustSpineProofs.tla`, and the same for `TaskLeasesProofs`,
`OutboxProofs`, `RunAuthorityProofs`, `AgentProofs`, `ControlPlaneProofs`,
`CatalogGraphProofs` and `CloudRunProofs`; each takes between half a minute and ten.
