----------------------------- MODULE RunAuthority -----------------------------
(***************************************************************************)
(* The lifecycle of one run as the Go control plane keeps it in PostgreSQL *)
(* (studio-backend/m3_persistence.go and its migration): the run row, the  *)
(* two human decisions with their one-time nonces, the trust-spine         *)
(* checkpoint and approval journal, the production seal, the signed        *)
(* release, its launch and its reconciliation.                             *)
(*                                                                         *)
(* Each command is one serializable transaction under the lock of the run  *)
(* row, so it is one step.  Callers are not trusted with anything: they    *)
(* send any command, built from whatever they read and however long ago,   *)
(* and send it again when its answer was lost.                             *)
(*                                                                         *)
(* Data.  A digest is the value it is computed from: a request digest is   *)
(* the command, a checkpoint digest the source and phase it covers, and an *)
(* approval id stands for its record digest as well.  Of what a nonce and  *)
(* a decision bind, the parts nothing else refers to (release, artifact    *)
(* and actor) are left out.  An idempotency key is the position of its     *)
(* command among those stored for the operation: fresh keys are            *)
(* interchangeable.                                                        *)
(***************************************************************************)
EXTENDS Integers, Sequences

CONSTANTS
    Digests,     \* plan and subject digests
    Sources,     \* source digests of checkpoints
    Nonces, ApprovalIds, Releases, LaunchKeys,
    MaxRevision, \* bound on the revision of the run
    None

ASSUME RunAssumption ==
    /\ MaxRevision \in Nat
    /\ None \notin Digests \cup ApprovalIds \cup Releases

VARIABLES
    run,        \* the runs row
    nonces,     \* approval_nonces, None where not registered
    approvals,  \* approvals, None where absent
    journal,    \* workflow_approval_entries by stage
    checkpoint, \* the workflow_checkpoints row
    releases,   \* releases
    launch,     \* the launch_results row
    recon,      \* the reconciliation_results row
    idem,       \* idempotency_results by operation and key
    events      \* the rows of events, in sequence

vars == <<run, nonces, approvals, journal, checkpoint, releases, launch, recon, idem, events>>

Stages  == {"simulation", "production"}
Phases  == {"verified", "simulation_approved", "approved_for_execution"}
Operations == {"run.create", "run.transition", "approval.simulation.record",
               "approval.production.record", "production-seal.commit", "release.create"}
Terminal == {"rejected", "succeeded", "failed", "cancelled", "budget_exhausted", "dead_lettered"}
States   == {"absent", "created", "running", "awaiting_input", "awaiting_approval", "approved"}
              \cup Terminal

\* m3Transitions.
Transitions ==
    [s \in States |->
       CASE s = "created"           -> {"running", "cancelled"}
         [] s = "running"           -> {"awaiting_input", "awaiting_approval", "succeeded", "failed",
                                        "cancelled", "budget_exhausted", "dead_lettered"}
         [] s = "awaiting_input"    -> {"running", "failed", "cancelled", "budget_exhausted"}
         [] s = "awaiting_approval" -> {"failed", "cancelled"}
         [] s = "approved"          -> {"running", "succeeded", "failed", "cancelled", "dead_lettered"}
         [] OTHER                   -> {}]

\* Digests of checkpoints; those before the seal are what callers can name.
CheckpointDigests == [source : Sources, phase : Phases]
UnsealedDigests   == [source : Sources, phase : Phases \ {"approved_for_execution"}]

\* What a nonce, and the decision it is spent on, bind.
Bindings ==
    [stage : {"simulation"}, plan : Digests, subject : Digests,
     checkpoint : UnsealedDigests, prior : {None}]
      \cup
    [stage : {"production"}, plan : Digests, subject : Digests,
     checkpoint : UnsealedDigests, prior : ApprovalIds]

Event(type, row) == [type |-> type, revision |-> row.revision, state |-> row.state]

-----------------------------------------------------------------------------
(***************************************************************************)
(* beginIdempotent and the revision check, then the command's own checks.  *)
(***************************************************************************)
\* Slip: the revision is compared before the key is looked up.
RevisionFirst(op, key, cmd, accepted) ==
    IF cmd.expected # run.revision THEN "revision_conflict"
    ELSE IF key \in DOMAIN idem[op]
           THEN IF idem[op][key].cmd = cmd THEN "replayed" ELSE "reused"
    ELSE IF accepted THEN "applied" ELSE "conflict"

Verdict(op, key, cmd, accepted) ==
    CASE key \in DOMAIN idem[op] ->
           IF idem[op][key].cmd = cmd THEN "replayed" ELSE "reused"
      [] key \notin DOMAIN idem[op] /\ cmd.expected # run.revision -> "revision_conflict"
      [] OTHER -> IF accepted THEN "applied" ELSE "conflict"

\* A key that was not used before.
Fresh(op) == Len(idem[op]) + 1

\* The end of a transaction: the row's next revision, its event and the
\* result stored for the key.
Commit(op, cmd, row, type) ==
    LET next == [row EXCEPT !.revision = @ + 1] IN
    /\ run.revision < MaxRevision
    /\ run' = next
    /\ events' = Append(events, Event(type, next))
    /\ idem' = [idem EXCEPT ![op] =
         Append(@, [cmd |-> cmd,
                    result |-> [revision |-> next.revision, state |-> next.state,
                                sequence |-> Len(events) + 1]])]

CreateRun(cmd) ==
    /\ Verdict("run.create", Fresh("run.create"), cmd, TRUE) = "applied"
    /\ Commit("run.create", cmd, [run EXCEPT !.state = "created"], "run.created")
    /\ UNCHANGED <<nonces, approvals, journal, checkpoint, releases, launch, recon>>

ReconciliationVerified ==
    /\ run.release # None /\ recon # None
    /\ recon.release = run.release /\ recon.outcome = "verified"

TransitionAccepted(cmd) ==
    /\ run.state \notin Terminal /\ cmd.to \in Transitions[run.state]
    /\ cmd.to = "awaiting_approval" =>
         /\ cmd.plan # None
         /\ run.simulation = None /\ run.production = None
         /\ run.approval = None /\ run.release = None
    /\ run.plan # None => run.plan = cmd.plan
    /\ cmd.to = "succeeded" => ReconciliationVerified

TransitionRun(cmd) ==
    /\ Verdict("run.transition", Fresh("run.transition"), cmd, TransitionAccepted(cmd)) = "applied"
    /\ Commit("run.transition", cmd,
              [run EXCEPT !.state = cmd.to, !.plan = IF cmd.plan = None THEN @ ELSE cmd.plan],
              "run.transitioned")
    /\ UNCHANGED <<nonces, approvals, journal, checkpoint, releases, launch, recon>>

-----------------------------------------------------------------------------
(***************************************************************************)
(* Human decisions.                                                        *)
(***************************************************************************)
RegisterApprovalNonce(n, b) ==
    /\ run.state = "awaiting_approval" /\ run.plan = b.plan
    /\ b.stage = "simulation" => run.simulation = None
    /\ b.stage = "production" => run.simulation # None /\ run.production = None
    /\ nonces[n] = None
    /\ nonces' = [nonces EXCEPT ![n] = [binding |-> b, expired |-> FALSE, approval |-> None]]
    /\ UNCHANGED <<run, approvals, journal, checkpoint, releases, launch, recon, idem, events>>

\* The database clock passes expires_at.
NonceExpires(n) ==
    /\ nonces[n] # None /\ ~nonces[n].expired
    /\ nonces' = [nonces EXCEPT ![n].expired = TRUE]
    /\ UNCHANGED <<run, approvals, journal, checkpoint, releases, launch, recon, idem, events>>

NonceUsable(cmd) ==
    /\ nonces[cmd.nonce] # None
    /\ nonces[cmd.nonce].binding = cmd.binding
    /\ nonces[cmd.nonce].approval = None
    /\ ~nonces[cmd.nonce].expired

\* The production decision names the simulation decision it follows and
\* decides on something else.
FollowsSimulation(b) ==
    /\ run.simulation = b.prior /\ run.production = None
    /\ approvals[b.prior] # None
    /\ approvals[b.prior].binding.stage = "simulation"
    /\ approvals[b.prior].decision = "approve"
    /\ approvals[b.prior].binding.subject # b.subject

ApprovalAccepted(cmd) ==
    /\ run.state = "awaiting_approval" /\ run.plan = cmd.binding.plan /\ run.approval = None
    /\ IF cmd.binding.stage = "simulation" THEN run.simulation = None /\ run.production = None
                                           ELSE FollowsSimulation(cmd.binding)
    /\ NonceUsable(cmd)
    /\ approvals[cmd.id] = None

RecordOperation(stage) ==
    IF stage = "simulation" THEN "approval.simulation.record" ELSE "approval.production.record"

RecordApproval(cmd) ==
    LET stage == cmd.binding.stage
        op    == RecordOperation(stage)
    IN  /\ Verdict(op, Fresh(op), cmd, ApprovalAccepted(cmd)) = "applied"
        /\ nonces' = [nonces EXCEPT ![cmd.nonce].approval = cmd.id]
        /\ approvals' = [approvals EXCEPT ![cmd.id] =
             [nonce |-> cmd.nonce, binding |-> cmd.binding, decision |-> cmd.decision]]
        /\ Commit(op, cmd,
                  [run EXCEPT !.state = IF cmd.decision = "reject" THEN "rejected" ELSE @,
                              !.simulation = IF stage = "simulation" THEN cmd.id ELSE @,
                              !.production = IF stage = "production" THEN cmd.id ELSE @],
                  "approval.recorded")
        /\ UNCHANGED <<journal, checkpoint, releases, launch, recon>>

-----------------------------------------------------------------------------
(***************************************************************************)
(* The trust spine's own record of the run, and the production seal.       *)
(***************************************************************************)
\* Appending an entry that is already there changes nothing.
AppendSimulationApprovalJournal(id, source) ==
    /\ run.state = "awaiting_approval" /\ run.simulation = id
    /\ approvals[id] # None
    /\ approvals[id].binding.stage = "simulation" /\ approvals[id].decision = "approve"
    /\ journal["simulation"] = None
    /\ journal' = [journal EXCEPT !["simulation"] =
         [approval |-> id, source |-> source, subject |-> approvals[id].binding.subject]]
    /\ UNCHANGED <<run, nonces, approvals, checkpoint, releases, launch, recon, idem, events>>

\* The row is created once, before the boundary; "before" is filled by the
\* seal with the digest it replaced.
CreateWorkflowCheckpoint(d) ==
    /\ d.phase # "approved_for_execution"
    /\ run.state = "awaiting_approval"
    /\ d.phase = "simulation_approved" =>
         journal["simulation"] # None /\ journal["simulation"].source = d.source
    /\ checkpoint = None
    /\ checkpoint' = [revision |-> 1, digest |-> d, plan |-> run.plan, before |-> None,
                      production |-> None]
    /\ UNCHANGED <<run, nonces, approvals, journal, releases, launch, recon, idem, events>>

\* An approved decision that binds the checkpoint as it stands, or just its
\* plan.
CoversPlan(id, stage) ==
    /\ approvals[id] # None
    /\ approvals[id].binding.stage = stage /\ approvals[id].decision = "approve"
    /\ approvals[id].binding.plan = checkpoint.plan

Covers(id, stage) ==
    /\ approvals[id] # None
    /\ approvals[id].binding.stage = stage /\ approvals[id].decision = "approve"
    /\ approvals[id].binding.checkpoint = checkpoint.digest
    /\ approvals[id].binding.plan = checkpoint.plan

SealAccepted(cmd) ==
    /\ cmd.simulation # cmd.production
    /\ run.state = "awaiting_approval"
    /\ run.simulation = cmd.simulation /\ run.production = cmd.production
    /\ run.approval = None
    /\ checkpoint # None /\ checkpoint.revision = 1 /\ checkpoint.digest = cmd.checkpoint
    /\ run.plan = checkpoint.plan
    /\ checkpoint.digest.phase = "simulation_approved"
    /\ Covers(cmd.simulation, "simulation") /\ Covers(cmd.production, "production")
    /\ approvals[cmd.production].binding.prior = cmd.simulation
    /\ approvals[cmd.simulation].binding.subject # approvals[cmd.production].binding.subject
    /\ journal["simulation"] # None
    /\ journal["simulation"].approval = cmd.simulation
    /\ journal["simulation"].source = checkpoint.digest.source
    /\ journal["simulation"].subject = approvals[cmd.simulation].binding.subject

SealJournal(cmd) ==
    journal' = [journal EXCEPT !["production"] =
      [approval |-> cmd.production, source |-> checkpoint.digest.source,
       subject |-> approvals[cmd.production].binding.subject]]

SealCheckpoint(cmd) ==
    checkpoint' = [checkpoint EXCEPT
      !.revision = @ + 1, !.digest.phase = "approved_for_execution",
      !.before = checkpoint.digest, !.production = cmd.production]

CommitProductionApprovalSeal(cmd) ==
    /\ Verdict("production-seal.commit", Fresh("production-seal.commit"), cmd, SealAccepted(cmd))
         = "applied"
    /\ SealJournal(cmd)
    /\ SealCheckpoint(cmd)
    /\ Commit("production-seal.commit", cmd,
              [run EXCEPT !.state = "approved", !.approval = cmd.production],
              "checkpoint.sealed")
    /\ UNCHANGED <<nonces, approvals, releases, launch, recon>>

-----------------------------------------------------------------------------
(***************************************************************************)
(* Release, launch and reconciliation.                                     *)
(***************************************************************************)
ReleaseAccepted(cmd) ==
    /\ run.state = "approved" /\ run.approval = cmd.approval
    /\ run.plan = cmd.subject /\ run.release = None
    /\ approvals[cmd.approval] # None
    /\ approvals[cmd.approval].binding.stage = "production"
    /\ approvals[cmd.approval].decision = "approve"
    /\ approvals[cmd.approval].binding.subject = cmd.subject
    /\ releases[cmd.release] = None

CreateRelease(cmd) ==
    /\ Verdict("release.create", Fresh("release.create"), cmd, ReleaseAccepted(cmd)) = "applied"
    /\ releases' = [releases EXCEPT ![cmd.release] =
         [approval |-> cmd.approval, subject |-> cmd.subject]]
    /\ Commit("release.create", cmd, [run EXCEPT !.release = cmd.release], "release.created")
    /\ UNCHANGED <<nonces, approvals, journal, checkpoint, launch, recon>>

\* Create-once facts: the same again is answered with what is stored; the last
\* one wins, if they are not.
Rerecorded(row, fact) == IF row = fact THEN "replayed" ELSE "recorded"

Recorded(row, fact) ==
    IF row = None THEN "recorded" ELSE IF row = fact THEN "replayed" ELSE "reused"

LaunchVerdict(fact) ==
    IF run.release # fact.release \/ run.state \notin {"approved", "running"}
      THEN "conflict" ELSE Recorded(launch, fact)

RecordLaunchResult(fact) ==
    /\ LaunchVerdict(fact) = "recorded"
    /\ launch' = fact
    /\ events' = Append(events, Event("launch.recorded", run))
    /\ UNCHANGED <<run, nonces, approvals, journal, checkpoint, releases, recon, idem>>

\* Asked for in any state of the run.
ReconciliationVerdict(fact) ==
    IF run.release # fact.release \/ launch = None THEN "conflict"
    ELSE IF launch.key # fact.key \/ launch.status # "launched" \/ launch.release # fact.release
      THEN "conflict" ELSE Recorded(recon, fact)

RecordReconciliation(fact) ==
    /\ ReconciliationVerdict(fact) = "recorded"
    /\ recon' = fact
    /\ events' = Append(events, Event("reconciliation.recorded", run))
    /\ UNCHANGED <<run, nonces, approvals, journal, checkpoint, releases, launch, idem>>

-----------------------------------------------------------------------------
Init ==
    /\ run = [state |-> "absent", revision |-> 0, plan |-> None, simulation |-> None,
              production |-> None, approval |-> None, release |-> None]
    /\ nonces = [n \in Nonces |-> None]
    /\ approvals = [a \in ApprovalIds |-> None]
    /\ journal = [s \in Stages |-> None]
    /\ checkpoint = None
    /\ releases = [r \in Releases |-> None]
    /\ launch = None /\ recon = None
    /\ idem = [op \in Operations |-> <<>>]
    /\ events = <<>>

\* A caller names the revision it read: the current one, or a stale one.
Expected == {run.revision, run.revision - 1} \cap Nat

\* A decision comes with the binding of some nonce, not always of the one it
\* names: any other binding is refused whatever the nonce.
Registered == {nonces[n].binding : n \in {m \in Nonces : nonces[m] # None}}

LaunchFacts == [release : Releases, key : LaunchKeys, status : {"launched", "failed"}]
ReconciliationFacts == [release : Releases, key : LaunchKeys, outcome : {"verified", "failed"}]

Next ==
    \/ CreateRun([expected |-> 0])
    \/ \E cmd \in [expected : Expected, to : States, plan : Digests \cup {None}] :
         TransitionRun(cmd)
    \/ \E n \in Nonces, b \in Bindings : RegisterApprovalNonce(n, b)
    \/ \E n \in Nonces : NonceExpires(n)
    \/ \E cmd \in [expected : Expected, id : ApprovalIds, nonce : Nonces, binding : Registered,
                   decision : {"approve", "reject"}] : RecordApproval(cmd)
    \/ \E id \in ApprovalIds, s \in Sources : AppendSimulationApprovalJournal(id, s)
    \/ \E d \in CheckpointDigests : CreateWorkflowCheckpoint(d)
    \/ \E cmd \in [expected : Expected, simulation : ApprovalIds, production : ApprovalIds,
                   checkpoint : UnsealedDigests] : CommitProductionApprovalSeal(cmd)
    \/ \E cmd \in [expected : Expected, release : Releases, approval : ApprovalIds,
                   subject : Digests] : CreateRelease(cmd)
    \/ \E fact \in LaunchFacts : RecordLaunchResult(fact)
    \/ \E fact \in ReconciliationFacts : RecordReconciliation(fact)

Spec == Init /\ [][Next]_vars

-----------------------------------------------------------------------------
Runs == [state : States, revision : 0..MaxRevision, plan : Digests \cup {None},
         simulation : ApprovalIds \cup {None}, production : ApprovalIds \cup {None},
         approval : ApprovalIds \cup {None}, release : Releases \cup {None}]
NonceRows == [binding : Bindings, expired : BOOLEAN, approval : ApprovalIds \cup {None}]
Decisions == [nonce : Nonces, binding : Bindings, decision : {"approve", "reject"}]
Entries   == [approval : ApprovalIds, source : Sources, subject : Digests]
Checkpoints == [revision : {1, 2}, digest : CheckpointDigests, plan : Digests,
                before : UnsealedDigests \cup {None}, production : ApprovalIds \cup {None}]
ReleaseRows == [approval : ApprovalIds, subject : Digests]
EventRows == [type : {"run.created", "run.transitioned", "approval.recorded",
                      "checkpoint.sealed", "release.created", "launch.recorded",
                      "reconciliation.recorded"},
              revision : 1..MaxRevision, state : States \ {"absent"}]

\* No row looks like the absence of one.
ASSUME RowAssumption ==
    /\ None \notin NonceRows /\ None \notin Decisions /\ None \notin Entries
    /\ None \notin Checkpoints /\ None \notin ReleaseRows
    /\ None \notin LaunchFacts /\ None \notin ReconciliationFacts

\* Every variable stays in its domain.
TypeOK ==
    /\ run \in Runs
    /\ nonces \in [Nonces -> NonceRows \cup {None}]
    /\ approvals \in [ApprovalIds -> Decisions \cup {None}]
    /\ journal \in [Stages -> Entries \cup {None}]
    /\ checkpoint \in Checkpoints \cup {None}
    /\ releases \in [Releases -> ReleaseRows \cup {None}]
    /\ launch \in LaunchFacts \cup {None}
    /\ recon \in ReconciliationFacts \cup {None}
    /\ DOMAIN idem = Operations
    /\ events \in Seq(EventRows)

Sealed == checkpoint # None /\ checkpoint.digest.phase = "approved_for_execution"

\* "Only the atomic production seal moves the run to approved": the sealed
\* checkpoint, the production journal entry and the run's approval come into
\* being together, whatever was sent before, after or between.
SealAtomic ==
    /\ Sealed <=> run.approval # None
    /\ Sealed <=> journal["production"] # None
    /\ run.state = "approved" => Sealed
    /\ Sealed => /\ run.approval = run.production /\ checkpoint.production = run.production
                 /\ journal["production"].approval = run.production
                 /\ journal["production"].source = journal["simulation"].source

\* What was sealed is what two different decisions approved: both name the
\* checkpoint that the seal replaced and the plan of the run, the second names
\* the first and decides on another subject.
SealEarned ==
    Sealed =>
      LET s == approvals[run.simulation]
          p == approvals[run.production]
      IN  /\ run.simulation # run.production
          /\ s.binding.stage = "simulation" /\ s.decision = "approve"
          /\ p.binding.stage = "production" /\ p.decision = "approve"
          /\ p.binding.prior = run.simulation
          /\ s.binding.subject # p.binding.subject
          /\ s.binding.checkpoint = checkpoint.before /\ p.binding.checkpoint = checkpoint.before
          /\ s.binding.plan = run.plan /\ p.binding.plan = run.plan
          /\ journal["simulation"].approval = run.simulation
          /\ journal["simulation"].source = checkpoint.before.source

\* "A run cannot become succeeded without a verified reconciliation bound to
\* its release": success rests on the whole chain, from the release back to
\* the production decision on this very plan.
SuccessEarned ==
    /\ run.release # None =>
         /\ Sealed
         /\ releases[run.release] = [approval |-> run.production, subject |-> run.plan]
         /\ approvals[run.production].binding.subject = run.plan
    /\ launch # None => launch.release = run.release
    /\ recon # None => launch # None /\ launch.status = "launched" /\ recon.key = launch.key
    /\ run.state = "succeeded" =>
         /\ run.release # None /\ recon # None
         /\ recon.release = run.release /\ recon.outcome = "verified"

\* The seal, as it comes into being and as it was earned, and the success that
\* rests on it.
SealSound == TypeOK /\ SealAtomic /\ SealEarned /\ SuccessEarned

\* "An approval nonce is one-time": a decision spends exactly the nonce that
\* binds all it decides on, and a spent nonce has its decision.
NonceSpentOnce ==
    /\ \A a \in ApprovalIds :
         approvals[a] # None =>
           /\ nonces[approvals[a].nonce] # None
           /\ nonces[approvals[a].nonce].approval = a
           /\ nonces[approvals[a].nonce].binding = approvals[a].binding
    /\ \A n \in Nonces :
         nonces[n] # None /\ nonces[n].approval # None =>
           approvals[nonces[n].approval] # None /\ approvals[nonces[n].approval].nonce = n
    /\ \A a, b \in ApprovalIds :
         approvals[a] # None /\ approvals[b] # None /\ a # b =>
           approvals[a].binding.stage # approvals[b].binding.stage

\* Who replays the events in sequence sees every revision once and in order,
\* and ends with the run as it is.
EventsReplay ==
    LET moves == {i \in DOMAIN events :
                    events[i].type \notin {"launch.recorded", "reconciliation.recorded"}}
    IN  /\ run.state # "absent" =>
             /\ events # <<>>
             /\ events[Len(events)].revision = run.revision
             /\ events[Len(events)].state = run.state
        /\ \A i \in DOMAIN events :
             events[i].revision = (IF i = 1 THEN 0 ELSE events[i - 1].revision)
                                    + (IF i \in moves THEN 1 ELSE 0)

\* A lost answer costs nothing: a command that took effect is answered, each
\* time it is sent again, with the result of the one time, and that result
\* names the event it caused, one revision after the one it expected.
AnswersStand ==
    \A op \in Operations : \A k \in DOMAIN idem[op] :
      LET cmd == idem[op][k].cmd
          res == idem[op][k].result
      IN  /\ Verdict(op, k, cmd, FALSE) = "replayed"
          /\ res.revision = cmd.expected + 1
          /\ events[res.sequence].revision = res.revision
          /\ events[res.sequence].state = res.state
          /\ op = "run.transition" => res.state = cmd.to
          /\ \A other \in DOMAIN idem[op] :
               other # k => Verdict(op, k, idem[op][other].cmd, TRUE) = "reused"

\* What the authority wrote down agrees with itself: nonces with decisions,
\* events with the run, answers with events.
RecordsAgree == NonceSpentOnce /\ EventsReplay /\ AnswersStand

\* What was decided stays: a terminal run never moves, its plan and its
\* approvals are set once, facts and the seal are never changed, and a nonce
\* that expired unspent stays unspent.
FactsStand ==
    [][ /\ run.state \in Terminal => run' = run
        /\ run.plan # None => run'.plan = run.plan
        /\ run.simulation # None => run'.simulation = run.simulation
        /\ run.production # None => run'.production = run.production
        /\ run.release # None => run'.release = run.release
        /\ \A a \in ApprovalIds : approvals[a] # None => approvals'[a] = approvals[a]
        /\ \A s \in Stages : journal[s] # None => journal'[s] = journal[s]
        /\ Sealed => checkpoint' = checkpoint
        /\ launch # None => launch' = launch
        /\ recon # None => recon' = recon
        /\ \A n \in Nonces :
             nonces[n] # None /\ (nonces[n].expired \/ nonces[n].approval # None) =>
               nonces'[n].approval = nonces[n].approval ]_vars

\* The comment on RecordLaunchResult: "a retry with the same facts returns the
\* original row".
LaunchRetryAnswered == launch # None => LaunchVerdict(launch) = "replayed"
=============================================================================
