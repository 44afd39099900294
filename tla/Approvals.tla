------------------------------- MODULE Approvals -------------------------------
(***************************************************************************)
(* The approval kernel (agent_runtime/approval): the server issues pending *)
(* approvals, a human decides one by naming its request and its one-time   *)
(* nonce, and the decision becomes an immutable record.  Production may be *)
(* decided only after the simulation of the same plan was approved.        *)
(*                                                                         *)
(* ApprovalKernel._approve is four steps of a caller's thread: it loads    *)
(* the pending approval, resolves the authority behind its credential,     *)
(* reads the clock, and then compares and records under the store's lock.  *)
(* Between them other callers decide, requests are issued, authority       *)
(* changes and time passes.                                                *)
(*                                                                         *)
(* There is one tenant.  A plan stands for the plan, release and artifact  *)
(* digests with the checkpoint and audience they are approved at, which    *)
(* are compared alike; a digest is what it digests, so a record is its own *)
(* digest and an interrupt id is the subject it binds.  A context's "valid"*)
(* is its authenticated and artifact_present.                              *)
(***************************************************************************)
EXTENDS Naturals, FiniteSets

CONSTANTS
    Callers,       \* threads in approve_simulation or approve_production
    RunIds, Plans,
    Requests,      \* request ids
    NonceIds,
    Tokens,        \* credentials, each one actor's
    Quorum,        \* required_approvers of every request
    MaxApprovers,  \* bound on approver_count
    Lifetime,      \* ticks between issued_at and expires_at
    MaxTime,       \* bound on the clock
    Absent

ApprovalStage == {"simulation", "production"}
Decision == {"approve", "reject"}

ASSUME ApprovalsAssumption ==
    /\ Quorum \in Nat \ {0} /\ MaxApprovers \in Nat
    /\ Lifetime \in Nat \ {0} /\ MaxTime \in Nat
    /\ Absent \notin Plans \cup NonceIds

VARIABLES
    clock,
    pending,   \* request -> the pending approval issued under it, or Absent
    records,   \* <<run, stage>> -> the decision recorded, or Absent
    used,      \* nonces consumed
    contexts,  \* token -> the AuthorityContext registered for it, or Absent
    call,      \* caller -> what its _approve has read so far, Absent when idle
    answers    \* the records callers were answered with

kernel == <<clock, pending, records, used, contexts, call, answers>>

(***************************************************************************)
(* Issue.                                                                  *)
(***************************************************************************)
Interrupt(stage, plan, simulation) == <<stage, plan, simulation>>

\* Slip: any approved simulation of the run will do.
ProgressedAnyPlan(run, plan) ==
    LET prior == records[<<run, "simulation">>]
    IN  prior # Absent /\ prior.decision = "approve"

\* The simulation record that a production request of this plan rests on.
Progressed(run, plan) ==
    LET prior == records[<<run, "simulation">>]
    IN  prior # Absent /\ prior.decision = "approve" /\ prior.request.plan = plan

\* issue_pending and the PendingApproval it constructs.
PendingApproval(r, run, stage, plan, n, issued) ==
    LET simulation == IF stage = "simulation" THEN Absent
                                              ELSE records[<<run, "simulation">>]
    IN  [request |-> r, run |-> run, stage |-> stage, plan |-> plan, nonce |-> n,
         interrupt |-> Interrupt(stage, plan, simulation),
         issued |-> issued, expires |-> issued + Lifetime,
         quorum |-> Quorum, simulation |-> simulation]

\* Slip: a request id may be issued again.
UnissuedNonce(r, n) == \A q \in Requests : pending[q] # Absent => pending[q].nonce # n

Unissued(r, n) ==
    /\ pending[r] = Absent
    /\ \A q \in Requests : pending[q] # Absent => pending[q].nonce # n

Issue(r, run, stage, plan, n) ==
    /\ Unissued(r, n)
    /\ stage = "production" => Progressed(run, plan)
    /\ \E issued \in {clock, clock + 1} :
          pending' = [pending EXCEPT ![r] = PendingApproval(r, run, stage, plan, n, issued)]
    /\ UNCHANGED <<clock, records, used, contexts, call, answers>>

AuthorityContext(t, p, k, valid) ==
    [actor |-> t, run |-> p.run, stage |-> p.stage, plan |-> p.plan,
     interrupt |-> p.interrupt, approvers |-> k, valid |-> valid]

\* The authority derives a context for an issued request, or derives it anew
\* when approvers joined or withdrew, or the artifact went away.
Register(t) ==
    /\ \E r \in Requests, k \in 0..MaxApprovers, valid \in BOOLEAN :
          /\ pending[r] # Absent
          /\ contexts' = [contexts EXCEPT ![t] = AuthorityContext(t, pending[r], k, valid)]
    /\ UNCHANGED <<clock, pending, records, used, call, answers>>

Tick == /\ clock < MaxTime /\ clock' = clock + 1
        /\ UNCHANGED <<pending, records, used, contexts, call, answers>>

-----------------------------------------------------------------------------
(***************************************************************************)
(* _approve, step by step.                                                 *)
(***************************************************************************)
\* DeterministicAdversarialEvaluator.evaluate.  Both passes read the same
\* immutable values under the lock, so the second repeats the first.
Evaluate(p, a, n, now, prior) ==
    /\ a.valid
    /\ a.stage = p.stage /\ a.run = p.run /\ a.plan = p.plan
    /\ a.interrupt = p.interrupt
    /\ a.approvers >= p.quorum
    /\ n = p.nonce
    /\ p.issued <= now /\ now < p.expires
    /\ p.stage = "production" =>
         /\ prior # Absent /\ prior.decision = "approve"
         /\ prior.request.plan = p.plan /\ prior = p.simulation

\* A submission names a request, a nonce and a decision, and comes with a
\* credential.  Each is chosen at the step that first looks at it.
Load(c) ==
    /\ call[c] = Absent
    /\ \E r \in Requests :
          /\ pending[r] # Absent
          /\ call' = [call EXCEPT ![c] = [step |-> "resolve", pending |-> pending[r],
                                         authority |-> Absent, now |-> 0]]
    /\ UNCHANGED <<clock, pending, records, used, contexts, answers>>

Rejected(c) == call' = [call EXCEPT ![c] = Absent]

Resolve(c) ==
    /\ call[c] # Absent /\ call[c].step = "resolve"
    /\ \E t \in Tokens :
          IF contexts[t] = Absent THEN Rejected(c)
          ELSE call' = [call EXCEPT ![c].step = "clock", ![c].authority = contexts[t]]
    /\ UNCHANGED <<clock, pending, records, used, contexts, answers>>

ReadClock(c) ==
    /\ call[c] # Absent /\ call[c].step = "clock"
    /\ call' = [call EXCEPT ![c].step = "record", ![c].now = clock]
    /\ UNCHANGED <<clock, pending, records, used, contexts, answers>>

ApprovalRecord(p, a, d, now) ==
    [request |-> p, actor |-> a.actor, decision |-> d, at |-> now]

\* Slip: a stage that is decided already may be decided by another request.
RecordableAgain(p, a, n, now) ==
    /\ pending[p.request] = p
    /\ n \notin used
    /\ Evaluate(p, a, n, now, records[<<p.run, "simulation">>])

\* The condition of compare_and_record.
Recordable(p, a, n, now) ==
    /\ pending[p.request] = p
    /\ n \notin used
    /\ records[<<p.run, p.stage>>] = Absent
    /\ Evaluate(p, a, n, now, records[<<p.run, "simulation">>])

CompareAndRecord(c, n, d) ==
    /\ call[c] # Absent /\ call[c].step = "record"
    /\ LET p == call[c].pending
           a == call[c].authority
           x == ApprovalRecord(p, a, d, call[c].now)
       IN  IF Recordable(p, a, n, call[c].now)
           THEN /\ records' = [records EXCEPT ![<<p.run, p.stage>>] = x]
                /\ used' = used \cup {n}
                /\ answers' = answers \cup {x}
           ELSE UNCHANGED <<records, used, answers>>
    /\ Rejected(c)
    /\ UNCHANGED <<clock, pending, contexts>>

-----------------------------------------------------------------------------
ApprovalInit ==
    /\ clock = 0 /\ used = {} /\ answers = {}
    /\ pending = [r \in Requests |-> Absent]
    /\ records = [k \in RunIds \X ApprovalStage |-> Absent]
    /\ contexts = [t \in Tokens |-> Absent]
    /\ call = [c \in Callers |-> Absent]

ApprovalNext ==
    \/ \E r \in Requests, run \in RunIds, s \in ApprovalStage, p \in Plans, n \in NonceIds :
          Issue(r, run, s, p, n)
    \/ \E t \in Tokens : Register(t)
    \/ \E c \in Callers : Load(c) \/ Resolve(c) \/ ReadClock(c)
    \/ \E c \in Callers, n \in NonceIds, d \in Decision : CompareAndRecord(c, n, d)
    \/ Tick

ApprovalSpec == ApprovalInit /\ [][ApprovalNext]_kernel

-----------------------------------------------------------------------------
\* PendingApproval and ApprovalRecord, first those of simulations, which the
\* pending approvals of productions refer to.
PendingOf(stage, simulations) ==
    [request : Requests, run : RunIds, stage : {stage}, plan : Plans, nonce : NonceIds,
     interrupt : {stage} \X Plans \X simulations, issued : Nat, expires : Nat,
     quorum : Nat, simulation : simulations]

RecordsOf(requests) ==
    [request : requests, actor : Tokens, decision : Decision, at : Nat]

Simulations == RecordsOf(PendingOf("simulation", {Absent}))

PendingApprovals == PendingOf("simulation", {Absent}) \cup PendingOf("production", Simulations)
ApprovalRecords  == RecordsOf(PendingApprovals)

\* Nothing issued or recorded looks like nothing.
ASSUME AbsentAssumption == Absent \notin PendingApprovals /\ Absent \notin ApprovalRecords

AuthorityContexts ==
    [actor : Tokens, run : RunIds, stage : ApprovalStage, plan : Plans,
     interrupt : ApprovalStage \X Plans \X (Simulations \cup {Absent}), approvers : Nat,
     valid : BOOLEAN]

Calls == [step : {"resolve", "clock", "record"}, pending : PendingApprovals,
          authority : AuthorityContexts \cup {Absent}, now : Nat]

\* Every variable stays in its domain.
ApprovalTypeOK ==
    /\ clock \in Nat /\ used \subseteq NonceIds /\ answers \subseteq ApprovalRecords
    /\ pending \in [Requests -> PendingApprovals \cup {Absent}]
    /\ records \in [RunIds \X ApprovalStage -> ApprovalRecords \cup {Absent}]
    /\ contexts \in [Tokens -> AuthorityContexts \cup {Absent}]
    /\ call \in [Callers -> Calls \cup {Absent}]

Closed == {k \in RunIds \X ApprovalStage : records[k] # Absent}

\* Production rests on simulation.  Every production request that is open, and
\* every production decision, approval or rejection, names the run's recorded
\* approval of the simulation of the same plan, and was decided no earlier:
\* whatever was read before the lock, the record it rests on is still there.
StagesInOrder ==
    LET simulated(p) ==
            LET prior == records[<<p.run, "simulation">>]
            IN  /\ prior # Absent /\ p.simulation = prior
                /\ prior.decision = "approve" /\ prior.request.plan = p.plan
    IN  /\ \A r \in Requests : pending[r] # Absent /\ pending[r].stage = "production"
              => simulated(pending[r])
        /\ \A run \in RunIds :
              LET x == records[<<run, "production">>]
              IN  x # Absent => /\ simulated(x.request)
                              /\ x.at >= records[<<run, "simulation">>].at

\* One decision per stage.  What a caller was answered is what the store holds,
\* so two callers are never told of two decisions for one stage; each decision
\* is on a request as it was issued, inside its window, and consumed the nonce
\* of that request and no other.
DecidedOnce ==
    /\ answers = {records[k] : k \in Closed}
    /\ \A k \in Closed :
          LET x == records[k] IN
          /\ <<x.request.run, x.request.stage>> = k
          /\ pending[x.request.request] = x.request
          /\ x.at \in x.request.issued .. x.request.expires - 1
    /\ used = {records[k].request.nonce : k \in Closed}
    /\ Cardinality(used) = Cardinality(Closed)

\* Records, spent nonces and issued requests are never changed or withdrawn.
DecisionsStand ==
    [][/\ \A k \in Closed : records'[k] = records[k]
       /\ used \subseteq used'
       /\ \A r \in Requests : pending[r] # Absent => pending'[r] = pending[r]]_kernel
=============================================================================
