------------------------------ MODULE CatalogGraph ------------------------------
(***************************************************************************)
(* The migration graph kernel (agent_runtime/graph): a run of the catalog- *)
(* first graph is one snapshot in a store with compare-and-set on its      *)
(* revision.  Every method of CatalogGraphKernel loads the snapshot,       *)
(* computes the next one and writes it if the revision has not moved.      *)
(*                                                                         *)
(* Drivers call run, again and again until the run settles; run commits    *)
(* after every node, so a driver may crash, or a callback raise, between   *)
(* any two commits, and several drivers may work on one run.  Clients ask  *)
(* for interrupts, answer them, report model calls and plan routes, and    *)
(* hand a complete plan over to the trust spine (m3_integration).          *)
(*                                                                         *)
(* A hash is the record of the material it hashes: an operation id is its  *)
(* node (with the event number where the code adds it), an interrupt id    *)
(* its kind, ordinal and subject, a checkpoint id its revision.  There is  *)
(* one tenant and one run id.  A call that is refused, or that replays a   *)
(* receipt, changes nothing and is no step.                                *)
(***************************************************************************)
EXTENDS Naturals, Sequences, FiniteSets

CONSTANTS
    Drivers,
    Bindings,      \* the plan digests a run may be bound to
    Order,         \* CatalogProbeKind, in graph order
    Answers,       \* per kind, the probes its callback may return
    PlanInputs,    \* the PlanRouteInputs clients report
    Subjects,      \* subject digests of approval interrupts
    Invocations,   \* ids of observed model calls
    Keys, Texts,   \* idempotency keys and texts of resume inputs
    MaxInterrupts, \* bound on the interrupts of a run
    Reliable,      \* the drivers whose processes stay up
    None

MaxRepairs == 3
Kinds == {Order[i] : i \in DOMAIN Order}

\* The nodes that may run again, besides those of the fan-out, the intent's
\* validation and the observed model calls.
GraphNodes == {"catalog_graph", "catalog_fanout", "catalog_join", "route_catalog",
               "route_plan", "request_input"}

ASSUME GraphAssumption ==
    /\ Order \in Seq(Kinds)
    /\ \A i, l \in DOMAIN Order : Order[i] = Order[l] => i = l
    /\ Kinds \cap (GraphNodes \cup {"validate_intent", "agent"}) = {}
    /\ DOMAIN Answers = Kinds
    /\ MaxInterrupts \in Nat /\ Reliable \subseteq Drivers
    /\ None \notin Bindings \cup Subjects

VARIABLES
    store,    \* the snapshot of the run, None before it is started
    job,      \* per driver, the snapshot it works on, None when idle
    seen,     \* the interrupts clients have been told of
    handoff   \* the ReadyFrozenPlan given to the trust spine

vars == <<store, job, seen, handoff>>

(***************************************************************************)
(* GraphSnapshot.                                                          *)
(***************************************************************************)
Resumable == {"new", "validated", "probed", "joined", "planning"}

Terminal(s) == \/ s.status \in {"succeeded", "failed"}
               \/ s.phase \in {"routed", "complete", "failed"}

Mutable(s) == ~Terminal(s) /\ s.phase # "paused"

Checkpointable(s) == s.status = "running" /\ s.phase \in Resumable

Snapshot(b, p) ==
    [binding |-> b, rev |-> 0, phase |-> p, status |-> "running", probes |-> <<>>,
     route |-> None, repairs |-> 0, pending |-> None, from |-> None,
     receipts |-> <<>>, calls |-> {}, events |-> <<>>]

Revision == IF store = None THEN None ELSE store.rev

Event(type, node, op, detail) ==
    [type |-> type, node |-> node, op |-> op, detail |-> detail]

\* _operation: stable for a node, numbered where a node may run again.
Numbered(s, node) == <<node, Len(s.events) + 1>>

Committed(s, type, node, op, detail) ==
    [s EXCEPT !.rev = @ + 1, !.events = Append(@, Event(type, node, op, detail))]

Count(s, type) == Cardinality({i \in DOMAIN s.events : s.events[i].type = type})

(***************************************************************************)
(* Routes.                                                                 *)
(***************************************************************************)
Probes(s) == {s.probes[k] : k \in DOMAIN s.probes}

RouteCatalog(s) ==
    IF DOMAIN s.probes # Kinds \/ \E p \in Probes(s) : ~p.trustworthy THEN "FAIL_CLOSED"
    ELSE IF \E p \in Probes(s) : p.missing                 THEN "NEEDS_INPUT"
    ELSE IF Cardinality({p.migrate : p \in Probes(s)}) # 1 THEN "FAIL_CLOSED"
    ELSE IF \E p \in Probes(s) : p.candidates > 0          THEN "EXISTING_ASSET"
    ELSE IF \A p \in Probes(s) : p.migrate                 THEN "MIGRATE"
    ELSE "FAIL_CLOSED"

RoutePlan(v, repairs) ==
    IF ~v.trustworthy \/ Cardinality(v.flags) # 1 THEN "FAIL_CLOSED"
    ELSE IF v.flags = {"needs_research"} /\ repairs < MaxRepairs THEN "NEEDS_RESEARCH"
    ELSE IF v.flags = {"needs_input"}             THEN "NEEDS_INPUT"
    ELSE IF v.flags = {"ready"}                   THEN "READY"
    ELSE "REJECTED"

(***************************************************************************)
(* Pause, resume and failure, as functions of the loaded snapshot.         *)
(***************************************************************************)
InterruptId(s, kind, subject) ==
    [kind |-> kind, ordinal |-> 1 + Count(s, "interrupt_requested"), subject |-> subject]

\* An InterruptRequest names the checkpoint it interrupts.
InterruptRequest(s, id) == [id |-> id, checkpoint |-> s.rev]

Paused(s, kind, subject, routed) ==
    LET id == InterruptId(s, kind, subject)
        n  == Len(s.events)
        at == n + Len(routed) + 1
    IN  [s EXCEPT !.rev = @ + 1, !.phase = "paused", !.from = s.phase,
                  !.status = IF kind = "clarification" THEN "awaiting_input"
                                                       ELSE "awaiting_approval",
                  !.pending = InterruptRequest(s, id),
                  !.events = @ \o [i \in DOMAIN routed |->
                                     Event("route_selected", routed[i], <<routed[i], n + i>>,
                                           "NEEDS_INPUT")]
                               \o << Event("interrupt_requested", "request_input",
                                           <<"request_input", at>>, id) >>]

Failed(s, code) ==
    Committed([s EXCEPT !.phase = "failed", !.status = "failed", !.route = "FAIL_CLOSED"],
              "graph_failed", "catalog_graph", Numbered(s, "catalog_graph"), code)

Receipt(v) == <<v.id, v.checkpoint, v.key>>

\* consumed_idempotency_keys, which are the keys of resume_digests.
Consumed(s) == {s.receipts[i].key : i \in DOMAIN s.receipts}

\* Whether resume takes the input v for the snapshot s: it is no replay, the run
\* waits for this clarification, and the pause is the snapshot's last revision.
Answerable(s, v) ==
    /\ Receipt(v) \notin Consumed(s)
    /\ ~Terminal(s) /\ s.pending # None
    /\ s.pending.id.kind = "clarification"
    /\ v.id = s.pending.id /\ v.checkpoint = s.pending.checkpoint
    /\ s.pending.checkpoint + 1 = s.rev
    /\ s.from \in Resumable

\* Slip: the receipt of a resume is not kept.
ResumedForgetful(s, v) ==
    Committed([s EXCEPT !.phase = s.from, !.status = "running", !.pending = None,
                        !.from = None],
              "interrupt_resumed", "request_input", Numbered(s, "request_input"),
              s.pending.id)

Resumed(s, v) ==
    Committed([s EXCEPT !.phase = s.from, !.status = "running", !.pending = None,
                        !.from = None,
                        !.receipts = Append(@, [key |-> Receipt(v), text |-> v.text])],
              "interrupt_resumed", "request_input", Numbered(s, "request_input"),
              s.pending.id)

-----------------------------------------------------------------------------
(***************************************************************************)
(* compare_and_set: the write of driver d takes effect if the revision is  *)
(* still the one d loaded; else run ends with a conflict.  A driver goes   *)
(* on with the snapshot it wrote until its run settles.                    *)
(***************************************************************************)
\* Slip: only the creation of a run is compared.
StaleStart(d) == job[d].expect = None /\ store # None

Stale(d) == job[d].expect # Revision

Continued(j, s) ==
    IF Mutable(s) THEN [j EXCEPT !.state = s, !.expect = s.rev] ELSE None

Write(d, j, s) ==
    /\ ~Stale(d)
    /\ store' = s
    /\ job' = [job EXCEPT ![d] = Continued(j, s)]
    /\ seen' = IF s.pending = None THEN seen ELSE seen \cup {s.pending}
    /\ UNCHANGED handoff

Conflict(d) ==
    /\ job[d] # None /\ Stale(d) /\ job' = [job EXCEPT ![d] = None]
    /\ UNCHANGED <<store, seen, handoff>>

(***************************************************************************)
(* run, one action per commit.                                             *)
(***************************************************************************)
Run(d, b) ==
    LET s == IF store = None THEN Snapshot(b, "new") ELSE store
    IN  /\ job[d] = None
        /\ s.binding = b /\ Mutable(s) /\ s.phase # "planning"
        /\ job' = [job EXCEPT ![d] = [state |-> s, expect |-> Revision, found |-> None]]
        /\ UNCHANGED <<store, seen, handoff>>

At(d, phase) ==
    job[d] # None /\ job[d].expect # None /\ job[d].state.phase = phase

Start(d) ==
    /\ job[d] # None /\ job[d].expect = None
    /\ LET s == job[d].state
       IN  Write(d, job[d], Committed(s, "run_started", "catalog_graph",
                                      Numbered(s, "catalog_graph"), None))

ValidateIntent(d) ==
    /\ At(d, "new")
    /\ LET s == [job[d].state EXCEPT !.phase = "validated"]
       IN  Write(d, job[d], Committed(s, "node_succeeded", "validate_intent",
                                      <<"validate_intent">>, None))

\* The callbacks of the fan-out that have not been committed yet.
Pending(s) == Kinds \ DOMAIN s.probes

First(kinds) == CHOOSE k \in kinds : \A i, l \in DOMAIN Order :
                    Order[l] = k /\ Order[i] \in kinds => l <= i

\* Slip: the fan-out is not taken up again when some of it is committed.
GatherFresh(d) ==
    /\ At(d, "validated") /\ job[d].found = None /\ job[d].state.probes = <<>>
    /\ \E found \in [Kinds -> UNION {Answers[k] : k \in Kinds}] :
          /\ \A k \in Kinds : found[k] \in Answers[k]
          /\ job' = [job EXCEPT ![d].found = found]
    /\ UNCHANGED <<store, seen, handoff>>

\* The task group: every pending callback has answered.  One that raises
\* cancels the others and ends run with nothing committed (Crash).
Gather(d) ==
    /\ At(d, "validated") /\ job[d].found = None
    /\ \E found \in [Pending(job[d].state) -> UNION {Answers[k] : k \in Kinds}] :
          /\ \A k \in DOMAIN found : found[k] \in Answers[k]
          /\ job' = [job EXCEPT ![d].found = found]
    /\ UNCHANGED <<store, seen, handoff>>

\* Answers are committed one by one, in graph order.
CommitProbe(d) ==
    /\ At(d, "validated") /\ job[d].found # None /\ Pending(job[d].state) # {}
    /\ LET s == job[d].state
           k == First(Pending(s))
           p == job[d].found[k]
           n == [s EXCEPT !.probes = [l \in DOMAIN s.probes \cup {k} |->
                                         IF l = k THEN p ELSE s.probes[l]]]
       IN  Write(d, job[d],
                 IF p.kind # k THEN Failed(s, "catalog_probe_kind_mismatch")
                 ELSE Committed(n, "node_succeeded", k, <<k>>, None))

CloseFanout(d) ==
    /\ At(d, "validated") /\ job[d].found # None /\ Pending(job[d].state) = {}
    /\ LET s == [job[d].state EXCEPT !.phase = "probed"]
       IN  Write(d, [job[d] EXCEPT !.found = None],
                 Committed(s, "fanout_completed", "catalog_fanout",
                           Numbered(s, "catalog_fanout"), None))

Join(d) ==
    /\ At(d, "probed")
    /\ LET s == job[d].state
       IN  Write(d, job[d],
                 IF Pending(s) # {} THEN Failed(s, "catalog_join_incomplete")
                 ELSE Committed([s EXCEPT !.phase = "joined"], "join_completed",
                                "catalog_join", Numbered(s, "catalog_join"), None))

Route(d) ==
    /\ At(d, "joined")
    /\ LET r == RouteCatalog(job[d].state)
           s == [job[d].state EXCEPT !.route = r]
           op == Numbered(s, "route_catalog")
       IN  Write(d, job[d],
              CASE r = "NEEDS_INPUT" -> Paused(s, "clarification", None, <<"route_catalog">>)
                [] r = "FAIL_CLOSED" ->
                     Committed([s EXCEPT !.phase = "failed", !.status = "failed"],
                               "route_failed_closed", "route_catalog", op, r)
                [] OTHER ->
                     Committed([s EXCEPT !.phase = "routed", !.status = "succeeded"],
                               "route_selected", "route_catalog", op, r))

RunStep(d) == \/ Start(d) \/ ValidateIntent(d) \/ Gather(d) \/ CommitProbe(d)
              \/ CloseFanout(d) \/ Join(d) \/ Route(d)

\* The driver's process dies, a callback raises, or after_commit does.
Crash(d) ==
    /\ d \notin Reliable /\ job[d] # None /\ job' = [job EXCEPT ![d] = None]
    /\ UNCHANGED <<store, seen, handoff>>

(***************************************************************************)
(* The other methods load once (_require_state) and write once.  Between   *)
(* the two the revision may move; the method then raises and has changed   *)
(* nothing, so a call that takes effect is one step.                       *)
(***************************************************************************)
Replace(s) ==
    /\ store' = s
    /\ seen' = IF s.pending = None THEN seen ELSE seen \cup {s.pending}
    /\ UNCHANGED <<job, handoff>>

RequestInterrupt ==
    /\ store # None /\ Mutable(store) /\ Checkpointable(store)
    /\ Count(store, "interrupt_requested") < MaxInterrupts
    /\ \/ Replace(Paused(store, "clarification", None, <<>>))
       \/ \E k \in {"simulation_approval", "production_approval"}, x \in Subjects :
             Replace(Paused(store, k, x, <<>>))

PlanRouted(s, r) ==
    LET op == Numbered(s, "route_plan")
    IN  CASE r = "NEEDS_INPUT" -> Paused(s, "clarification", None, <<"route_plan">>)
          [] r = "NEEDS_RESEARCH" ->
               Committed([s EXCEPT !.repairs = @ + 1], "route_selected", "route_plan", op, r)
          [] r = "READY" ->
               Committed([s EXCEPT !.phase = "complete", !.status = "succeeded"],
                         "route_selected", "route_plan", op, r)
          [] OTHER ->
               Committed([s EXCEPT !.phase = "failed", !.status = "failed"],
                         "route_failed_closed", "route_plan", op, r)

ApplyPlanRoute ==
    /\ store # None /\ Mutable(store) /\ store.phase = "planning"
    /\ \E v \in PlanInputs : Replace(PlanRouted(store, RoutePlan(v, store.repairs)))

RecordModelCall ==
    /\ store # None /\ Mutable(store)
    /\ \E i \in Invocations \ store.calls :
          Replace(Committed([store EXCEPT !.calls = @ \cup {i}],
                            "model_call_observed", "agent", <<"agent", i>>, i))

\* A resume input may be delivered late, twice, or for an interrupt that has
\* been answered already.
ResumeInputs ==
    {[id |-> i.id, checkpoint |-> i.checkpoint, key |-> k, text |-> t] :
        i \in seen, k \in Keys, t \in Texts}

Resume ==
    /\ store # None
    /\ \E v \in ResumeInputs :
          /\ v.id.ordinal < MaxInterrupts
          /\ Answerable(store, v)
          /\ Replace(Resumed(store, v))

\* ReadyFrozenPlan.from_snapshot, and TrustSpineCoordinator.execute given it.
Handoff ==
    /\ handoff = None /\ store # None
    /\ store.phase = "complete" /\ store.status = "succeeded"
    /\ store.pending = None /\ ~Checkpointable(store) /\ store.events # <<>>
    /\ handoff' = [plan |-> store.binding, revision |-> store.rev, journal |-> store.events]
    /\ UNCHANGED <<store, job, seen>>

-----------------------------------------------------------------------------
\* Nothing in the kernel enters the planning phase: whoever plans stores a
\* snapshot in that phase.
Init ==
    /\ store \in {None} \cup {Snapshot(b, "planning") : b \in Bindings}
    /\ job = [d \in Drivers |-> None]
    /\ seen = {} /\ handoff = None

Drive(d) == (\E b \in Bindings : Run(d, b)) \/ RunStep(d) \/ Conflict(d)

Next == \/ \E d \in Drivers : Drive(d) \/ Crash(d)
        \/ RequestInterrupt \/ ApplyPlanRoute \/ RecordModelCall \/ Resume
        \/ Handoff

Spec == Init /\ [][Next]_vars /\ \A d \in Reliable : WF_vars(Drive(d))

-----------------------------------------------------------------------------
ProbeValues == UNION {Answers[k] : k \in Kinds}
ProbeMaps   == UNION {[K -> ProbeValues] : K \in SUBSET Kinds}

InterruptIds ==
    [kind : {"clarification", "simulation_approval", "production_approval"},
     ordinal : Nat, subject : Subjects \cup {None}]

InterruptRequests == [id : InterruptIds, checkpoint : Nat]

Operations == (GraphNodes \X Nat) \cup {<<n>> : n \in Kinds \cup {"validate_intent"}}
                \cup ({"agent"} \X Invocations)

Routes == {"FAIL_CLOSED", "NEEDS_INPUT", "EXISTING_ASSET", "MIGRATE", "NEEDS_RESEARCH",
           "READY", "REJECTED"}

Details == {None, "catalog_probe_kind_mismatch", "catalog_join_incomplete"} \cup Routes
             \cup InterruptIds \cup Invocations

Events ==
    [type   : {"run_started", "node_succeeded", "fanout_completed", "join_completed",
               "route_selected", "route_failed_closed", "graph_failed",
               "interrupt_requested", "interrupt_resumed", "model_call_observed"},
     node   : GraphNodes \cup Kinds \cup {"validate_intent", "agent"},
     op     : Operations,
     detail : Details]

Snapshots ==
    [binding : Bindings, rev : Nat,
     phase : Resumable \cup {"paused", "routed", "complete", "failed"},
     status : {"running", "awaiting_input", "awaiting_approval", "succeeded", "failed"},
     probes : ProbeMaps, route : Routes \cup {None}, repairs : Nat,
     pending : InterruptRequests \cup {None}, from : Resumable \cup {None},
     receipts : Seq([key : InterruptIds \X Nat \X Keys, text : Texts]),
     calls : SUBSET Invocations, events : Seq(Events)]

\* Absence is told from every snapshot, revision, interrupt and phase.
ASSUME NoneAssumption ==
    /\ None \notin Snapshots /\ None \notin Nat
    /\ None \notin InterruptRequests /\ None \notin Resumable

\* What GraphSnapshot.__post_init__ demands of every snapshot: no process ever
\* holds or stores one that the constructor would refuse.
Sound(s) ==
    /\ s.repairs \in 0..MaxRepairs /\ s.rev \in Nat
    /\ DOMAIN s.probes \subseteq Kinds
    /\ \A k \in DOMAIN s.probes : s.probes[k] \in ProbeValues /\ s.probes[k].kind = k
    /\ (s.pending = None) = (s.from = None)
    /\ (s.phase = "paused") = (s.pending # None)
    /\ s.status = IF s.phase \in Resumable THEN "running"
                  ELSE IF s.phase \in {"routed", "complete"} THEN "succeeded"
                  ELSE IF s.phase = "failed" THEN "failed"
                  ELSE IF s.pending.id.kind = "clarification" THEN "awaiting_input"
                  ELSE "awaiting_approval"
    /\ \A i, l \in DOMAIN s.events : s.events[i].op = s.events[l].op => i = l
    /\ \A i, l \in DOMAIN s.receipts : s.receipts[i].key = s.receipts[l].key => i = l

\* Type invariant.  Every snapshot, stored or held by a process, is one the
\* code's constructor accepts, and no operation id is journaled twice, however
\* often its node was retried.
TypeOK ==
    /\ store = None \/ Sound(store)
    /\ \A d \in Drivers : job[d] # None => Sound(job[d].state)

\* The phase of a run, looking through a pause.
Stage(s) == IF s.phase = "paused" THEN s.from ELSE s.phase

Journaled(s, node) == \E i \in DOMAIN s.events : s.events[i].node = node

Resumptions(s) == {i \in DOMAIN s.events : s.events[i].type = "interrupt_resumed"}

Planned(s) == Stage(s) = "planning" \/ Journaled(s, "route_plan")

\* A run's journal tells its snapshot.  A node is journaled exactly when the
\* snapshot is past it, the committed probes are the journaled ones, a pause is
\* open exactly when one interrupt more was requested than resumed, every
\* answer that resumed the run left one receipt, and the journal that was
\* handed to the trust spine is still the run's.
JournalTells ==
    /\ store # None /\ ~Planned(store) =>
         LET s == store IN
         /\ Journaled(s, "validate_intent") = (Stage(s) # "new")
         /\ Stage(s) = "validated" => ~Journaled(s, "catalog_fanout")
         /\ Stage(s) \in {"probed", "joined", "routed"} => DOMAIN s.probes = Kinds
         /\ Stage(s) \in {"joined", "routed"} => Journaled(s, "catalog_join")
         /\ DOMAIN s.probes = {k \in Kinds : Journaled(s, k)}
    /\ store # None =>
         /\ Count(store, "interrupt_requested") =
              Count(store, "interrupt_resumed") + (IF store.pending = None THEN 0 ELSE 1)
         /\ Len(store.receipts) = Count(store, "interrupt_resumed")
         /\ \A i, l \in Resumptions(store) :
               store.events[i].detail = store.events[l].detail => i = l
    /\ handoff # None => store.phase = "complete" /\ store.events = handoff.journal

\* Well-formed snapshots whose journal tells them.
JournalSound == TypeOK /\ JournalTells

\* The kernel implements CatalogFlow: seen through its store, a run driven by
\* several crashing processes is one sequential walk of the graph.
Flow == INSTANCE CatalogFlow WITH
            phase   <- IF store = None THEN "absent" ELSE store.phase,
            learned <- IF store = None THEN 0 ELSE Cardinality(DOMAIN store.probes),
            held    <- IF store = None \/ store.from = None THEN "none" ELSE store.from,
            repairs <- IF store = None THEN 0 ELSE store.repairs

FlowSpec == Flow!Spec

\* A run that drivers keep calling settles: it ends, pauses, or waits for its
\* plan, whatever other processes write to the same snapshot.
RunSettles ==
    store # None ~> store # None /\ (~Mutable(store) \/ store.phase = "planning")

=============================================================================
