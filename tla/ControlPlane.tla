----------------------------- MODULE ControlPlane -----------------------------
(***************************************************************************)
(* The portfolio control plane of the Go backend (studio-backend/          *)
(* control_plane.go) behind its HTTP API and the orchestrator bridge: one  *)
(* snapshot of all runs, decisions and events, changed by one command at a *)
(* time under the store's mutex, validated, written whole, and only then   *)
(* made visible.                                                           *)
(*                                                                         *)
(* The snapshot lives in a local file or, hosted, in a Firestore object    *)
(* whose head is swapped on its revision.  Several instances may serve a   *)
(* hosted object (an old and a new deployment overlap); each works on the  *)
(* snapshot it loaded or last wrote.  A write may fail after it took       *)
(* effect: a hosted commit whose answer is lost, a rename whose directory  *)
(* could not be synced.  A command that is refused, or whose write fails   *)
(* without effect, changes nothing and is no step here.                    *)
(*                                                                         *)
(* The portfolio digest is the function of plan digests it hashes.  Time   *)
(* stamps are left out: an event's is never before its predecessor's.  An  *)
(* event's random id is its place in the log, marked with the power losses *)
(* before it, so that no two events ever share one; a decision's likewise. *)
(* The three record counters obey one rule, so one of them is kept.        *)
(* Evidence references, actors and reasons are stored and never read back. *)
(***************************************************************************)
EXTENDS Naturals, Sequences, FiniteSets, SequencesExt

CONSTANTS
    Instances, RunIds, Names, Digests, FailureCodes,
    Canonical,    \* cpCanonicalSources, in their order
    Counts,       \* the record counts an orchestrator reports
    EventLimit,   \* cpMaxEventsPerRun
    PageLimit,    \* cpMaxSSEReplay
    MaxLog,       \* bound on the events of a snapshot
    MaxFaults,    \* bound on writes that fail after they took effect
    MaxLosses,    \* bound on power losses
    None

Sources == {Canonical[k] : k \in DOMAIN Canonical}

ASSUME ControlPlaneAssumption ==
    /\ Canonical \in Seq(Sources) /\ Canonical # <<>>
    /\ \A j, k \in DOMAIN Canonical : Canonical[j] = Canonical[k] => j = k
    /\ Counts \subseteq Nat /\ PageLimit \in Nat \ {0}
    /\ EventLimit \in Nat /\ EventLimit >= 7 * Len(Canonical) + 4
    /\ MaxLog \in Nat /\ MaxFaults \in Nat /\ MaxLosses \in Nat
    /\ None \notin Sources \cup Digests \cup FailureCodes \cup Counts

VARIABLES
    hosted,  \* whether the snapshot is a Firestore object or a local file
    head,    \* the stored snapshot and its revision, None before the first start
    safe,    \* the snapshot that a power loss cannot undo
    memory,  \* per instance, the snapshot it serves, None while it is down
    revision,\* per instance, the revision it read or wrote last
    acked,   \* the snapshot of the last command that was answered with success
    refused, \* whether validation ever refused the result of a command
    faults, losses

vars == <<hosted, head, safe, memory, revision, acked, refused, faults, losses>>

Progress == <<"created", "inventorying", "redacting", "planning", "awaiting_approval",
              "approved", "executing", "verifying", "completed">>

Rank(state) == CHOOSE k \in DOMAIN Progress : Progress[k] = state

Ended == {"completed", "failed", "cancelled"}

States == {Progress[k] : k \in DOMAIN Progress} \cup Ended

\* Slip: execution starts at the gate, not behind it.
AdvanceStepsUngated ==
    [inventorying |-> [from |-> "created",      type |-> "source.inventory.started"],
     redacting    |-> [from |-> "inventorying", type |-> "source.inventory.completed"],
     planning     |-> [from |-> "redacting",    type |-> "source.redaction.completed"],
     executing    |-> [from |-> "awaiting_approval", type |-> "source.execution.started"],
     verifying    |-> [from |-> "executing",    type |-> "source.execution.completed"],
     completed    |-> [from |-> "verifying",    type |-> "source.verification.completed"]]

AdvanceSteps ==
    [inventorying |-> [from |-> "created",      type |-> "source.inventory.started"],
     redacting    |-> [from |-> "inventorying", type |-> "source.inventory.completed"],
     planning     |-> [from |-> "redacting",    type |-> "source.redaction.completed"],
     executing    |-> [from |-> "approved",     type |-> "source.execution.started"],
     verifying    |-> [from |-> "executing",    type |-> "source.execution.completed"],
     completed    |-> [from |-> "verifying",    type |-> "source.verification.completed"]]

SourceEvents == {AdvanceSteps[to].type : to \in DOMAIN AdvanceSteps}
                  \cup {"source.plan.ready", "source.failed"}

PortfolioEvents ==
    {"migration.created", "portfolio.awaiting_approval", "portfolio.approved",
     "portfolio.rejected", "migration.completed", "migration.failed", "migration.cancelled"}

DeriveRunState(sources) ==
    LET states == {sources[s].state : s \in Sources}
    IN  IF "failed" \in states THEN "failed"
        ELSE IF "cancelled" \in states THEN "cancelled"
        ELSE CHOOSE st \in states : \A o \in states : Rank(st) <= Rank(o)

PortfolioPlanDigest(sources) == [s \in Sources |-> sources[s].plan]

EmptySnapshot == [runs |-> [r \in RunIds |-> None], approvals |-> {}, events |-> <<>>]

NewRun(name) ==
    [name |-> name, state |-> "created", plan |-> None, failure |-> None, approval |-> None,
     sources |-> [s \in Sources |->
                    [state |-> "created", plan |-> None, failure |-> None, records |-> 0]]]

\* The places of run r's events in the log.
RunEvents(snap, r) == {k \in DOMAIN snap.events : snap.events[k].run = r}

Live(snap, r) == snap.runs[r] # None /\ snap.runs[r].state \notin Ended
-----------------------------------------------------------------------------
(* cpValidateSnapshot: what every stored snapshot must satisfy.            *)

ValidRun(run) ==
    /\ (run.state = "failed") <=> (run.failure # None)
    /\ \A s \in Sources :
          (run.sources[s].state = "failed") <=> (run.sources[s].failure # None)
    /\ run.state = DeriveRunState(run.sources)
    /\ run.plan # None =>
         /\ \A s \in Sources : run.sources[s].plan # None
         /\ run.plan = PortfolioPlanDigest(run.sources)
    /\ run.state \notin {"failed", "cancelled"}
         /\ Rank(run.state) >= Rank("awaiting_approval") => run.plan # None

ValidApprovals(snap) ==
    /\ \A a \in snap.approvals :
         /\ \A b \in snap.approvals : a.id = b.id \/ a.run = b.run => a = b
         /\ snap.runs[a.run] # None
         /\ snap.runs[a.run].approval = a.id /\ snap.runs[a.run].plan = a.plan
         /\ a.resulting = IF a.decision = "approve" THEN "approved" ELSE "cancelled"
    /\ \A r \in RunIds :
         snap.runs[r] # None /\ snap.runs[r].approval # None =>
           \E a \in snap.approvals : a.run = r /\ a.id = snap.runs[r].approval

ValidEvents(snap) ==
    /\ \A i, j \in DOMAIN snap.events : snap.events[i].id = snap.events[j].id => i = j
    /\ \A k \in DOMAIN snap.events :
         /\ snap.runs[snap.events[k].run] # None
         /\ snap.events[k].source = None <=> snap.events[k].type \notin SourceEvents
    /\ \A r \in RunIds : snap.runs[r] # None =>
         /\ Cardinality(RunEvents(snap, r)) <= EventLimit
         /\ \E k \in RunEvents(snap, r) :
              /\ snap.events[k].type = "migration.created"
              /\ \A j \in RunEvents(snap, r) : k <= j

ValidSnapshot(snap) ==
    /\ \A r \in RunIds : snap.runs[r] # None => ValidRun(snap.runs[r])
    /\ ValidApprovals(snap) /\ ValidEvents(snap)
-----------------------------------------------------------------------------
(* Opening, writing and losing the snapshot.                               *)

\* cpOpenStore, cpOpenHostedStore: load what is stored, or store the empty
\* snapshot first.  One process owns a local file.
Open(i) ==
    /\ memory[i] = None
    /\ ~hosted => \A j \in Instances : memory[j] = None
    /\ \/ /\ head = None
          /\ head' = [snap |-> EmptySnapshot, revision |-> 1] /\ safe' = EmptySnapshot
       \/ head # None /\ ValidSnapshot(head.snap) /\ UNCHANGED <<head, safe>>
    /\ memory' = [memory EXCEPT ![i] = head'.snap]
    /\ revision' = [revision EXCEPT ![i] = head'.revision]
    /\ UNCHANGED <<hosted, acked, refused, faults, losses>>

\* Slip: a swap that does not compare the revision.
AlwaysCurrent(i) == TRUE

\* The revision a swap compares: a local file has one writer.
Current(i) == ~hosted \/ revision[i] = head.revision

\* A hosted revision is drawn at random, for no two heads the same.
Stored(next) ==
    [snap |-> next, revision |-> IF hosted THEN head.revision + 1 ELSE head.revision]

\* Slip: the command is answered before the directory is synced.
WrittenUnsynced(i, next) ==
    /\ Current(i)
    /\ head' = Stored(next)
    /\ safe' = IF hosted THEN next ELSE safe
    /\ memory' = [memory EXCEPT ![i] = next]
    /\ revision' = [revision EXCEPT ![i] = head'.revision]
    /\ acked' = next
    /\ UNCHANGED faults

\* The write took effect and the command is answered.
Written(i, next) ==
    /\ Current(i)
    /\ head' = Stored(next) /\ safe' = next
    /\ memory' = [memory EXCEPT ![i] = next]
    /\ revision' = [revision EXCEPT ![i] = head'.revision]
    /\ acked' = next
    /\ UNCHANGED faults

\* The swap took effect but its answer was lost: the instance goes on with the
\* old snapshot and the old revision.
Unheard(i, next) ==
    /\ hosted /\ Current(i) /\ faults < MaxFaults
    /\ head' = Stored(next) /\ safe' = next
    /\ faults' = faults + 1
    /\ UNCHANGED <<memory, revision, acked>>

\* The file was renamed but its directory could not be opened or synced: the
\* new snapshot is served although the command is answered with an error.
Unsynced(i, next) ==
    /\ ~hosted /\ faults < MaxFaults
    /\ head' = Stored(next)
    /\ memory' = [memory EXCEPT ![i] = next]
    /\ revision' = [revision EXCEPT ![i] = head'.revision]
    /\ faults' = faults + 1
    /\ UNCHANGED <<safe, acked>>

\* commit: a result that does not validate is refused and changes nothing.
Commit(i, next) ==
    /\ Len(next.events) <= MaxLog
    /\ refused' = (refused \/ ~ValidSnapshot(next))
    /\ IF ValidSnapshot(next)
         THEN Written(i, next) \/ Unheard(i, next) \/ Unsynced(i, next)
         ELSE UNCHANGED <<head, safe, memory, revision, acked, faults>>
    /\ UNCHANGED <<hosted, losses>>

\* The process ends; what it stored stays.
Stop(i) ==
    /\ memory[i] # None
    /\ memory' = [memory EXCEPT ![i] = None]
    /\ UNCHANGED <<hosted, head, safe, revision, acked, refused, faults, losses>>

\* The machine loses power: a rename whose directory was not synced may be undone.
PowerLoss ==
    /\ ~hosted /\ head # None /\ losses < MaxLosses
    /\ losses' = losses + 1
    /\ \/ head' = [head EXCEPT !.snap = safe] /\ UNCHANGED safe
       \/ safe' = head.snap /\ UNCHANGED head
    /\ memory' = [i \in Instances |-> None]
    /\ UNCHANGED <<hosted, revision, acked, refused, faults>>
-----------------------------------------------------------------------------
(* The commands, each on the snapshot its instance serves.                 *)

Event(r, source, type) == [run |-> r, source |-> source, type |-> type]

\* Slip: the events carry the state the command found.
LogBefore(snap, run, new) ==
    snap.events \o [k \in DOMAIN new |->
        [id |-> <<Len(snap.events) + k, losses>>, run |-> new[k].run,
         source |-> new[k].source, type |-> new[k].type,
         state |-> IF snap.events = <<>> THEN "created" ELSE Last(snap.events).state]]

\* appendEvent, for the events of one command in their order.
Log(snap, run, new) ==
    snap.events \o [k \in DOMAIN new |->
        [id |-> <<Len(snap.events) + k, losses>>, run |-> new[k].run,
         source |-> new[k].source, type |-> new[k].type, state |-> run.state]]

\* The snapshot with run r and the log as a command leaves them.
Changed(snap, r, run, new) ==
    [snap EXCEPT !.runs[r] = run, !.events = Log(snap, run, new)]

CreateRun(i, r, name) ==
    LET snap == memory[i]
        run == NewRun(name)
    IN  /\ snap # None
        /\ snap.runs[r] = None
        /\ \A q \in RunIds : Live(snap, q) => snap.runs[q].name # name
        /\ Commit(i, Changed(snap, r, run, <<Event(r, None, "migration.created")>>))

\* cpApplyCounters: a reported count never falls; it may be absent.
CountAccepted(source, count) == count # None => count >= source.records

Advanced(source, to, count) ==
    [source EXCEPT !.state = to, !.records = IF count = None THEN @ ELSE count]

AdvanceSource(i, r, s, to, count) ==
    LET snap == memory[i]
        step == AdvanceSteps[to]
        sources == [snap.runs[r].sources EXCEPT ![s] = Advanced(@, to, count)]
        run == [snap.runs[r] EXCEPT !.sources = sources, !.state = DeriveRunState(sources)]
    IN  /\ snap # None
        /\ Live(snap, r)
        /\ snap.runs[r].sources[s].state = step.from
        /\ CountAccepted(snap.runs[r].sources[s], count)
        /\ Commit(i, Changed(snap, r, run,
               <<Event(r, s, step.type)>> \o
                 IF run.state = "completed" THEN <<Event(r, None, "migration.completed")>>
                                            ELSE <<>>))

Plannable(source) == source.state = "planning" /\ source.plan = None

AttachSourcePlan(i, r, s, digest) ==
    LET snap == memory[i]
        run == [snap.runs[r] EXCEPT !.sources[s].plan = digest]
    IN  /\ snap # None
        /\ Live(snap, r)
        /\ Plannable(snap.runs[r].sources[s])
        /\ Commit(i, Changed(snap, r, run, <<>>))

\* Slip: the gate opens without the digest of what is to be approved.
GatedUnbound(run) ==
    LET sources == [s \in Sources |->
                      [run.sources[s] EXCEPT !.state = "awaiting_approval"]]
    IN  [run EXCEPT !.sources = sources, !.state = DeriveRunState(sources)]

\* The run at its approval gate, bound to the digest of its plans.
Gated(run) ==
    LET sources == [s \in Sources |->
                      [run.sources[s] EXCEPT !.state = "awaiting_approval"]]
    IN  [run EXCEPT !.sources = sources, !.state = DeriveRunState(sources),
                    !.plan = PortfolioPlanDigest(sources)]

EnterAwaitingApproval(i, r) ==
    LET snap == memory[i]
    IN  /\ snap # None
        /\ Live(snap, r)
        /\ \A s \in Sources : /\ snap.runs[r].sources[s].state = "planning"
                              /\ snap.runs[r].sources[s].plan # None
        /\ Commit(i, Changed(snap, r, Gated(snap.runs[r]),
               [k \in DOMAIN Canonical |-> Event(r, Canonical[k], "source.plan.ready")]
                 \o <<Event(r, None, "portfolio.awaiting_approval")>>))

FailSource(i, r, s, code) ==
    LET snap == memory[i]
        sources == [snap.runs[r].sources EXCEPT ![s].state = "failed", ![s].failure = code]
        run == [snap.runs[r] EXCEPT !.sources = sources, !.failure = code,
                                    !.state = DeriveRunState(sources)]
    IN  /\ snap # None
        /\ Live(snap, r)
        /\ snap.runs[r].sources[s].state \notin Ended
        /\ Commit(i, Changed(snap, r, run,
               <<Event(r, s, "source.failed"), Event(r, None, "migration.failed")>>))

Resulting(decision) == IF decision = "approve" THEN "approved" ELSE "cancelled"

\* Decided once, at the gate, for the digest that is current there.
Decidable(run, digest) ==
    /\ run.approval = None
    /\ run.state = "awaiting_approval" /\ run.plan # None
    /\ run.plan = digest

Decide(i, r, decision, digest) ==
    LET snap == memory[i]
        id == <<r, losses>>
        sources == [s \in Sources |->
                      [snap.runs[r].sources[s] EXCEPT !.state = Resulting(decision)]]
        run == [snap.runs[r] EXCEPT !.sources = sources, !.approval = id,
                                    !.state = DeriveRunState(sources)]
        approval == [id |-> id, run |-> r, plan |-> run.plan, decision |-> decision,
                     resulting |-> Resulting(decision)]
        told == IF decision = "approve"
                  THEN <<Event(r, None, "portfolio.approved")>>
                  ELSE <<Event(r, None, "portfolio.rejected"),
                         Event(r, None, "migration.cancelled")>>
    IN  /\ snap # None
        /\ snap.runs[r] # None
        /\ Decidable(snap.runs[r], digest)
        /\ Commit(i, [Changed(snap, r, run, told) EXCEPT !.approvals = @ \cup {approval}])
-----------------------------------------------------------------------------
Init ==
    /\ hosted \in BOOLEAN
    /\ head = None /\ safe = EmptySnapshot /\ acked = EmptySnapshot
    /\ memory = [i \in Instances |-> None] /\ revision = [i \in Instances |-> 0]
    /\ refused = FALSE /\ faults = 0 /\ losses = 0

Next ==
    \/ \E i \in Instances :
         \/ Open(i) \/ Stop(i)
         \/ \E r \in RunIds :
              \/ \E name \in Names : CreateRun(i, r, name)
              \/ \E s \in Sources, to \in DOMAIN AdvanceSteps, count \in Counts \cup {None} :
                    AdvanceSource(i, r, s, to, count)
              \/ \E s \in Sources, digest \in Digests : AttachSourcePlan(i, r, s, digest)
              \/ EnterAwaitingApproval(i, r)
              \/ \E s \in Sources, code \in FailureCodes : FailSource(i, r, s, code)
              \/ \E decision \in {"approve", "reject"}, digest \in [Sources -> Digests] :
                    Decide(i, r, decision, digest)
    \/ PowerLoss

Spec == Init /\ [][Next]_vars
-----------------------------------------------------------------------------
(* Reading the event stream.                                               *)

\* The places of the run's event that a client names with its cursor.
Positions(snap, r, cursor) == {k \in RunEvents(snap, r) : snap.events[k].id = cursor}

\* Where the page starts: at the beginning without a cursor.
After(snap, r, cursor) ==
    IF cursor = None THEN 0 ELSE CHOOSE k \in Positions(snap, r, cursor) : TRUE

Between(snap, r, from, to) == {k \in RunEvents(snap, r) : from < k /\ k < to}

\* Slip: the page starts with the event after next.
PageFromNext(snap, r, cursor) ==
    LET from == After(snap, r, cursor)
    IN  {k \in RunEvents(snap, r) :
           from < k /\ Cardinality(Between(snap, r, from, k)) \in 1..PageLimit}

\* The page a client gets that last saw the event named by cursor, which must
\* be one of the run's, as places in the log; an SSE stream is cut after
\* PageLimit events.
EventsAfter(snap, r, cursor) ==
    LET from == After(snap, r, cursor)
    IN  {k \in RunEvents(snap, r) :
           from < k /\ Cardinality(Between(snap, r, from, k)) < PageLimit}

CursorKnown(snap, r, cursor) == cursor = None \/ Positions(snap, r, cursor) # {}
-----------------------------------------------------------------------------
Plans == [Sources -> Digests \cup {None}]
ApprovalIds == RunIds \X (0..MaxLosses)

SourceRecords ==
    [state : States, plan : Digests \cup {None}, failure : FailureCodes \cup {None},
     records : Counts \cup {0}]

RunRecords ==
    [name : Names, state : States, plan : Plans \cup {None}, failure : FailureCodes \cup {None},
     approval : ApprovalIds \cup {None}, sources : [Sources -> SourceRecords]]

Approvals ==
    [id : ApprovalIds, run : RunIds, plan : Plans, decision : {"approve", "reject"},
     resulting : {"approved", "cancelled"}]

EventIds == (1..MaxLog) \X (0..MaxLosses)

Events ==
    [id : EventIds, run : RunIds, source : Sources \cup {None},
     type : SourceEvents \cup PortfolioEvents, state : States]

SnapshotRecords ==
    [runs : [RunIds -> RunRecords \cup {None}], approvals : SUBSET Approvals,
     events : Seq(Events)]

Heads == [snap : SnapshotRecords, revision : Nat]

ASSUME NoneAssumption ==
    /\ None \notin Plans /\ None \notin ApprovalIds /\ None \notin EventIds
    /\ None \notin RunRecords /\ None \notin SnapshotRecords /\ None \notin Heads

\* Every snapshot that is stored, safe from power loss, served or acknowledged.
Snapshots == {safe, acked} \cup (IF head = None THEN {} ELSE {head.snap})
               \cup {memory[i] : i \in {j \in Instances : memory[j] # None}}

\* The types of the variables.
TypeOK ==
    /\ hosted \in BOOLEAN /\ refused \in BOOLEAN
    /\ head \in Heads \cup {None}
    /\ safe \in SnapshotRecords /\ acked \in SnapshotRecords
    /\ memory \in [Instances -> SnapshotRecords \cup {None}]
    /\ revision \in [Instances -> Nat]
    /\ faults \in 0..MaxFaults /\ losses \in 0..MaxLosses

\* The store never refuses what its own commands make: no sequence of legal
\* commands on one or more instances leads cpValidateSnapshot, or the limit on
\* a run's events, to turn a command down with an internal error, or a start to
\* find a stored snapshot corrupt.
NeverSelfRefused ==
    /\ ~refused
    /\ head # None => ValidSnapshot(head.snap) /\ ValidSnapshot(safe)

\* No source is executed without the one decision that approved exactly the
\* plans the run carries; validation does not check it.
ExecutionApproved ==
    \A snap \in Snapshots : \A r \in RunIds :
      /\ snap.runs[r] # None
      /\ \E s \in Sources : snap.runs[r].sources[s].state
                               \in {"approved", "executing", "verifying", "completed"}
      =>
        \E a \in snap.approvals :
          /\ a.run = r /\ a.decision = "approve"
          /\ \A s \in Sources : a.plan[s] = snap.runs[r].sources[s].plan /\ a.plan[s] # None

\* What an event says of a source: its state from then on.
Tells ==
    {<<AdvanceSteps[to].type, to>> : to \in DOMAIN AdvanceSteps}
      \cup {<<"migration.created", "created">>, <<"source.failed", "failed">>,
            <<"portfolio.awaiting_approval", "awaiting_approval">>,
            <<"portfolio.approved", "approved">>, <<"migration.cancelled", "cancelled">>}

Telling(snap, r, s) ==
    {k \in RunEvents(snap, r) : /\ snap.events[k].source \in {s, None}
                               /\ \E t \in Tells : t[1] = snap.events[k].type}

Told(snap, r, s) ==
    CHOOSE st \in States : <<snap.events[Max(Telling(snap, r, s))].type, st>> \in Tells

\* The event stream tells the truth: in every snapshot, the events of a run
\* determine the state of each source and of the portfolio.
LogTells ==
    \A snap \in Snapshots : \A r \in RunIds : snap.runs[r] # None =>
      /\ \A s \in Sources : snap.runs[r].sources[s].state = Told(snap, r, s)
      /\ snap.runs[r].state = snap.events[Max(RunEvents(snap, r))].state

\* Well-formed snapshots whose events tell the truth.
LogSound == TypeOK /\ LogTells

\* A command that was answered with success is never undone, neither by
\* another instance nor by a power loss.
AckDurable ==
    head # None =>
      \A snap \in {head.snap, safe} :
        /\ IsPrefix(acked.events, snap.events)
        /\ acked.approvals \subseteq snap.approvals
        /\ \A r \in RunIds : acked.runs[r] # None =>
              \A s \in Sources : acked.runs[r].sources[s].plan
                                    \in {None, snap.runs[r].sources[s].plan}

\* Whatever event a client saw last, and whichever instance it resumes on, the
\* page it gets goes on right after that event in the stored log, or the
\* cursor is unknown there: no event is skipped or repeated.
StreamGapless ==
    \A i \in Instances : memory[i] # None =>
      \A r \in RunIds :
        LET seen == RunEvents(head.snap, r)
        IN  \A from \in {0} \cup seen :
              LET cursor == IF from = 0 THEN None ELSE head.snap.events[from].id
                  page == EventsAfter(memory[i], r, cursor)
              IN  CursorKnown(memory[i], r, cursor) =>
                    \A k \in page :
                      /\ k \in seen /\ from < k
                      /\ memory[i].events[k] = head.snap.events[k]
                      /\ \A j \in seen : from < j /\ j < k => j \in page

\* What is stored only grows, except for what a power loss takes back: events
\* and decisions stay, a bound plan is never changed, counts never fall, and an
\* ended run is final.
HistoryStands ==
    [][head # None /\ losses' = losses =>
         /\ IsPrefix(head.snap.events, head'.snap.events)
         /\ head.snap.approvals \subseteq head'.snap.approvals
         /\ \A r \in RunIds : head.snap.runs[r] # None =>
              LET old == head.snap.runs[r]
                  new == head'.snap.runs[r]
              IN  /\ \A s \in Sources :
                       /\ old.sources[s].plan \in {None, new.sources[s].plan}
                       /\ old.sources[s].records <= new.sources[s].records
                  /\ old.state \in Ended => new = old]_vars
=============================================================================
