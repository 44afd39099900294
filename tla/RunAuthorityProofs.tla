-------------------------- MODULE RunAuthorityProofs --------------------------
(***************************************************************************)
(* Proofs about RunAuthority, for any digests, sources, nonces, approval   *)
(* ids, releases, launch keys and number of revisions.                     *)
(***************************************************************************)
EXTENDS RunAuthority, SequenceTheorems, TLAPS

Commands ==
    [expected : {0}]
      \cup [expected : Nat, to : States, plan : Digests \cup {None}]
      \cup [expected : Nat, id : ApprovalIds, nonce : Nonces, binding : Bindings,
            decision : {"approve", "reject"}]
      \cup [expected : Nat, simulation : ApprovalIds, production : ApprovalIds,
            checkpoint : UnsealedDigests]
      \cup [expected : Nat, release : Releases, approval : ApprovalIds, subject : Digests]

Results == [cmd : Commands,
            result : [revision : 0..MaxRevision, state : States, sequence : Nat]]

\* The run before it is created, and the plan it waits for approval with.
Life ==
    /\ run.revision = 0 <=> run.state = "absent"
    /\ run.state = "absent" => events = <<>> /\ run.release = None
    /\ run.state = "awaiting_approval" => run.plan # None

\* The checkpoint row is written at most twice, and the second time is the seal.
Staged ==
    /\ checkpoint # None => (checkpoint.revision = 2 <=> Sealed)
    /\ Sealed => journal["simulation"] # None /\ run.plan # None

\* A decision is of the stage of the run that names it.
Placed ==
    \A a \in ApprovalIds : approvals[a] # None =>
      \/ approvals[a].binding.stage = "simulation" /\ run.simulation = a
      \/ approvals[a].binding.stage = "production" /\ run.production = a

\* Every answer names its event, and no two have one expected revision.
Reply(op, rows, k, rev, log) ==
    LET cmd == rows[k].cmd
        res == rows[k].result
    IN  /\ cmd.expected < rev
        /\ res.revision = cmd.expected + 1
        /\ res.sequence \in DOMAIN log
        /\ log[res.sequence].revision = res.revision
        /\ log[res.sequence].state = res.state
        /\ op = "run.transition" => res.state = cmd.to
        /\ \A other \in DOMAIN rows : other # k => rows[other].cmd.expected # cmd.expected

Answered ==
    \A op \in Operations : \A k \in DOMAIN idem[op] :
      Reply(op, idem[op], k, run.revision, events)

IndInv ==
    /\ TypeOK /\ idem \in [Operations -> Seq(Results)]
    /\ Life /\ Staged /\ SealAtomic /\ SealEarned /\ SuccessEarned
    /\ NonceSpentOnce /\ Placed /\ EventsReplay /\ Answered

Books == /\ events \in Seq(EventRows) /\ idem \in [Operations -> Seq(Results)]
         /\ EventsReplay /\ Answered

Facts == {"launch.recorded", "reconciliation.recorded"}
Moves == {"run.created", "run.transitioned", "approval.recorded", "checkpoint.sealed",
          "release.created"}

-----------------------------------------------------------------------------
\* A run that is not there yet, and nothing written down.
LEMMA InitInv == Init => IndInv
<1> SUFFICES ASSUME Init PROVE IndInv
  OBVIOUS
<1>1. TypeOK /\ idem \in [Operations -> Seq(Results)]
  BY RunAssumption, EmptySeq DEF Init, TypeOK, Runs, States, Stages
<1>2. ~Sealed /\ journal["production"] = None /\ run.state = "absent"
  BY DEF Init, Sealed, Stages
<1>3. Life /\ Staged /\ SealAtomic /\ SealEarned /\ SuccessEarned
  BY <1>2 DEF Init, Life, Staged, SealAtomic, SealEarned, SuccessEarned
<1>4. NonceSpentOnce /\ Placed
  BY DEF Init, NonceSpentOnce, Placed
<1>5. DOMAIN events = {} /\ \A op \in Operations : DOMAIN idem[op] = {}
  BY DEF Init
<1>6. EventsReplay /\ Answered
  BY <1>2, <1>5 DEF EventsReplay, Answered, Reply
<1> QED
  BY <1>1, <1>3, <1>4, <1>6 DEF IndInv

\* A key that was not used before is the key of no stored result.
LEMMA FreshKey ==
    ASSUME IndInv, NEW op \in Operations
    PROVE  /\ idem[op] \in Seq(Results) /\ Len(idem[op]) \in Nat
           /\ DOMAIN idem[op] = 1..Len(idem[op])
           /\ Fresh(op) = Len(idem[op]) + 1 /\ Fresh(op) \notin DOMAIN idem[op]
           /\ \A k \in DOMAIN idem[op] : idem[op][k] \in Results
  BY LenProperties, ElementOfSeq DEF IndInv, Fresh

\* The last event tells the revision and the state of the run.
LEMMA LastEvent ==
    ASSUME IndInv
    PROVE  /\ events \in Seq(EventRows) /\ Len(events) \in Nat /\ DOMAIN events = 1..Len(events)
           /\ run.revision \in Nat
           /\ \A i \in DOMAIN events : events[i] \in EventRows
           /\ (IF Len(events) = 0 THEN 0 ELSE events[Len(events)].revision) = run.revision
  BY LenProperties, ElementOfSeq, EmptySeq DEF IndInv, TypeOK, Life, EventsReplay, Runs

\* One more event, which moves the run or does not.
LEMMA EventKeeps ==
    ASSUME IndInv, NEW x \in EventRows, events' = Append(events, x),
           x.revision = run.revision + (IF x.type \in Facts THEN 0 ELSE 1),
           run'.revision = x.revision, run'.state = x.state
    PROVE  /\ EventsReplay' /\ events' \in Seq(EventRows) /\ events' # <<>>
           /\ Len(events') = Len(events) + 1 /\ DOMAIN events' = 1..(Len(events) + 1)
           /\ events'[Len(events) + 1] = x
           /\ \A i \in DOMAIN events : i \in DOMAIN events' /\ events'[i] = events[i]
<1>1. /\ events' \in Seq(EventRows) /\ events' # <<>>
      /\ Len(events') = Len(events) + 1 /\ DOMAIN events' = 1..(Len(events) + 1)
      /\ events'[Len(events) + 1] = x
      /\ \A i \in 1..Len(events) : events'[i] = events[i]
  BY LastEvent, AppendProperties, LenProperties
<1>2. ASSUME NEW i \in DOMAIN events'
      PROVE  events'[i].revision =
               (IF i = 1 THEN 0 ELSE events'[i - 1].revision)
                 + (IF events'[i].type \notin Facts THEN 1 ELSE 0)
  <2>1. CASE i \in DOMAIN events
    <3>1. events[i].revision = (IF i = 1 THEN 0 ELSE events[i - 1].revision)
                                 + (IF events[i].type \notin Facts THEN 1 ELSE 0)
      BY <2>1 DEF IndInv, EventsReplay, Facts
    <3>2. events'[i] = events[i] /\ (i # 1 => events'[i - 1] = events[i - 1])
      BY <1>1, <2>1, LastEvent
    <3> QED
      BY <3>1, <3>2
  <2>2. CASE i = Len(events) + 1
    <3>1. (IF i = 1 THEN 0 ELSE events'[i - 1].revision) = run.revision
      <4>1. CASE Len(events) = 0
        BY <2>2, <4>1, LastEvent
      <4>2. CASE Len(events) # 0
        <5>1. i # 1 /\ i - 1 = Len(events) /\ Len(events) \in 1..Len(events)
          BY <2>2, <4>2, LastEvent
        <5> QED
          BY <1>1, <4>2, <5>1, LastEvent
      <4> QED
        BY <4>1, <4>2
    <3> QED
      BY <1>1, <2>2, <3>1, LastEvent
  <2> QED
    BY <1>1, <2>1, <2>2, LastEvent
<1>3. EventsReplay'
  BY <1>1, <1>2, LastEvent DEF EventsReplay, Facts
<1> QED
  BY <1>1, <1>3, LastEvent

\* The end of a transaction keeps the books: the event and the answer it
\* appends, and the answers it finds.
LEMMA CommitKeeps ==
    ASSUME IndInv, NEW op \in Operations, NEW cmd \in Commands, NEW row \in Runs, NEW type \in Moves,
           Commit(op, cmd, row, type), cmd.expected = run.revision,
           row.revision = run.revision, row.state # "absent",
           op = "run.transition" => row.state = cmd.to
    PROVE  /\ Books' /\ run' \in Runs /\ run'.revision # 0 /\ events' # <<>>
           /\ run' = [row EXCEPT !.revision = run.revision + 1]
<1>1. PICK next, x, res :
        /\ next = [row EXCEPT !.revision = run.revision + 1]
        /\ x = Event(type, next)
        /\ res = [revision |-> next.revision, state |-> next.state, sequence |-> Len(events) + 1]
  OBVIOUS
<1>2. /\ run' = next /\ run.revision < MaxRevision /\ events' = Append(events, x)
      /\ idem' = [idem EXCEPT ![op] = Append(idem[op], [cmd |-> cmd, result |-> res])]
  BY <1>1 DEF Commit
<1>3. run.revision \in Nat /\ run.revision + 1 \in 1..MaxRevision /\ run.revision + 1 \in 0..MaxRevision
  BY <1>2, RunAssumption DEF IndInv, TypeOK, Runs
<1>4. /\ next \in Runs /\ next.revision = run.revision + 1 /\ next.state = row.state
      /\ row.state \in States
  BY <1>1, <1>3 DEF Runs
<1>5. /\ x \in EventRows /\ x.revision = run.revision + 1 /\ x.state = row.state
      /\ x.type \notin Facts
  BY <1>1, <1>3, <1>4 DEF Event, EventRows, Moves, Facts
<1>6. /\ EventsReplay' /\ events' \in Seq(EventRows) /\ events' # <<>>
      /\ DOMAIN events' = 1..(Len(events) + 1) /\ events'[Len(events) + 1] = x
      /\ \A i \in DOMAIN events : i \in DOMAIN events' /\ events'[i] = events[i]
  BY <1>2, <1>3, <1>4, <1>5, EventKeeps
<1>7. PICK new : new = [cmd |-> cmd, result |-> res]
  OBVIOUS
<1>8. /\ new \in Results /\ new.cmd = cmd /\ new.result.revision = run.revision + 1
      /\ new.result.state = row.state /\ new.result.sequence = Len(events) + 1
  BY <1>1, <1>3, <1>4, <1>7, LastEvent DEF Results
<1>9. Append(idem[op], new) \in Seq(Results)
  BY <1>8, FreshKey, AppendProperties
<1>10. idem' \in [Operations -> Seq(Results)]
  BY <1>2, <1>7, <1>9 DEF IndInv
<1>11. /\ \A q \in Operations : q # op => idem'[q] = idem[q]
       /\ DOMAIN idem'[op] = 1..(Len(idem[op]) + 1)
       /\ \A k \in 1..Len(idem[op]) : idem'[op][k] = idem[op][k]
       /\ idem'[op][Len(idem[op]) + 1] = new
  <2>1. idem'[op] = Append(idem[op], new) /\ \A q \in Operations : q # op => idem'[q] = idem[q]
    BY <1>2, <1>7 DEF IndInv
  <2> QED
    BY <1>8, <1>9, <2>1, FreshKey, AppendProperties, LenProperties
<1>12. ASSUME NEW q \in Operations, NEW k \in DOMAIN idem[q]
       PROVE  /\ idem[q][k].cmd.expected < run.revision
              /\ idem[q][k].result.revision = idem[q][k].cmd.expected + 1
              /\ idem[q][k].result.sequence \in DOMAIN events
              /\ events[idem[q][k].result.sequence].revision = idem[q][k].result.revision
              /\ events[idem[q][k].result.sequence].state = idem[q][k].result.state
              /\ q = "run.transition" => idem[q][k].result.state = idem[q][k].cmd.to
              /\ \A other \in DOMAIN idem[q] :
                   other # k => idem[q][other].cmd.expected # idem[q][k].cmd.expected
              /\ idem[q][k].cmd.expected \in Nat
  <2>1. idem[q][k].cmd \in Commands
    BY FreshKey DEF Results
  <2>2. idem[q][k].cmd.expected \in Nat
    BY <2>1 DEF Commands
  <2> QED
    BY <2>2 DEF IndInv, Answered, Reply
<1>13. Answered'
  <2> SUFFICES ASSUME NEW q \in Operations, NEW k \in DOMAIN idem'[q]
               PROVE  Reply(q, idem'[q], k, run'.revision, events')
    BY DEF Answered
  <2> SUFFICES /\ idem'[q][k].cmd.expected < run.revision + 1
               /\ idem'[q][k].result.revision = idem'[q][k].cmd.expected + 1
               /\ idem'[q][k].result.sequence \in DOMAIN events'
               /\ events'[idem'[q][k].result.sequence].revision = idem'[q][k].result.revision
               /\ events'[idem'[q][k].result.sequence].state = idem'[q][k].result.state
               /\ q = "run.transition" => idem'[q][k].result.state = idem'[q][k].cmd.to
               /\ \A other \in DOMAIN idem'[q] :
                    other # k => idem'[q][other].cmd.expected # idem'[q][k].cmd.expected
    <3>1. run'.revision = run.revision + 1
      BY <1>2, <1>4
    <3> QED
      BY <3>1 DEF Reply
  <2>1. CASE q # op
    <3>1. idem'[q] = idem[q] /\ k \in DOMAIN idem[q]
      BY <1>11, <2>1
    <3>2. idem[q][k].cmd.expected < run.revision + 1
      BY <1>3, <1>12, <3>1
    <3> QED
      BY <1>6, <1>12, <3>1, <3>2
  <2>2. CASE q = op /\ k = Len(idem[op]) + 1
    <3>1. idem'[q][k] = new
      BY <1>11, <2>2
    <3>2. ASSUME NEW other \in DOMAIN idem'[q], other # k
          PROVE  idem'[q][other].cmd.expected # run.revision
      <4>1. other \in DOMAIN idem[op] /\ idem'[q][other] = idem[op][other]
        BY <1>11, <2>2, <3>2, FreshKey
      <4> QED
        BY <1>3, <1>12, <4>1
    <3> QED
      BY <1>3, <1>5, <1>6, <1>8, <2>2, <3>1, <3>2, LastEvent
  <2>3. CASE q = op /\ k \in DOMAIN idem[op]
    <3>1. idem'[q][k] = idem[op][k]
      BY <1>11, <2>3, FreshKey
    <3>2. ASSUME NEW other \in DOMAIN idem'[q], other # k
          PROVE  idem'[q][other].cmd.expected # idem[op][k].cmd.expected
      <4>1. CASE other \in DOMAIN idem[op]
        <5>1. idem'[q][other] = idem[op][other]
          BY <1>11, <2>3, <4>1, FreshKey
        <5> QED
          BY <1>12, <2>3, <3>2, <4>1, <5>1
      <4>2. CASE other = Len(idem[op]) + 1
        BY <1>3, <1>8, <1>11, <1>12, <2>3, <4>2
      <4> QED
        BY <1>11, <2>3, <4>1, <4>2, FreshKey
    <3> QED
      BY <1>3, <1>6, <1>12, <2>3, <3>1, <3>2
  <2> QED
    BY <1>11, <2>1, <2>2, <2>3, FreshKey
<1> QED
  BY <1>1, <1>2, <1>3, <1>4, <1>6, <1>10, <1>13 DEF Books

\* A fact about the run's release appends its event and moves nothing.
LEMMA FactKeeps ==
    ASSUME IndInv, NEW type \in Facts, events' = Append(events, Event(type, run)),
           UNCHANGED <<run, idem>>, run.state # "absent"
    PROVE  Books' /\ Life'
<1>1. PICK x : x = Event(type, run)
  OBVIOUS
<1>2. x \in EventRows /\ x.type \in Facts /\ x.revision = run.revision /\ x.state = run.state
  <2>1. run.revision \in 1..MaxRevision /\ run.state \in States
    BY RunAssumption DEF IndInv, TypeOK, Runs, Life
  <2> QED
    BY <1>1, <2>1 DEF Event, EventRows, Facts
<1>3. /\ EventsReplay' /\ events' \in Seq(EventRows)
      /\ \A i \in DOMAIN events : i \in DOMAIN events' /\ events'[i] = events[i]
  BY <1>1, <1>2, LastEvent, EventKeeps
<1>4. Answered'
  BY <1>3 DEF IndInv, Answered, Reply
<1>5. Life'
  BY DEF IndInv, Life
<1> QED
  BY <1>3, <1>4, <1>5 DEF Books, IndInv

\* A command that leaves run, events and answers alone keeps their agreement.
LEMMA QuietBooks == ASSUME IndInv, UNCHANGED <<run, events, idem>> PROVE Books' /\ Life'
  BY DEF IndInv, TypeOK, Books, EventsReplay, Answered, Life

\* A step that decides, seals, releases and reports nothing.
LEMMA SealFrame ==
    ASSUME IndInv, UNCHANGED <<approvals, journal, checkpoint, releases, launch, recon>>,
           run'.simulation = run.simulation, run'.production = run.production,
           run'.approval = run.approval, run'.release = run.release,
           run.plan # None => run'.plan = run.plan,
           run'.state = "approved" => run.state = "approved",
           run'.state = "succeeded" => run.state = "succeeded" \/ ReconciliationVerified
    PROVE  Staged' /\ SealAtomic' /\ SealEarned' /\ SuccessEarned'
<1> USE DEF IndInv
<1>1. Sealed' <=> Sealed
  BY DEF Sealed
<1>2. Sealed => run'.plan = run.plan /\ run.plan # None
  BY DEF Staged
<1>3. Staged'
  BY <1>1, <1>2 DEF Staged
<1>4. SealAtomic'
  BY <1>1 DEF SealAtomic
<1>5. SealEarned'
  BY <1>1, <1>2 DEF SealEarned
<1>6. SuccessEarned'
  BY <1>1, <1>2 DEF SuccessEarned, ReconciliationVerified
<1> QED
  BY <1>3, <1>4, <1>5, <1>6

\* A command that spends no nonce and records no decision keeps what is said
\* of both.
LEMMA DecisionFrame ==
    ASSUME IndInv, UNCHANGED <<nonces, approvals>>,
           run'.simulation = run.simulation, run'.production = run.production
    PROVE  NonceSpentOnce' /\ Placed'
  BY DEF IndInv, NonceSpentOnce, Placed

-----------------------------------------------------------------------------
\* CreateRun keeps the invariant.
LEMMA CreateKeeps == ASSUME IndInv, CreateRun([expected |-> 0]) PROVE IndInv'
<1> USE DEF IndInv
<1>1. PICK cmd, row : cmd = [expected |-> 0] /\ row = [run EXCEPT !.state = "created"]
  OBVIOUS
<1>2. /\ cmd \in Commands /\ cmd.expected = 0 /\ row \in Runs /\ row.state = "created"
      /\ row.revision = run.revision /\ row.simulation = run.simulation
      /\ row.production = run.production /\ row.approval = run.approval
      /\ row.release = run.release /\ row.plan = run.plan
  BY <1>1 DEF Commands, TypeOK, Runs, States
<1>3. /\ Commit("run.create", cmd, row, "run.created") /\ "run.create" \in Operations
      /\ UNCHANGED <<nonces, approvals, journal, checkpoint, releases, launch, recon>>
  BY <1>1 DEF CreateRun, Operations
<1>4. run.revision = 0
  BY <1>1, <1>2, <1>3, FreshKey DEF CreateRun, Verdict
<1>5. /\ Books' /\ run' \in Runs /\ run'.revision # 0
      /\ run' = [row EXCEPT !.revision = run.revision + 1]
  BY <1>2, <1>3, <1>4, CommitKeeps DEF Moves
<1>6. /\ run'.state = "created" /\ run'.simulation = run.simulation
      /\ run'.production = run.production /\ run'.approval = run.approval
      /\ run'.release = run.release /\ run'.plan = run.plan
  BY <1>2, <1>5 DEF Runs
<1>7. Staged' /\ SealAtomic' /\ SealEarned' /\ SuccessEarned'
  BY <1>3, <1>6, SealFrame
<1>8. NonceSpentOnce' /\ Placed'
  BY <1>3, <1>6, DecisionFrame
<1>9. TypeOK' /\ Life'
  BY <1>3, <1>5, <1>6 DEF TypeOK, Books, Life
<1> QED
  BY <1>5, <1>7, <1>8, <1>9 DEF Books

\* TransitionRun keeps it: the states it may enter are the ones already
\* earned.
LEMMA TransitionKeeps ==
    ASSUME IndInv, NEW cmd \in [expected : Expected, to : States, plan : Digests \cup {None}],
           TransitionRun(cmd)
    PROVE  IndInv'
<1> USE DEF IndInv
<1>1. PICK row : row = [run EXCEPT !.state = cmd.to,
                                   !.plan = IF cmd.plan = None THEN @ ELSE cmd.plan]
  OBVIOUS
<1>2. /\ Commit("run.transition", cmd, row, "run.transitioned") /\ "run.transition" \in Operations
      /\ UNCHANGED <<nonces, approvals, journal, checkpoint, releases, launch, recon>>
  BY <1>1 DEF TransitionRun, Operations
<1>3. TransitionAccepted(cmd) /\ cmd.expected = run.revision
  BY <1>2, FreshKey DEF TransitionRun, Verdict
<1>4. cmd.to \notin {"absent", "approved"}
  BY <1>3 DEF TransitionAccepted, Transitions, TypeOK, Runs
<1>5. /\ cmd \in Commands /\ row \in Runs /\ row.state = cmd.to
      /\ row.revision = run.revision /\ row.simulation = run.simulation
      /\ row.production = run.production /\ row.approval = run.approval
      /\ row.release = run.release
      /\ row.plan = IF cmd.plan = None THEN run.plan ELSE cmd.plan
  BY <1>1 DEF Commands, TypeOK, Runs, Expected
<1>6. /\ Books' /\ run' \in Runs /\ run'.revision # 0
      /\ run' = [row EXCEPT !.revision = run.revision + 1]
  BY <1>2, <1>3, <1>4, <1>5, CommitKeeps DEF Moves
<1>7. /\ run'.state = cmd.to /\ run'.simulation = run.simulation
      /\ run'.production = run.production /\ run'.approval = run.approval
      /\ run'.release = run.release
      /\ run'.plan = IF cmd.plan = None THEN run.plan ELSE cmd.plan
  BY <1>5, <1>6 DEF Runs
<1>8. run.plan # None => run'.plan = run.plan
  BY <1>3, <1>7 DEF TransitionAccepted
<1>9. Staged' /\ SealAtomic' /\ SealEarned' /\ SuccessEarned'
  BY <1>2, <1>3, <1>4, <1>7, <1>8, SealFrame DEF TransitionAccepted
<1>10. NonceSpentOnce' /\ Placed'
  BY <1>2, <1>7, DecisionFrame
<1>11. TypeOK' /\ Life'
  BY <1>2, <1>3, <1>4, <1>6, <1>7 DEF TypeOK, Books, Life, TransitionAccepted
<1> QED
  BY <1>6, <1>9, <1>10, <1>11 DEF Books

\* RegisterApprovalNonce keeps it.
LEMMA RegisterKeeps ==
    ASSUME IndInv, NEW n \in Nonces, NEW b \in Bindings, RegisterApprovalNonce(n, b)
    PROVE  IndInv'
<1> USE DEF IndInv
<1>1. PICK x : x = [binding |-> b, expired |-> FALSE, approval |-> None]
  OBVIOUS
<1>2. x \in NonceRows /\ x.approval = None
  BY <1>1 DEF NonceRows
<1>3. /\ nonces' = [nonces EXCEPT ![n] = x] /\ nonces[n] = None
      /\ UNCHANGED <<run, approvals, journal, checkpoint, releases, launch, recon, idem, events>>
  BY <1>1 DEF RegisterApprovalNonce
<1>4. TypeOK'
  BY <1>2, <1>3 DEF TypeOK
<1>5. NonceSpentOnce' /\ Placed'
  <2>1. \A m \in Nonces : nonces'[m] = IF m = n THEN x ELSE nonces[m]
    BY <1>3 DEF TypeOK
  <2>2. \A a \in ApprovalIds : approvals[a] # None => approvals[a].nonce \in Nonces \ {n}
    BY <1>3 DEF NonceSpentOnce, TypeOK, Decisions
  <2>3. NonceSpentOnce'
    BY <1>2, <1>3, <2>1, <2>2 DEF NonceSpentOnce
  <2> QED
    BY <1>3, <2>3 DEF Placed
<1>6. Staged' /\ SealAtomic' /\ SealEarned' /\ SuccessEarned'
  BY <1>3, SealFrame
<1>7. Books' /\ Life'
  BY <1>3, QuietBooks
<1> QED
  BY <1>4, <1>5, <1>6, <1>7 DEF Books

\* A nonce that expires keeps it.
LEMMA ExpiryKeeps == ASSUME IndInv, NEW n \in Nonces, NonceExpires(n) PROVE IndInv'
<1> USE DEF IndInv
<1>1. PICK x : x = [nonces[n] EXCEPT !.expired = TRUE]
  OBVIOUS
<1>2. /\ x \in NonceRows /\ x # None /\ x.approval = nonces[n].approval
      /\ x.binding = nonces[n].binding
  BY <1>1, RowAssumption DEF NonceExpires, TypeOK, NonceRows
<1>3. /\ nonces' = [nonces EXCEPT ![n] = x] /\ nonces[n] # None
      /\ UNCHANGED <<run, approvals, journal, checkpoint, releases, launch, recon, idem, events>>
  BY <1>1 DEF NonceExpires
<1>4. TypeOK'
  BY <1>2, <1>3 DEF TypeOK
<1>5. NonceSpentOnce' /\ Placed'
  <2>1. \A m \in Nonces : nonces'[m] = IF m = n THEN x ELSE nonces[m]
    BY <1>3 DEF TypeOK
  <2>2. \A a \in ApprovalIds : approvals[a] # None => approvals[a].nonce \in Nonces
    BY DEF TypeOK, Decisions
  <2>3. NonceSpentOnce'
    BY <1>2, <1>3, <2>1, <2>2 DEF NonceSpentOnce
  <2> QED
    BY <1>3, <2>3 DEF Placed
<1>6. Staged' /\ SealAtomic' /\ SealEarned' /\ SuccessEarned'
  BY <1>3, SealFrame
<1>7. Books' /\ Life'
  BY <1>3, QuietBooks
<1> QED
  BY <1>4, <1>5, <1>6, <1>7 DEF Books

-----------------------------------------------------------------------------
\* A decision is taken before the seal, spends a nonce nobody spent and becomes
\* the decision of a stage that had none.
LEMMA DecisionKeeps ==
    ASSUME IndInv,
           NEW cmd \in [expected : Expected, id : ApprovalIds, nonce : Nonces, binding : Registered,
                        decision : {"approve", "reject"}],
           RecordApproval(cmd)
    PROVE  IndInv'
<1> USE DEF IndInv
<1>1. PICK b, op, row, x, y :
        /\ b = cmd.binding /\ op = RecordOperation(b.stage)
        /\ row = [run EXCEPT !.state = IF cmd.decision = "reject" THEN "rejected" ELSE @,
                             !.simulation = IF b.stage = "simulation" THEN cmd.id ELSE @,
                             !.production = IF b.stage = "production" THEN cmd.id ELSE @]
        /\ x = [nonces[cmd.nonce] EXCEPT !.approval = cmd.id]
        /\ y = [nonce |-> cmd.nonce, binding |-> b, decision |-> cmd.decision]
  OBVIOUS
<1>2. b \in Bindings /\ b.stage \in Stages
  BY <1>1 DEF Registered, TypeOK, NonceRows, Bindings, Stages
<1>3. /\ op \in Operations /\ op # "run.transition"
      /\ Commit(op, cmd, row, "approval.recorded")
      /\ nonces' = [nonces EXCEPT ![cmd.nonce] = x]
      /\ approvals' = [approvals EXCEPT ![cmd.id] = y]
      /\ UNCHANGED <<journal, checkpoint, releases, launch, recon>>
  BY <1>1 DEF RecordApproval, RecordOperation, Operations
<1>4. ApprovalAccepted(cmd) /\ cmd.expected = run.revision
  BY <1>1, <1>3, FreshKey DEF RecordApproval, Verdict
<1>5. /\ run.state = "awaiting_approval" /\ run.approval = None /\ run.production = None
      /\ b.stage = "simulation" => run.simulation = None
      /\ nonces[cmd.nonce] # None /\ nonces[cmd.nonce].binding = b
      /\ nonces[cmd.nonce].approval = None /\ approvals[cmd.id] = None
  BY <1>1, <1>2, <1>4 DEF ApprovalAccepted, FollowsSimulation, NonceUsable, Stages
<1>6. /\ cmd \in Commands /\ cmd.id \in ApprovalIds /\ cmd.nonce \in Nonces
      /\ cmd.decision \in {"approve", "reject"}
  BY <1>1, <1>2 DEF Commands, Expected
<1>7. /\ row \in Runs /\ row.state \in {"rejected", "awaiting_approval"}
      /\ row.revision = run.revision /\ row.approval = None /\ row.release = run.release
      /\ row.plan = run.plan
      /\ row.simulation = IF b.stage = "simulation" THEN cmd.id ELSE run.simulation
      /\ row.production = IF b.stage = "production" THEN cmd.id ELSE run.production
  BY ZenonT(60), <1>1, <1>5, <1>6 DEF TypeOK, Runs, States, Terminal
<1>8. /\ Books' /\ run' \in Runs /\ run'.revision # 0
      /\ run' = [row EXCEPT !.revision = run.revision + 1]
  BY <1>3, <1>4, <1>6, <1>7, CommitKeeps DEF Moves
<1>9. /\ run'.state \in {"rejected", "awaiting_approval"} /\ run'.approval = None
      /\ run'.release = run.release /\ run'.plan = run.plan
      /\ run'.simulation = IF b.stage = "simulation" THEN cmd.id ELSE run.simulation
      /\ run'.production = IF b.stage = "production" THEN cmd.id ELSE run.production
  BY <1>7, <1>8 DEF Runs
<1>10. x \in NonceRows /\ x # None /\ x.approval = cmd.id /\ x.binding = b
  <2>1. nonces[cmd.nonce] \in NonceRows
    BY <1>5, <1>6 DEF TypeOK
  <2>2. x \in NonceRows /\ x.approval = cmd.id /\ x.binding = b
    BY <1>1, <1>5, <1>6, <2>1 DEF NonceRows
  <2> QED
    BY <2>2, RowAssumption
<1>11. y \in Decisions /\ y # None /\ y.nonce = cmd.nonce /\ y.binding = b
  BY <1>1, <1>2, <1>6, RowAssumption DEF Decisions
<1>12. TypeOK'
  BY <1>3, <1>6, <1>8, <1>10, <1>11 DEF TypeOK, Books
<1>13. Life'
  BY <1>5, <1>8, <1>9 DEF Life
<1>14. ~Sealed /\ ~Sealed'
  BY <1>3, <1>5 DEF SealAtomic, Sealed
<1>15. Staged' /\ SealAtomic' /\ SealEarned' /\ SuccessEarned'
  <2>1. run.release = None
    BY <1>14 DEF SuccessEarned
  <2> QED
    BY <1>3, <1>9, <1>14, <2>1 DEF Staged, SealAtomic, SealEarned, SuccessEarned, Sealed
<1>16. /\ \A m \in Nonces : nonces'[m] = IF m = cmd.nonce THEN x ELSE nonces[m]
       /\ \A a \in ApprovalIds : approvals'[a] = IF a = cmd.id THEN y ELSE approvals[a]
  BY <1>3 DEF TypeOK
<1>17. Placed'
  <2> SUFFICES ASSUME NEW a \in ApprovalIds, approvals'[a] # None
               PROVE  \/ approvals'[a].binding.stage = "simulation" /\ run'.simulation = a
                      \/ approvals'[a].binding.stage = "production" /\ run'.production = a
    BY DEF Placed
  <2>1. CASE a = cmd.id
    BY <1>2, <1>9, <1>11, <1>16, <2>1 DEF Stages
  <2>2. CASE a # cmd.id
    <3>1. approvals'[a] = approvals[a] /\ a # None
      BY <1>16, <2>2, RunAssumption
    <3> QED
      BY <1>2, <1>5, <1>9, <3>1 DEF Placed, Stages
  <2> QED
    BY <2>1, <2>2
<1>18. NonceSpentOnce'
  <2>1. ASSUME NEW a \in ApprovalIds, approvals'[a] # None
        PROVE  /\ nonces'[approvals'[a].nonce] # None
               /\ nonces'[approvals'[a].nonce].approval = a
               /\ nonces'[approvals'[a].nonce].binding = approvals'[a].binding
    <3>1. CASE a = cmd.id
      BY <1>6, <1>10, <1>11, <1>16, <3>1
    <3>2. CASE a # cmd.id
      <4>1. approvals'[a] = approvals[a] /\ approvals[a] # None /\ a # None
        BY <1>16, <2>1, <3>2, RunAssumption
      <4>2. approvals[a].nonce \in Nonces /\ approvals[a].nonce # cmd.nonce
        BY <1>5, <4>1 DEF NonceSpentOnce, TypeOK, Decisions
      <4> QED
        BY <1>16, <4>1, <4>2 DEF NonceSpentOnce
    <3> QED
      BY <3>1, <3>2
  <2>2. ASSUME NEW n \in Nonces, nonces'[n] # None, nonces'[n].approval # None
        PROVE  approvals'[nonces'[n].approval] # None /\ approvals'[nonces'[n].approval].nonce = n
    <3>1. CASE n = cmd.nonce
      BY <1>6, <1>10, <1>11, <1>16, <3>1
    <3>2. CASE n # cmd.nonce
      <4>1. nonces'[n] = nonces[n]
        BY <1>16, <3>2
      <4>2. /\ nonces[n].approval \in ApprovalIds /\ approvals[nonces[n].approval] # None
            /\ approvals[nonces[n].approval].nonce = n
        BY <2>2, <4>1 DEF NonceSpentOnce, TypeOK, NonceRows
      <4>3. nonces[n].approval # cmd.id
        BY <1>5, <4>2
      <4> QED
        BY <1>16, <4>1, <4>2, <4>3
    <3> QED
      BY <3>1, <3>2
  <2>3. ASSUME NEW a \in ApprovalIds, NEW c \in ApprovalIds,
               approvals'[a] # None, approvals'[c] # None, a # c
        PROVE  approvals'[a].binding.stage # approvals'[c].binding.stage
    BY <1>17, <2>3 DEF Placed
  <2> QED
    BY <2>1, <2>2, <2>3 DEF NonceSpentOnce
<1> QED
  BY <1>8, <1>12, <1>13, <1>15, <1>17, <1>18 DEF Books

\* AppendSimulationApprovalJournal keeps it.
LEMMA JournalKeeps ==
    ASSUME IndInv, NEW id \in ApprovalIds, NEW source \in Sources,
           AppendSimulationApprovalJournal(id, source)
    PROVE  IndInv'
<1> USE DEF IndInv
<1>1. PICK x : x = [approval |-> id, source |-> source, subject |-> approvals[id].binding.subject]
  OBVIOUS
<1>2. /\ journal' = [journal EXCEPT !["simulation"] = x] /\ journal["simulation"] = None
      /\ approvals[id] # None
      /\ UNCHANGED <<run, nonces, approvals, checkpoint, releases, launch, recon, idem, events>>
  BY <1>1 DEF AppendSimulationApprovalJournal
<1>3. x \in Entries /\ x # None
  BY <1>1, <1>2, RowAssumption DEF Entries, TypeOK, Decisions, Bindings
<1>4. TypeOK'
  BY <1>2, <1>3 DEF TypeOK
<1>5. ~Sealed /\ ~Sealed' /\ journal'["production"] = journal["production"]
  BY <1>2 DEF Staged, Sealed, TypeOK, Stages
<1>6. Staged' /\ SealAtomic' /\ SealEarned' /\ SuccessEarned'
  BY <1>2, <1>5 DEF Staged, SealAtomic, SealEarned, SuccessEarned
<1>7. NonceSpentOnce' /\ Placed'
  BY <1>2, DecisionFrame
<1>8. Books' /\ Life'
  BY <1>2, QuietBooks
<1> QED
  BY <1>4, <1>6, <1>7, <1>8 DEF Books

\* CreateWorkflowCheckpoint keeps it.
LEMMA CheckpointKeeps ==
    ASSUME IndInv, NEW d \in CheckpointDigests, CreateWorkflowCheckpoint(d)
    PROVE  IndInv'
<1> USE DEF IndInv
<1>1. PICK x : x = [revision |-> 1, digest |-> d, plan |-> run.plan, before |-> None,
                    production |-> None]
  OBVIOUS
<1>2. /\ checkpoint' = x /\ checkpoint = None /\ d.phase # "approved_for_execution"
      /\ run.state = "awaiting_approval"
      /\ UNCHANGED <<run, nonces, approvals, journal, releases, launch, recon, idem, events>>
  BY <1>1 DEF CreateWorkflowCheckpoint
<1>3. run.plan \in Digests
  BY <1>2 DEF Life, TypeOK, Runs
<1>4. x \in Checkpoints /\ x.revision = 1 /\ x.digest = d
  BY <1>1, <1>3 DEF Checkpoints
<1>5. TypeOK'
  BY <1>2, <1>4 DEF TypeOK
<1>6. ~Sealed /\ ~Sealed'
  BY <1>2, <1>4 DEF Sealed
<1>7. Staged' /\ SealAtomic' /\ SealEarned' /\ SuccessEarned'
  BY <1>2, <1>4, <1>6 DEF Staged, SealAtomic, SealEarned, SuccessEarned
<1>8. NonceSpentOnce' /\ Placed'
  BY <1>2, DecisionFrame
<1>9. Books' /\ Life'
  BY <1>2, QuietBooks
<1> QED
  BY <1>5, <1>7, <1>8, <1>9 DEF Books

\* The seal: everything that SealEarned asks for is checked in its transaction,
\* against rows that are never written again.
LEMMA SealKeeps ==
    ASSUME IndInv,
           NEW cmd \in [expected : Expected, simulation : ApprovalIds, production : ApprovalIds,
                        checkpoint : UnsealedDigests],
           CommitProductionApprovalSeal(cmd)
    PROVE  IndInv'
<1> USE DEF IndInv
<1>1. PICK row, x, c :
        /\ row = [run EXCEPT !.state = "approved", !.approval = cmd.production]
        /\ x = [approval |-> cmd.production, source |-> checkpoint.digest.source,
                subject |-> approvals[cmd.production].binding.subject]
        /\ c = [checkpoint EXCEPT !.revision = @ + 1, !.digest.phase = "approved_for_execution",
                                  !.before = checkpoint.digest, !.production = cmd.production]
  OBVIOUS
<1>2. /\ Commit("production-seal.commit", cmd, row, "checkpoint.sealed")
      /\ "production-seal.commit" \in Operations
      /\ journal' = [journal EXCEPT !["production"] = x] /\ checkpoint' = c
      /\ UNCHANGED <<nonces, approvals, releases, launch, recon>>
  BY <1>1 DEF CommitProductionApprovalSeal, SealJournal, SealCheckpoint, Operations
<1>3. SealAccepted(cmd) /\ cmd.expected = run.revision
  BY <1>2, FreshKey DEF CommitProductionApprovalSeal, Verdict
<1>4. /\ cmd \in Commands /\ cmd.simulation \in ApprovalIds /\ cmd.production \in ApprovalIds
      /\ cmd.checkpoint \in UnsealedDigests /\ cmd.production # None
  BY RunAssumption DEF Commands, Expected
<1>5. /\ row \in Runs /\ row.state = "approved" /\ row.revision = run.revision
      /\ row.approval = cmd.production /\ row.release = run.release /\ row.plan = run.plan
      /\ row.simulation = run.simulation /\ row.production = run.production
  BY <1>1, <1>4 DEF TypeOK, Runs, States
<1>6. /\ Books' /\ run' \in Runs /\ run'.revision # 0
      /\ run' = [row EXCEPT !.revision = run.revision + 1]
  BY <1>2, <1>3, <1>4, <1>5, CommitKeeps DEF Moves
<1>7. /\ run'.state = "approved" /\ run'.approval = cmd.production /\ run'.release = run.release
      /\ run'.plan = run.plan
      /\ run'.simulation = run.simulation /\ run'.production = run.production
  BY <1>5, <1>6 DEF Runs
<1>8. /\ checkpoint \in Checkpoints /\ checkpoint.revision = 1
      /\ checkpoint.digest = cmd.checkpoint /\ checkpoint.digest.source \in Sources
  BY <1>3, <1>4 DEF SealAccepted, TypeOK, UnsealedDigests
<1>9. /\ c \in Checkpoints /\ c # None /\ c.revision = 2 /\ c.before = cmd.checkpoint
      /\ c.digest.phase = "approved_for_execution" /\ c.production = cmd.production
  <2>1. PICK g : g = [checkpoint.digest EXCEPT !.phase = "approved_for_execution"]
    OBVIOUS
  <2>2. g \in CheckpointDigests /\ g.phase = "approved_for_execution"
    BY <1>4, <1>8, <2>1 DEF CheckpointDigests, UnsealedDigests, Phases
  <2>3. c = [checkpoint EXCEPT !.revision = 2, !.digest = g, !.before = cmd.checkpoint,
                               !.production = cmd.production]
    <3>1. PICK r1 : r1 = [checkpoint EXCEPT !.revision = checkpoint.revision + 1]
      OBVIOUS
    <3>2. PICK r2 : r2 = [r1 EXCEPT !.digest.phase = "approved_for_execution"]
      OBVIOUS
    <3>3. r1 = [checkpoint EXCEPT !.revision = 2] /\ r1.digest = checkpoint.digest
      BY <1>8, <3>1 DEF Checkpoints
    <3>4. r2 = [r1 EXCEPT !.digest = g]
      BY <2>1, <3>2, <3>3
    <3>5. c = [r2 EXCEPT !.before = checkpoint.digest, !.production = cmd.production]
      BY <1>1, <3>1, <3>2
    <3> QED
      BY <1>8, <3>3, <3>4, <3>5
  <2>4. /\ c \in Checkpoints /\ c.revision = 2 /\ c.before = cmd.checkpoint
        /\ c.digest = g /\ c.production = cmd.production
    BY <1>4, <1>8, <2>2, <2>3 DEF Checkpoints
  <2> QED
    BY <2>2, <2>4, RowAssumption
<1>10. /\ x \in Entries /\ x # None /\ x.approval = cmd.production
       /\ x.source = checkpoint.digest.source
  <2>1. approvals[cmd.production].binding.subject \in Digests
    BY <1>3, <1>4 DEF SealAccepted, Covers, TypeOK, Decisions, Bindings
  <2> QED
    BY <1>1, <1>4, <1>8, <2>1, RowAssumption DEF Entries
<1>11. journal'["production"] = x /\ journal'["simulation"] = journal["simulation"]
  BY <1>2 DEF TypeOK, Stages
<1>12. TypeOK'
  BY <1>2, <1>6, <1>9, <1>10 DEF TypeOK, Books
<1>13. Life'
  BY <1>6, <1>7 DEF Life
<1>14. Sealed' /\ ~Sealed
  BY <1>2, <1>3, <1>9 DEF Sealed, SealAccepted
<1>15. Staged' /\ SealAtomic'
  <2>1. run.plan # None
    BY <1>3 DEF SealAccepted, Life
  <2> QED
    BY <1>2, <1>3, <1>4, <1>7, <1>9, <1>10, <1>11, <1>14, <2>1
       DEF Staged, SealAtomic, SealAccepted
<1>16. SealEarned'
  BY <1>2, <1>3, <1>7, <1>8, <1>9, <1>11 DEF SealEarned, SealAccepted, Covers
<1>17. SuccessEarned'
  <2>1. run.release = None
    BY <1>14 DEF SuccessEarned
  <2> QED
    BY <1>2, <1>7, <2>1 DEF SuccessEarned
<1>18. NonceSpentOnce' /\ Placed'
  BY <1>2, <1>7, DecisionFrame
<1> QED
  BY <1>6, <1>12, <1>13, <1>15, <1>16, <1>17, <1>18 DEF Books

\* CreateRelease keeps it.
LEMMA ReleaseKeeps ==
    ASSUME IndInv,
           NEW cmd \in [expected : Expected, release : Releases, approval : ApprovalIds,
                        subject : Digests],
           CreateRelease(cmd)
    PROVE  IndInv'
<1> USE DEF IndInv
<1>1. PICK row, x : /\ row = [run EXCEPT !.release = cmd.release]
                    /\ x = [approval |-> cmd.approval, subject |-> cmd.subject]
  OBVIOUS
<1>2. /\ Commit("release.create", cmd, row, "release.created") /\ "release.create" \in Operations
      /\ releases' = [releases EXCEPT ![cmd.release] = x]
      /\ UNCHANGED <<nonces, approvals, journal, checkpoint, launch, recon>>
  BY <1>1 DEF CreateRelease, Operations
<1>3. ReleaseAccepted(cmd) /\ cmd.expected = run.revision
  BY <1>2, FreshKey DEF CreateRelease, Verdict
<1>4. /\ cmd \in Commands /\ cmd.release \in Releases /\ cmd.release # None
      /\ x \in ReleaseRows
  BY <1>1, RunAssumption DEF Commands, Expected, ReleaseRows
<1>5. /\ row \in Runs /\ row.state = "approved" /\ row.revision = run.revision
      /\ row.release = cmd.release /\ row.plan = run.plan /\ row.approval = run.approval
      /\ row.simulation = run.simulation /\ row.production = run.production
  BY <1>1, <1>3, <1>4 DEF TypeOK, Runs, ReleaseAccepted
<1>6. /\ Books' /\ run' \in Runs /\ run'.revision # 0
      /\ run' = [row EXCEPT !.revision = run.revision + 1]
  BY <1>2, <1>3, <1>4, <1>5, CommitKeeps DEF Moves
<1>7. /\ run'.state = "approved" /\ run'.approval = run.approval /\ run'.release = cmd.release
      /\ run'.plan = run.plan
      /\ run'.simulation = run.simulation /\ run'.production = run.production
  BY <1>5, <1>6 DEF Runs
<1>8. TypeOK'
  BY <1>2, <1>4, <1>6 DEF TypeOK, Books
<1>9. Life'
  BY <1>6, <1>7 DEF Life
<1>10. Sealed /\ Sealed'
  BY <1>2, <1>3 DEF SealAtomic, ReleaseAccepted, Sealed
<1>11. Staged' /\ SealAtomic' /\ SealEarned'
  BY <1>2, <1>7, <1>10 DEF Staged, SealAtomic, SealEarned
<1>12. SuccessEarned'
  <2>1. /\ run.approval = run.production /\ run.approval = cmd.approval
        /\ run.plan = cmd.subject /\ run.release = None
        /\ approvals[cmd.approval].binding.subject = cmd.subject
    BY <1>3, <1>10 DEF SealAtomic, ReleaseAccepted
  <2>2. launch = None
    BY <2>1, RunAssumption DEF SuccessEarned, TypeOK, LaunchFacts
  <2>3. releases'[cmd.release] = x
    BY <1>2, <1>4 DEF TypeOK
  <2> QED
    BY <1>1, <1>2, <1>7, <1>10, <2>1, <2>2, <2>3 DEF SuccessEarned
<1>13. NonceSpentOnce' /\ Placed'
  BY <1>2, <1>7, DecisionFrame
<1> QED
  BY <1>6, <1>8, <1>9, <1>11, <1>12, <1>13 DEF Books

\* RecordLaunchResult keeps it.
LEMMA LaunchKeeps ==
    ASSUME IndInv, NEW fact \in LaunchFacts, RecordLaunchResult(fact)
    PROVE  IndInv'
<1> USE DEF IndInv
<1>1. /\ launch' = fact /\ events' = Append(events, Event("launch.recorded", run))
      /\ UNCHANGED <<run, nonces, approvals, journal, checkpoint, releases, recon, idem>>
  BY DEF RecordLaunchResult
<1>2. /\ run.release = fact.release /\ run.state \in {"approved", "running"} /\ launch = None
  BY DEF RecordLaunchResult, LaunchVerdict, Recorded
<1>3. Books' /\ Life'
  BY <1>1, <1>2, FactKeeps DEF Facts
<1>4. TypeOK'
  BY <1>1, <1>3 DEF TypeOK, Books
<1>5. Staged' /\ SealAtomic' /\ SealEarned' /\ SuccessEarned'
  BY <1>1, <1>2 DEF Staged, SealAtomic, SealEarned, SuccessEarned, Sealed
<1>6. NonceSpentOnce' /\ Placed'
  BY <1>1, DecisionFrame
<1> QED
  BY <1>3, <1>4, <1>5, <1>6 DEF Books

\* RecordReconciliation keeps it.
LEMMA ReconciliationKeeps ==
    ASSUME IndInv, NEW fact \in ReconciliationFacts, RecordReconciliation(fact)
    PROVE  IndInv'
<1> USE DEF IndInv
<1>1. /\ recon' = fact /\ events' = Append(events, Event("reconciliation.recorded", run))
      /\ UNCHANGED <<run, nonces, approvals, journal, checkpoint, releases, launch, idem>>
  BY DEF RecordReconciliation
<1>2. /\ run.release = fact.release /\ recon = None
      /\ launch # None /\ launch.key = fact.key /\ launch.status = "launched"
  BY DEF RecordReconciliation, ReconciliationVerdict, Recorded
<1>3. run.state # "absent"
  BY <1>2, RunAssumption DEF Life, ReconciliationFacts
<1>4. Books' /\ Life'
  BY <1>1, <1>3, FactKeeps DEF Facts
<1>5. TypeOK'
  BY <1>1, <1>4 DEF TypeOK, Books
<1>6. Staged' /\ SealAtomic' /\ SealEarned' /\ SuccessEarned'
  BY <1>1, <1>2 DEF Staged, SealAtomic, SealEarned, SuccessEarned, Sealed
<1>7. NonceSpentOnce' /\ Placed'
  BY <1>1, DecisionFrame
<1> QED
  BY <1>4, <1>5, <1>6, <1>7 DEF Books

-----------------------------------------------------------------------------
\* Every step keeps the invariant.
LEMMA StepKeeps == IndInv /\ [Next]_vars => IndInv'
<1> SUFFICES ASSUME IndInv, [Next]_vars PROVE IndInv'
  OBVIOUS
<1>1. CASE CreateRun([expected |-> 0])
  BY <1>1, CreateKeeps
<1>2. CASE \E cmd \in [expected : Expected, to : States, plan : Digests \cup {None}] :
             TransitionRun(cmd)
  BY <1>2, TransitionKeeps
<1>3. CASE \E n \in Nonces, b \in Bindings : RegisterApprovalNonce(n, b)
  BY <1>3, RegisterKeeps
<1>4. CASE \E n \in Nonces : NonceExpires(n)
  BY <1>4, ExpiryKeeps
<1>5. CASE \E cmd \in [expected : Expected, id : ApprovalIds, nonce : Nonces, binding : Registered,
                       decision : {"approve", "reject"}] : RecordApproval(cmd)
  BY <1>5, DecisionKeeps
<1>6. CASE \E id \in ApprovalIds, s \in Sources : AppendSimulationApprovalJournal(id, s)
  BY <1>6, JournalKeeps
<1>7. CASE \E d \in CheckpointDigests : CreateWorkflowCheckpoint(d)
  BY <1>7, CheckpointKeeps
<1>8. CASE \E cmd \in [expected : Expected, simulation : ApprovalIds, production : ApprovalIds,
                       checkpoint : UnsealedDigests] : CommitProductionApprovalSeal(cmd)
  BY <1>8, SealKeeps
<1>9. CASE \E cmd \in [expected : Expected, release : Releases, approval : ApprovalIds,
                       subject : Digests] : CreateRelease(cmd)
  BY <1>9, ReleaseKeeps
<1>10. CASE \E fact \in LaunchFacts : RecordLaunchResult(fact)
  BY <1>10, LaunchKeeps
<1>11. CASE \E fact \in ReconciliationFacts : RecordReconciliation(fact)
  BY <1>11, ReconciliationKeeps
<1>12. CASE UNCHANGED vars
  <2>1. UNCHANGED <<run, nonces, approvals, journal, checkpoint, releases, launch, recon,
                    idem, events>>
    BY <1>12 DEF vars
  <2>2. TypeOK' /\ Books' /\ Life'
    BY <2>1, QuietBooks DEF IndInv, TypeOK
  <2>3. Staged' /\ SealAtomic' /\ SealEarned' /\ SuccessEarned'
    BY <2>1, SealFrame
  <2>4. NonceSpentOnce' /\ Placed'
    BY <2>1, DecisionFrame
  <2> QED
    BY <2>2, <2>3, <2>4 DEF IndInv, Books
<1> QED
  BY <1>1, <1>2, <1>3, <1>4, <1>5, <1>6, <1>7, <1>8, <1>9, <1>10, <1>11, <1>12 DEF Next

\* The invariant holds in every reachable state.
LEMMA Inductive == Spec => []IndInv
  BY InitInv, StepKeeps, PTL DEF Spec

\* Whatever is sent and however often, the run is approved only by the seal,
\* the seal is earned by two decisions on the checkpoint and plan it seals, and
\* success rests on a verified reconciliation of the release it led to.
THEOREM SealIsSound == Spec => []SealSound
<1>1. IndInv => SealSound
  BY DEF IndInv, SealSound
<1> QED
  BY <1>1, Inductive, PTL

\* Nonces agree with decisions, events with the run, and stored results with
\* the events and commands they answer.
THEOREM RecordsDoAgree == Spec => []RecordsAgree
<1>1. ASSUME IndInv PROVE AnswersStand
  <2> SUFFICES ASSUME NEW op \in Operations, NEW k \in DOMAIN idem[op]
               PROVE  /\ Verdict(op, k, idem[op][k].cmd, FALSE) = "replayed"
                      /\ \A other \in DOMAIN idem[op] :
                           other # k => Verdict(op, k, idem[op][other].cmd, TRUE) = "reused"
    BY <1>1 DEF IndInv, Answered, Reply, AnswersStand
  <2>1. Verdict(op, k, idem[op][k].cmd, FALSE) = "replayed"
    BY DEF Verdict
  <2>2. ASSUME NEW other \in DOMAIN idem[op], other # k
        PROVE  Verdict(op, k, idem[op][other].cmd, TRUE) = "reused"
    <3>1. idem[op][k].cmd # idem[op][other].cmd
      BY <1>1, <2>2 DEF IndInv, Answered, Reply
    <3> QED
      BY <3>1 DEF Verdict
  <2> QED
    BY <2>1, <2>2
<1>2. IndInv => RecordsAgree
  BY <1>1 DEF IndInv, RecordsAgree
<1> QED
  BY <1>2, Inductive, PTL

-----------------------------------------------------------------------------
\* The parts of FactsStand: what a step leaves of the run, and of the rest.
RunStands ==
    /\ run.state \in Terminal => run' = run
    /\ run.plan # None => run'.plan = run.plan
    /\ run.simulation # None => run'.simulation = run.simulation
    /\ run.production # None => run'.production = run.production
    /\ run.release # None => run'.release = run.release

RowsStand ==
    /\ \A a \in ApprovalIds : approvals[a] # None => approvals'[a] = approvals[a]
    /\ \A s \in Stages : journal[s] # None => journal'[s] = journal[s]
    /\ Sealed => checkpoint' = checkpoint
    /\ launch # None => launch' = launch
    /\ recon # None => recon' = recon
    /\ \A n \in Nonces :
         nonces[n] # None /\ (nonces[n].expired \/ nonces[n].approval # None) =>
           nonces'[n].approval = nonces[n].approval

\* A committed row differs from the run by what the command set in it.
LEMMA CommittedRun ==
    ASSUME IndInv, NEW op, NEW cmd, NEW row, NEW type, Commit(op, cmd, row, type), row \in Runs
    PROVE  /\ run'.plan = row.plan /\ run'.simulation = row.simulation
           /\ run'.production = row.production /\ run'.release = row.release
  BY DEF Commit, Runs

\* A command that writes none of the recorded rows lets them stand.
LEMMA RowsFrame ==
    ASSUME UNCHANGED <<nonces, approvals, journal, checkpoint, launch, recon>>
    PROVE  RowsStand
  BY DEF RowsStand

\* Commands that move the run rewrite no recorded fact.
LEMMA MoveStands ==
    ASSUME IndInv,
           \/ CreateRun([expected |-> 0])
           \/ \E cmd \in [expected : Expected, to : States, plan : Digests \cup {None}] :
                TransitionRun(cmd)
           \/ \E cmd \in [expected : Expected, release : Releases, approval : ApprovalIds,
                          subject : Digests] : CreateRelease(cmd)
    PROVE  RunStands /\ RowsStand
<1> USE DEF IndInv
<1>1. CASE CreateRun([expected |-> 0])
  <2>1. PICK cmd, row : cmd = [expected |-> 0] /\ row = [run EXCEPT !.state = "created"]
    OBVIOUS
  <2>2. /\ Commit("run.create", cmd, row, "run.created") /\ "run.create" \in Operations
        /\ UNCHANGED <<nonces, approvals, journal, checkpoint, launch, recon>>
    BY <1>1, <2>1 DEF CreateRun, Operations
  <2>3. run.state = "absent"
    BY <1>1, <2>2, FreshKey DEF CreateRun, Verdict, Life
  <2>4. row \in Runs /\ row.plan = run.plan /\ row.simulation = run.simulation
        /\ row.production = run.production /\ row.release = run.release
    BY <2>1 DEF TypeOK, Runs, States
  <2> QED
    BY <2>2, <2>3, <2>4, CommittedRun, RowsFrame DEF RunStands, Terminal
<1>2. ASSUME NEW cmd \in [expected : Expected, to : States, plan : Digests \cup {None}],
             TransitionRun(cmd)
      PROVE  RunStands /\ RowsStand
  <2>1. PICK row : row = [run EXCEPT !.state = cmd.to,
                                     !.plan = IF cmd.plan = None THEN @ ELSE cmd.plan]
    OBVIOUS
  <2>2. /\ Commit("run.transition", cmd, row, "run.transitioned")
        /\ "run.transition" \in Operations
        /\ UNCHANGED <<nonces, approvals, journal, checkpoint, launch, recon>>
    BY <1>2, <2>1 DEF TransitionRun, Operations
  <2>3. TransitionAccepted(cmd)
    BY <1>2, <2>2, FreshKey DEF TransitionRun, Verdict
  <2>4. /\ row \in Runs /\ row.simulation = run.simulation
        /\ row.production = run.production /\ row.release = run.release
        /\ row.plan = IF cmd.plan = None THEN run.plan ELSE cmd.plan
    BY <2>1 DEF TypeOK, Runs
  <2> QED
    BY <2>2, <2>3, <2>4, CommittedRun, RowsFrame DEF RunStands, TransitionAccepted
<1>3. ASSUME NEW cmd \in [expected : Expected, release : Releases, approval : ApprovalIds,
                          subject : Digests], CreateRelease(cmd)
      PROVE  RunStands /\ RowsStand
  <2>1. PICK row : row = [run EXCEPT !.release = cmd.release]
    OBVIOUS
  <2>2. /\ Commit("release.create", cmd, row, "release.created") /\ "release.create" \in Operations
        /\ UNCHANGED <<nonces, approvals, journal, checkpoint, launch, recon>>
    BY <1>3, <2>1 DEF CreateRelease, Operations
  <2>3. ReleaseAccepted(cmd)
    BY <1>3, <2>2, FreshKey DEF CreateRelease, Verdict
  <2>4. /\ row \in Runs /\ row.simulation = run.simulation /\ row.plan = run.plan
        /\ row.production = run.production
    BY <2>1 DEF TypeOK, Runs
  <2> QED
    BY <2>2, <2>3, <2>4, CommittedRun, RowsFrame DEF RunStands, ReleaseAccepted, Terminal
<1> QED
  BY <1>1, <1>2, <1>3

\* Nor does RecordApproval, which only adds a decision under a new id.
LEMMA DecisionStands ==
    ASSUME IndInv,
           NEW cmd \in [expected : Expected, id : ApprovalIds, nonce : Nonces, binding : Registered,
                        decision : {"approve", "reject"}],
           RecordApproval(cmd)
    PROVE  RunStands /\ RowsStand
<1> USE DEF IndInv
<1>1. PICK b, op, row :
        /\ b = cmd.binding /\ op = RecordOperation(b.stage)
        /\ row = [run EXCEPT !.state = IF cmd.decision = "reject" THEN "rejected" ELSE @,
                             !.simulation = IF b.stage = "simulation" THEN cmd.id ELSE @,
                             !.production = IF b.stage = "production" THEN cmd.id ELSE @]
  OBVIOUS
<1>2. /\ op \in Operations /\ Commit(op, cmd, row, "approval.recorded")
      /\ nonces' = [nonces EXCEPT ![cmd.nonce].approval = cmd.id]
      /\ \A a \in ApprovalIds : a # cmd.id => approvals'[a] = approvals[a]
      /\ UNCHANGED <<journal, checkpoint, launch, recon>>
  BY <1>1 DEF RecordApproval, RecordOperation, Operations, TypeOK
<1>3. ApprovalAccepted(cmd)
  BY <1>1, <1>2, FreshKey DEF RecordApproval, Verdict
<1>4. /\ row \in Runs /\ row.plan = run.plan /\ row.release = run.release
      /\ row.simulation = IF b.stage = "simulation" THEN cmd.id ELSE run.simulation
      /\ row.production = IF b.stage = "production" THEN cmd.id ELSE run.production
  BY ZenonT(60), <1>1 DEF TypeOK, Runs, States, Terminal
<1>5. b.stage \in Stages
  BY <1>1 DEF Registered, TypeOK, NonceRows, Bindings, Stages
<1>6. RunStands
  <2>1. /\ run.state = "awaiting_approval" /\ run.production = None
        /\ b.stage = "simulation" => run.simulation = None
    BY <1>1, <1>3, <1>5 DEF ApprovalAccepted, FollowsSimulation, Stages
  <2>2. /\ run'.plan = row.plan /\ run'.simulation = row.simulation
        /\ run'.production = row.production /\ run'.release = row.release
    BY <1>2, <1>4, CommittedRun
  <2> QED
    BY <1>4, <1>5, <2>1, <2>2 DEF RunStands, Terminal, Stages
<1>7. \A n \in Nonces : n # cmd.nonce => nonces'[n] = nonces[n]
  BY <1>2 DEF TypeOK
<1>8. approvals[cmd.id] = None /\ nonces[cmd.nonce].approval = None /\ ~nonces[cmd.nonce].expired
  BY <1>3 DEF ApprovalAccepted, NonceUsable
<1>9. RowsStand
  BY <1>2, <1>7, <1>8 DEF RowsStand
<1> QED
  BY <1>6, <1>9

\* Nor does the seal, which moves the checkpoint forward only.
LEMMA SealStands ==
    ASSUME IndInv,
           NEW cmd \in [expected : Expected, simulation : ApprovalIds, production : ApprovalIds,
                        checkpoint : UnsealedDigests],
           CommitProductionApprovalSeal(cmd)
    PROVE  RunStands /\ RowsStand
<1> USE DEF IndInv
<1>1. PICK row : row = [run EXCEPT !.state = "approved", !.approval = cmd.production]
  OBVIOUS
<1>2. /\ Commit("production-seal.commit", cmd, row, "checkpoint.sealed")
      /\ "production-seal.commit" \in Operations
      /\ \A s \in Stages : s # "production" => journal'[s] = journal[s]
      /\ UNCHANGED <<nonces, approvals, launch, recon>>
  BY <1>1 DEF CommitProductionApprovalSeal, SealJournal, Operations, TypeOK
<1>3. SealAccepted(cmd)
  BY <1>2, FreshKey DEF CommitProductionApprovalSeal, Verdict
<1>4. /\ row \in Runs /\ row.plan = run.plan /\ row.release = run.release
      /\ row.simulation = run.simulation /\ row.production = run.production
  BY <1>1 DEF TypeOK, Runs, States
<1>5. RunStands
  BY <1>2, <1>3, <1>4, CommittedRun DEF RunStands, SealAccepted, Terminal
<1>6. ~Sealed /\ journal["production"] = None
  BY <1>3 DEF SealAccepted, SealAtomic
<1>7. RowsStand
  BY <1>2, <1>6 DEF RowsStand
<1> QED
  BY <1>5, <1>7

\* Every other command leaves the run alone and writes where nothing was.
LEMMA NoteStands ==
    ASSUME IndInv,
           \/ \E n \in Nonces, b \in Bindings : RegisterApprovalNonce(n, b)
           \/ \E n \in Nonces : NonceExpires(n)
           \/ \E id \in ApprovalIds, s \in Sources : AppendSimulationApprovalJournal(id, s)
           \/ \E d \in CheckpointDigests : CreateWorkflowCheckpoint(d)
           \/ \E fact \in LaunchFacts : RecordLaunchResult(fact)
           \/ \E fact \in ReconciliationFacts : RecordReconciliation(fact)
    PROVE  RunStands /\ RowsStand
<1> USE DEF IndInv
<1>1. run' = run
  BY DEF RegisterApprovalNonce, NonceExpires, AppendSimulationApprovalJournal,
         CreateWorkflowCheckpoint, RecordLaunchResult, RecordReconciliation
<1>2. RunStands
  BY <1>1 DEF RunStands
<1>3. CASE \E n \in Nonces, b \in Bindings : RegisterApprovalNonce(n, b)
  BY <1>2, <1>3 DEF RegisterApprovalNonce, RowsStand, TypeOK
<1>4. CASE \E n \in Nonces : NonceExpires(n)
  <2>1. PICK n \in Nonces : NonceExpires(n)
    BY <1>4
  <2>2. nonces[n] \in NonceRows /\ nonces' = [nonces EXCEPT ![n] = [nonces[n] EXCEPT !.expired = TRUE]]
    BY <2>1 DEF NonceExpires, TypeOK
  <2>3. \A m \in Nonces : nonces[m] # None => nonces'[m].approval = nonces[m].approval
    BY <2>2 DEF TypeOK, NonceRows
  <2> QED
    BY <1>2, <2>1, <2>3 DEF NonceExpires, RowsStand
<1>5. CASE \E id \in ApprovalIds, s \in Sources : AppendSimulationApprovalJournal(id, s)
  BY <1>2, <1>5 DEF AppendSimulationApprovalJournal, RowsStand, TypeOK
<1>6. CASE \E d \in CheckpointDigests : CreateWorkflowCheckpoint(d)
  BY <1>2, <1>6 DEF CreateWorkflowCheckpoint, RowsStand, Sealed
<1>7. CASE \E fact \in LaunchFacts : RecordLaunchResult(fact)
  BY <1>2, <1>7 DEF RecordLaunchResult, LaunchVerdict, Recorded, RowsStand
<1>8. CASE \E fact \in ReconciliationFacts : RecordReconciliation(fact)
  BY <1>2, <1>8 DEF RecordReconciliation, ReconciliationVerdict, Recorded, RowsStand
<1> QED
  BY <1>2, <1>3, <1>4, <1>5, <1>6, <1>7, <1>8

\* No command, sent at whatever time, moves a run that has ended or rewrites a
\* plan, a decision, a seal or a reported fact.
THEOREM FactsDoStand == Spec => FactsStand
<1>1. ASSUME IndInv, [Next]_vars PROVE [RunStands /\ RowsStand]_vars
  <2> SUFFICES ASSUME Next PROVE RunStands /\ RowsStand
    BY <1>1
  <2> QED
    BY <1>1, MoveStands, DecisionStands, SealStands, NoteStands DEF Next
<1> QED
  BY <1>1, Inductive, PTL DEF Spec, FactsStand, RunStands, RowsStand

=============================================================================
