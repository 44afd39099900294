------------------------- MODULE ControlPlaneProofs -------------------------
(***************************************************************************)
(* Proofs about the portfolio control plane.                                *)
(*                                                                          *)
(* A snapshot is sound when its runs stand where their plans and decisions  *)
(* let them, and when its log tells how they came there.  Every command     *)
(* makes a sound snapshot of a sound one and only adds to it.  The store    *)
(* lets an instance write only on top of what is stored, so what is stored  *)
(* only grows too.                                                          *)
(***************************************************************************)
EXTENDS ControlPlane, FiniteSetTheorems, SequenceTheorems, WellFoundedInduction, TLAPS

-----------------------------------------------------------------------------
(* States and their order. *)

\* A nonempty set of numbers has a least one.
LEMMA LeastNumber ==
    ASSUME NEW T, T \subseteq Nat, T # {}
    PROVE  \E m \in T : \A k \in T : m <= k
<1> DEFINE U == {0 .. n : n \in T}
<1>1. IsWellFoundedOn(StrictSubsetOrdering(Nat), FiniteSubsetsOf(Nat))
  BY FS_StrictSubsetOrderingWellFounded
<1>2. \A n \in Nat : IsFiniteSet(0 .. n)
  BY FS_Interval
<1>3. U \subseteq FiniteSubsetsOf(Nat)
  BY <1>2 DEF FiniteSubsetsOf
<1>4. U # {}
  OBVIOUS
<1> HIDE DEF U
<1>5. PICK x \in U : \A y \in U : <<y, x>> \notin StrictSubsetOrdering(Nat)
  BY <1>1, <1>3, <1>4, WFMin
<1>6. PICK m \in T : x = 0 .. m
  BY DEF U
<1>7. ASSUME NEW k \in T, k < m PROVE FALSE
  <2>1. 0 .. k \in U
    BY DEF U
  <2>2. 0 .. k \subseteq Nat /\ 0 .. m \subseteq Nat
    OBVIOUS
  <2>3. 0 .. k \subseteq 0 .. m /\ 0 .. k # 0 .. m
    BY <1>7
  <2>4. <<0 .. k, x>> \in StrictSubsetOrdering(Nat)
    BY <2>2, <2>3, <1>6 DEF StrictSubsetOrdering
  <2> QED BY <1>5, <2>1, <2>4
<1> QED BY <1>7

\* The rank of each state of progress.
LEMMA Ranks ==
    /\ Rank("created") = 1 /\ Rank("inventorying") = 2 /\ Rank("redacting") = 3
    /\ Rank("planning") = 4 /\ Rank("awaiting_approval") = 5 /\ Rank("approved") = 6
    /\ Rank("executing") = 7 /\ Rank("verifying") = 8 /\ Rank("completed") = 9
<1>1. DOMAIN Progress = 1 .. 9
  BY DEF Progress
<1>2. /\ Progress[1] = "created" /\ Progress[2] = "inventorying" /\ Progress[3] = "redacting"
      /\ Progress[4] = "planning" /\ Progress[5] = "awaiting_approval"
      /\ Progress[6] = "approved" /\ Progress[7] = "executing"
      /\ Progress[8] = "verifying" /\ Progress[9] = "completed"
  BY DEF Progress
<1>3. \A j, k \in 1 .. 9 : Progress[j] = Progress[k] => j = k
  <2>1. \A j \in 1 .. 9 : j = 1 \/ j = 2 \/ j = 3 \/ j = 4 \/ j = 5 \/ j = 6 \/ j = 7
                            \/ j = 8 \/ j = 9
    OBVIOUS
  <2> QED BY <1>2, <2>1
<1>4. \A k \in 1 .. 9 : Rank(Progress[k]) = k
  BY <1>1, <1>3 DEF Rank
<1> QED BY <1>2, <1>4

\* The states, spelled out.
LEMMA StatesAre ==
    States = {"created", "inventorying", "redacting", "planning", "awaiting_approval",
              "approved", "executing", "verifying", "completed", "failed", "cancelled"}
<1>1. DOMAIN Progress = 1 .. 9
  BY DEF Progress
<1>2. /\ Progress[1] = "created" /\ Progress[2] = "inventorying" /\ Progress[3] = "redacting"
      /\ Progress[4] = "planning" /\ Progress[5] = "awaiting_approval"
      /\ Progress[6] = "approved" /\ Progress[7] = "executing"
      /\ Progress[8] = "verifying" /\ Progress[9] = "completed"
  BY DEF Progress
<1>3. \A j \in 1 .. 9 : j = 1 \/ j = 2 \/ j = 3 \/ j = 4 \/ j = 5 \/ j = 6 \/ j = 7
                            \/ j = 8 \/ j = 9
  OBVIOUS
<1> QED BY <1>1, <1>2, <1>3 DEF States, Ended

\* There is a source.
LEMMA SourceHere == Sources # {}
BY ControlPlaneAssumption DEF Sources

\* The steps of AdvanceSource, spelled out.
LEMMA AdvanceStepsAre ==
    /\ DOMAIN AdvanceSteps = {"inventorying", "redacting", "planning", "executing",
                              "verifying", "completed"}
    /\ AdvanceSteps["inventorying"].from = "created"
    /\ AdvanceSteps["inventorying"].type = "source.inventory.started"
    /\ AdvanceSteps["redacting"].from = "inventorying"
    /\ AdvanceSteps["redacting"].type = "source.inventory.completed"
    /\ AdvanceSteps["planning"].from = "redacting"
    /\ AdvanceSteps["planning"].type = "source.redaction.completed"
    /\ AdvanceSteps["executing"].from = "approved"
    /\ AdvanceSteps["executing"].type = "source.execution.started"
    /\ AdvanceSteps["verifying"].from = "executing"
    /\ AdvanceSteps["verifying"].type = "source.execution.completed"
    /\ AdvanceSteps["completed"].from = "verifying"
    /\ AdvanceSteps["completed"].type = "source.verification.completed"
BY DEF AdvanceSteps

\* What the state of a run says of its sources, and the other way round.
LEMMA Derived ==
    ASSUME NEW sources \in [Sources -> SourceRecords]
    PROVE  /\ DeriveRunState(sources) \in States
           /\ DeriveRunState(sources) = "failed" <=> \E s \in Sources : sources[s].state = "failed"
           /\ DeriveRunState(sources) = "cancelled" =>
                \E s \in Sources : sources[s].state = "cancelled"
           /\ DeriveRunState(sources) \notin {"failed", "cancelled"} =>
                /\ \E s \in Sources : sources[s].state = DeriveRunState(sources)
                /\ \A s \in Sources :
                     /\ sources[s].state \notin {"failed", "cancelled"}
                     /\ Rank(DeriveRunState(sources)) <= Rank(sources[s].state)
<1> DEFINE here == {sources[s].state : s \in Sources}
<1>1. here \subseteq States /\ here # {}
  BY SourceHere DEF SourceRecords
<1>2. "failed" \in here <=> \E s \in Sources : sources[s].state = "failed"
  OBVIOUS
<1>3. "cancelled" \in here <=> \E s \in Sources : sources[s].state = "cancelled"
  OBVIOUS
<1>4. DeriveRunState(sources) =
        IF "failed" \in here THEN "failed"
        ELSE IF "cancelled" \in here THEN "cancelled"
        ELSE CHOOSE st \in here : \A o \in here : Rank(st) <= Rank(o)
  BY DEF DeriveRunState
<1>5. \A st \in here : \E s \in Sources : sources[s].state = st
  OBVIOUS
<1>6. \A s \in Sources : sources[s].state \in here
  OBVIOUS
<1> HIDE DEF here
<1>7. CASE "failed" \in here
  BY <1>2, <1>4, <1>7, StatesAre
<1>8. CASE "failed" \notin here /\ "cancelled" \in here
  BY <1>2, <1>3, <1>4, <1>8, StatesAre
<1>9. CASE "failed" \notin here /\ "cancelled" \notin here
  <2> DEFINE T == {Rank(st) : st \in here}
  <2>1. \A st \in here : Rank(st) \in Nat
    BY <1>1, <1>9, StatesAre, Ranks
  <2>2. T \subseteq Nat /\ T # {}
    BY <2>1, <1>1
  <2>3. PICK m \in T : \A k \in T : m <= k
    BY <2>2, LeastNumber
  <2>4. PICK st \in here : m = Rank(st)
    BY <2>3
  <2>5. \A o \in here : Rank(st) <= Rank(o)
    BY <2>3, <2>4
  <2>6. PICK d : d = CHOOSE x \in here : \A o \in here : Rank(x) <= Rank(o)
    OBVIOUS
  <2>7. d \in here /\ \A o \in here : Rank(d) <= Rank(o)
    BY <2>5, <2>6
  <2>8. DeriveRunState(sources) = d
    BY <1>4, <1>9, <2>6
  <2>9. d \in States /\ d \notin {"failed", "cancelled"}
    BY <2>7, <1>1, <1>9
  <2> QED BY <1>2, <1>3, <1>5, <1>6, <1>9, <2>7, <2>8, <2>9
<1> QED BY <1>7, <1>8, <1>9

\* Sources that all stand at the same state put the run there.
LEMMA DerivedAlike ==
    ASSUME NEW sources \in [Sources -> SourceRecords], NEW st \in States,
           \A s \in Sources : sources[s].state = st
    PROVE  DeriveRunState(sources) = st
<1> DEFINE here == {sources[s].state : s \in Sources}
<1>1. here = {st}
  BY SourceHere
<1>2. DeriveRunState(sources) =
        IF "failed" \in here THEN "failed"
        ELSE IF "cancelled" \in here THEN "cancelled"
        ELSE CHOOSE x \in here : \A o \in here : Rank(x) <= Rank(o)
  BY DEF DeriveRunState
<1> HIDE DEF here
<1>3. CASE st = "failed" \/ st = "cancelled"
  BY <1>1, <1>2, <1>3
<1>4. CASE st # "failed" /\ st # "cancelled"
  <2>1. Rank(st) <= Rank(st)
    BY <1>4, StatesAre, Ranks
  <2>2. st = CHOOSE x \in {st} : \A o \in {st} : Rank(x) <= Rank(o)
    BY <2>1
  <2> QED BY <1>1, <1>2, <1>4, <2>2
<1> QED BY <1>3, <1>4

-----------------------------------------------------------------------------
(* The log of one run. *)

\* An event takes one of seven places that each source has in a run, or one of
\* four that the portfolio has.  An end takes the place of the success it excludes.
Slot(e) ==
    IF e.type = "source.failed" THEN <<e.source, "source.verification.completed">>
    ELSE IF e.type \in {"migration.failed", "migration.cancelled"}
      THEN <<None, "migration.completed">>
    ELSE IF e.type = "portfolio.rejected" THEN <<None, "portfolio.approved">>
    ELSE <<e.source, e.type>>

\* What a run that has not ended may have logged, where it stands.
Reached(run, e) ==
    \/ e.type = "migration.created"
    \/ e.type \in {"source.plan.ready", "portfolio.awaiting_approval"} /\ run.plan # None
    \/ e.type = "portfolio.approved" /\ run.approval # None
    \/ \E to \in DOMAIN AdvanceSteps :
         e.type = AdvanceSteps[to].type /\ Rank(to) <= Rank(run.sources[e.source].state)

SoundEvents == {e \in Events : e.source = None <=> e.type \notin SourceEvents}

TellingIn(ev, E, s) ==
    {k \in E : ev[k].source \in {s, None} /\ \E t \in Tells : t[1] = ev[k].type}

\* The last of the events E that tells of source s puts it in state st.
ToldBy(ev, E, s, st) ==
    \E k \in TellingIn(ev, E, s) :
      (\A j \in TellingIn(ev, E, s) : j <= k) /\ <<ev[k].type, st>> \in Tells

LastState(ev, E, st) == \E k \in E : (\A j \in E : j <= k) /\ ev[k].state = st

\* The events E of the log ev are the story of the run.
LogOK(run, ev, E) ==
    /\ \A j, k \in E : Slot(ev[j]) = Slot(ev[k]) => j = k
    /\ run.state \notin Ended => \A k \in E : Reached(run, ev[k])
    /\ \E k \in E : ev[k].type = "migration.created" /\ \A j \in E : k <= j
    /\ \A s \in Sources : ToldBy(ev, E, s, run.sources[s].state)
    /\ LastState(ev, E, run.state)

\* No event that a live run may have logged takes the place of e.
Fresh(run, e) == \A f \in SoundEvents : Reached(run, f) => Slot(f) # Slot(e)

\* The events about one source, spelled out.
LEMMA SourceEventsAre ==
    SourceEvents = {"source.inventory.started", "source.inventory.completed",
                    "source.redaction.completed", "source.execution.started",
                    "source.execution.completed", "source.verification.completed",
                    "source.plan.ready", "source.failed"}
BY AdvanceStepsAre DEF SourceEvents

\* Which event tells of which state, spelled out.
LEMMA TellsAre ==
    Tells = {<<"source.inventory.started", "inventorying">>,
             <<"source.inventory.completed", "redacting">>,
             <<"source.redaction.completed", "planning">>,
             <<"source.execution.started", "executing">>,
             <<"source.execution.completed", "verifying">>,
             <<"source.verification.completed", "completed">>,
             <<"migration.created", "created">>, <<"source.failed", "failed">>,
             <<"portfolio.awaiting_approval", "awaiting_approval">>,
             <<"portfolio.approved", "approved">>, <<"migration.cancelled", "cancelled">>}
<1>1. {<<AdvanceSteps[to].type, to>> : to \in DOMAIN AdvanceSteps} =
        {<<AdvanceSteps[to].type, to>> : to \in {"inventorying", "redacting", "planning",
           "executing", "verifying", "completed"}}
  BY AdvanceStepsAre
<1>2. {<<AdvanceSteps[to].type, to>> : to \in {"inventorying", "redacting", "planning",
           "executing", "verifying", "completed"}} =
        {<<"source.inventory.started", "inventorying">>,
         <<"source.inventory.completed", "redacting">>,
         <<"source.redaction.completed", "planning">>,
         <<"source.execution.started", "executing">>,
         <<"source.execution.completed", "verifying">>,
         <<"source.verification.completed", "completed">>}
  BY AdvanceStepsAre
<1> QED BY <1>1, <1>2 DEF Tells

\* The types that tell of a source, and that each tells of one state.
LEMMA TellsOne ==
    /\ \A type, st, other : <<type, st>> \in Tells /\ <<type, other>> \in Tells => st = other
    /\ \A type, st : <<type, st>> \in Tells => st \in States
    /\ \A type : (\E t \in Tells : t[1] = type) <=>
         type \in {"source.inventory.started", "source.inventory.completed",
                   "source.redaction.completed", "source.execution.started",
                   "source.execution.completed", "source.verification.completed",
                   "migration.created", "source.failed", "portfolio.awaiting_approval",
                   "portfolio.approved", "migration.cancelled"}
<1>1. \A type, st, other : <<type, st>> \in Tells /\ <<type, other>> \in Tells => st = other
  BY TellsAre
<1>2. \A type, st : <<type, st>> \in Tells => st \in States
  BY TellsAre, StatesAre
<1>3. ASSUME NEW type
      PROVE  (\E t \in Tells : t[1] = type) <=>
         type \in {"source.inventory.started", "source.inventory.completed",
                   "source.redaction.completed", "source.execution.started",
                   "source.execution.completed", "source.verification.completed",
                   "migration.created", "source.failed", "portfolio.awaiting_approval",
                   "portfolio.approved", "migration.cancelled"}
  BY TellsAre
<1> QED BY <1>1, <1>2, <1>3

\* New events, all after the run's old ones, continue the story.
LEMMA LogGrows ==
    ASSUME NEW run, NEW ev, NEW E, NEW next, NEW ev2, NEW N, E \subseteq Nat, N \subseteq Nat,
           LogOK(run, ev, E), run.state \notin Ended,
           \A k \in E : ev2[k] = ev[k] /\ ev[k] \in SoundEvents,
           \A j \in E, k \in N : j < k,
           \A j, k \in N : Slot(ev2[j]) = Slot(ev2[k]) => j = k,
           \A k \in N : Fresh(run, ev2[k]),
           next.state \notin Ended =>
             /\ \A k \in N : Reached(next, ev2[k])
             /\ \A e \in SoundEvents : Reached(run, e) => Reached(next, e),
           LastState(ev2, N, next.state),
           \A s \in Sources :
             \/ TellingIn(ev2, N, s) = {} /\ next.sources[s].state = run.sources[s].state
             \/ ToldBy(ev2, N, s, next.sources[s].state)
    PROVE  LogOK(next, ev2, E \cup N)
<1>1. ASSUME NEW j \in E \cup N, NEW k \in E \cup N, Slot(ev2[j]) = Slot(ev2[k]) PROVE j = k
  <2>1. CASE j \in E /\ k \in E
    BY <1>1, <2>1 DEF LogOK
  <2>2. CASE j \in N /\ k \in N
    BY <1>1, <2>2
  <2>3. CASE j \in E /\ k \in N
    BY <1>1, <2>3 DEF LogOK, Fresh
  <2>4. CASE j \in N /\ k \in E
    BY <1>1, <2>4 DEF LogOK, Fresh
  <2> QED BY <2>1, <2>2, <2>3, <2>4
<1>2. next.state \notin Ended => \A k \in E \cup N : Reached(next, ev2[k])
  BY DEF LogOK
<1>3. \E k \in E \cup N : ev2[k].type = "migration.created" /\ \A j \in E \cup N : k <= j
  BY DEF LogOK
<1>4. ASSUME NEW s \in Sources PROVE ToldBy(ev2, E \cup N, s, next.sources[s].state)
  <2>1. TellingIn(ev2, E \cup N, s) = TellingIn(ev, E, s) \cup TellingIn(ev2, N, s)
    BY DEF TellingIn
  <2>2. TellingIn(ev, E, s) \subseteq E /\ TellingIn(ev2, N, s) \subseteq N
    BY DEF TellingIn
  <2>3. ToldBy(ev, E, s, run.sources[s].state)
    BY DEF LogOK
  <2>4. CASE TellingIn(ev2, N, s) = {} /\ next.sources[s].state = run.sources[s].state
    BY <2>1, <2>2, <2>3, <2>4 DEF ToldBy
  <2>5. CASE ToldBy(ev2, N, s, next.sources[s].state)
    <3>1. PICK k \in TellingIn(ev2, N, s) :
            (\A j \in TellingIn(ev2, N, s) : j <= k) /\ <<ev2[k].type, next.sources[s].state>> \in Tells
      BY <2>5 DEF ToldBy
    <3>2. \A j \in TellingIn(ev2, E \cup N, s) : j <= k
      <4>1. k \in Nat /\ \A j \in TellingIn(ev, E, s) : j \in Nat /\ j < k
        BY <2>2, <3>1
      <4>2. \A j \in TellingIn(ev, E, s) : j <= k
        BY <4>1
      <4>3. TellingIn(ev2, E \cup N, s) = TellingIn(ev, E, s) \cup TellingIn(ev2, N, s)
        BY <2>1
      <4> QED BY ONLY <3>1, <4>2, <4>3
    <3> QED BY <2>1, <3>1, <3>2 DEF ToldBy
  <2> QED BY <2>4, <2>5
<1>5. LastState(ev2, E \cup N, next.state)
  <2>1. PICK k \in N : (\A j \in N : j <= k) /\ ev2[k].state = next.state
    BY DEF LastState
  <2>2. \A j \in E \cup N : j <= k
    BY <2>1
  <2> QED BY <2>1, <2>2 DEF LastState
<1> QED BY <1>1, <1>2, <1>3, <1>4, <1>5 DEF LogOK

\* The story of a run is the story of its events, in whatever log they stand.
LEMMA LogStays ==
    ASSUME NEW run, NEW ev, NEW E, NEW ev2, LogOK(run, ev, E), \A k \in E : ev2[k] = ev[k]
    PROVE  LogOK(run, ev2, E)
<1>1. \A s \in Sources : TellingIn(ev2, E, s) = TellingIn(ev, E, s)
  BY DEF TellingIn
<1>2. \A s \in Sources : TellingIn(ev, E, s) \subseteq E
  BY DEF TellingIn
<1>3. \A s \in Sources : ToldBy(ev2, E, s, run.sources[s].state)
  BY <1>1, <1>2 DEF LogOK, ToldBy
<1>4. LastState(ev2, E, run.state)
  BY DEF LogOK, LastState
<1> QED BY <1>3, <1>4 DEF LogOK

-----------------------------------------------------------------------------
(* How many events a run can have. *)

Seven == <<"source.inventory.started", "source.inventory.completed",
           "source.redaction.completed", "source.plan.ready", "source.execution.started",
           "source.execution.completed", "source.verification.completed">>

Four == <<"migration.created", "portfolio.awaiting_approval", "portfolio.approved",
          "migration.completed">>

Places == (Sources \X {Seven[k] : k \in 1 .. 7}) \cup ({None} \X {Four[k] : k \in 1 .. 4})

\* The seven events of a source and the four of a run, spelled out.
LEMMA SevenFour ==
    /\ {Seven[k] : k \in 1 .. 7} =
         {"source.inventory.started", "source.inventory.completed",
          "source.redaction.completed", "source.plan.ready", "source.execution.started",
          "source.execution.completed", "source.verification.completed"}
    /\ {Four[k] : k \in 1 .. 4} =
         {"migration.created", "portfolio.awaiting_approval", "portfolio.approved",
          "migration.completed"}
<1>1. \A j \in 1 .. 7 : j = 1 \/ j = 2 \/ j = 3 \/ j = 4 \/ j = 5 \/ j = 6 \/ j = 7
  OBVIOUS
<1>2. \A j \in 1 .. 4 : j = 1 \/ j = 2 \/ j = 3 \/ j = 4
  OBVIOUS
<1>3. /\ Seven[1] = "source.inventory.started" /\ Seven[2] = "source.inventory.completed"
      /\ Seven[3] = "source.redaction.completed" /\ Seven[4] = "source.plan.ready"
      /\ Seven[5] = "source.execution.started" /\ Seven[6] = "source.execution.completed"
      /\ Seven[7] = "source.verification.completed"
  BY DEF Seven
<1>4. /\ Four[1] = "migration.created" /\ Four[2] = "portfolio.awaiting_approval"
      /\ Four[3] = "portfolio.approved" /\ Four[4] = "migration.completed"
  BY DEF Four
<1>5. {Seven[k] : k \in 1 .. 7} =
         {"source.inventory.started", "source.inventory.completed",
          "source.redaction.completed", "source.plan.ready", "source.execution.started",
          "source.execution.completed", "source.verification.completed"}
  BY <1>1, <1>3
<1>6. {Four[k] : k \in 1 .. 4} =
         {"migration.created", "portfolio.awaiting_approval", "portfolio.approved",
          "migration.completed"}
  BY <1>2, <1>4
<1> QED BY <1>5, <1>6

\* A set that numbers 1 .. n cover has at most n members.
LEMMA Covered ==
    ASSUME NEW n \in Nat, NEW f
    PROVE  /\ IsFiniteSet({f[k] : k \in 1 .. n})
           /\ Cardinality({f[k] : k \in 1 .. n}) <= n
<1> DEFINE T == {f[k] : k \in 1 .. n}
           g == [k \in 1 .. n |-> f[k]]
<1>1. IsFiniteSet(1 .. n) /\ Cardinality(1 .. n) = n
  BY FS_Interval
<1>2. g \in Surjection(1 .. n, T)
  BY DEF Surjection
<1> QED BY <1>1, <1>2, FS_Surjection

\* There are no more sources than the canonical order lists.
LEMMA SourceCount == IsFiniteSet(Sources) /\ Cardinality(Sources) <= Len(Canonical)
<1>1. DOMAIN Canonical = 1 .. Len(Canonical) /\ Len(Canonical) \in Nat
  BY ControlPlaneAssumption
<1>2. Sources = {Canonical[k] : k \in 1 .. Len(Canonical)}
  BY <1>1 DEF Sources
<1> QED BY <1>1, <1>2, Covered

\* A run has at most seven places per source and four more for events.
LEMMA PlacesCount ==
    IsFiniteSet(Places) /\ Cardinality(Places) <= 7 * Len(Canonical) + 4
<1> DEFINE A == {Seven[k] : k \in 1 .. 7}
           B == {Four[k] : k \in 1 .. 4}
<1>1. IsFiniteSet(A) /\ Cardinality(A) <= 7
  BY Covered
<1>2. IsFiniteSet(B) /\ Cardinality(B) <= 4
  BY Covered
<1>3. IsFiniteSet({None}) /\ Cardinality({None}) = 1
  BY FS_Singleton
<1> HIDE DEF A, B
<1>4. /\ IsFiniteSet(Sources \X A)
      /\ Cardinality(Sources \X A) = Cardinality(Sources) * Cardinality(A)
  BY <1>1, SourceCount, FS_Product
<1>5. /\ IsFiniteSet({None} \X B)
      /\ Cardinality({None} \X B) = 1 * Cardinality(B)
  BY <1>2, <1>3, FS_Product
<1>6. /\ IsFiniteSet(Places)
      /\ Cardinality(Places) = Cardinality(Sources \X A) + Cardinality({None} \X B)
                                 - Cardinality((Sources \X A) \cap ({None} \X B))
  BY <1>4, <1>5, FS_Union DEF Places, A, B
<1>7. (Sources \X A) \cap ({None} \X B) \subseteq {None} \X B
  OBVIOUS
<1>8. Cardinality((Sources \X A) \cap ({None} \X B)) \in Nat
  BY <1>5, <1>7, FS_Subset, FS_CardinalityType
<1>9. PICK n, a, b \in Nat : n = Cardinality(Sources) /\ a = Cardinality(A) /\ b = Cardinality(B)
  BY <1>1, <1>2, SourceCount, FS_CardinalityType
<1>10. Len(Canonical) \in Nat
  BY ControlPlaneAssumption
<1>11. n <= Len(Canonical) /\ a <= 7 /\ b <= 4
  BY <1>1, <1>2, <1>9, SourceCount
<1>12. n * a <= 7 * Len(Canonical)
  <2>1. PICK m \in Nat : m = Len(Canonical)
    BY <1>10
  <2>2. a = 0 \/ a = 1 \/ a = 2 \/ a = 3 \/ a = 4 \/ a = 5 \/ a = 6 \/ a = 7
    BY <1>11
  <2> QED BY <1>11, <2>1, <2>2
<1>13. n * a \in Nat
  OBVIOUS
<1> QED BY <1>4, <1>5, <1>6, <1>8, <1>9, <1>10, <1>11, <1>12, <1>13

\* Every event of a sound log has one of these places.
LEMMA SlotPlaces == ASSUME NEW e \in SoundEvents PROVE Slot(e) \in Places
<1>1. /\ e.type \in SourceEvents \cup PortfolioEvents /\ e.source \in Sources \cup {None}
      /\ e.source = None <=> e.type \notin SourceEvents
  BY DEF SoundEvents, Events
<1>2. None \notin Sources
  BY ControlPlaneAssumption
<1>3. e.type \in SourceEvents => e.source \in Sources
  BY <1>1
<1>4. CASE e.type \in SourceEvents
  <2>1. Slot(e)[2] \in {Seven[k] : k \in 1 .. 7} /\ Slot(e) = <<e.source, Slot(e)[2]>>
    BY <1>4, SevenFour, SourceEventsAre DEF Slot
  <2> QED BY <1>3, <1>4, <2>1 DEF Places
<1>5. CASE e.type \notin SourceEvents
  <2>1. Slot(e)[2] \in {Four[k] : k \in 1 .. 4} /\ Slot(e) = <<None, Slot(e)[2]>>
    BY <1>1, <1>5, SevenFour, SourceEventsAre DEF Slot, PortfolioEvents
  <2> QED BY <2>1 DEF Places
<1> QED BY <1>4, <1>5

\* A story has at most one event for each place.
LEMMA LogBounded ==
    ASSUME NEW run, NEW ev, NEW E, LogOK(run, ev, E), \A k \in E : ev[k] \in SoundEvents
    PROVE  Cardinality(E) <= EventLimit
<1> DEFINE f == [k \in E |-> Slot(ev[k])]
<1>1. f \in Injection(E, Places)
  BY SlotPlaces DEF LogOK, Injection, IsInjective
<1>2. Cardinality(E) <= Cardinality(Places) /\ IsFiniteSet(E)
  BY <1>1, PlacesCount, FS_Injection
<1>3. Len(Canonical) \in Nat /\ Cardinality(E) \in Nat /\ Cardinality(Places) \in Nat
  BY <1>2, PlacesCount, FS_CardinalityType, ControlPlaneAssumption
<1> QED BY <1>2, <1>3, PlacesCount, ControlPlaneAssumption

-----------------------------------------------------------------------------
(* The places that are still free. *)

\* The place of an event on the way of a source is its source and type.
LEMMA ReachedPlain ==
    ASSUME NEW run, NEW f, Reached(run, f)
    PROVE  /\ Slot(f) = <<f.source, f.type>>
           /\ f.type \in {"migration.created", "source.plan.ready", "portfolio.awaiting_approval",
                          "portfolio.approved"} \cup {AdvanceSteps[to].type : to \in DOMAIN AdvanceSteps}
<1>1. \A to \in DOMAIN AdvanceSteps :
        AdvanceSteps[to].type \in {"source.inventory.started", "source.inventory.completed",
                    "source.redaction.completed", "source.execution.started",
                    "source.execution.completed", "source.verification.completed"}
  BY AdvanceStepsAre
<1>2. f.type \in {"migration.created", "source.plan.ready", "portfolio.awaiting_approval",
                          "portfolio.approved"} \cup {AdvanceSteps[to].type : to \in DOMAIN AdvanceSteps}
  BY DEF Reached
<1> QED BY <1>1, <1>2 DEF Slot

\* The events of AdvanceSource tell neither of plans nor of decisions.
LEMMA StepOf ==
    ASSUME NEW to \in DOMAIN AdvanceSteps
    PROVE  /\ AdvanceSteps[to].type \in {"source.inventory.started", "source.inventory.completed",
                    "source.redaction.completed", "source.execution.started",
                    "source.execution.completed", "source.verification.completed"}
           /\ AdvanceSteps[to].type = "source.verification.completed" <=> to = "completed"
           /\ \A o \in DOMAIN AdvanceSteps : AdvanceSteps[o].type = AdvanceSteps[to].type => o = to
           /\ Rank(AdvanceSteps[to].from) < Rank(to)
           /\ Rank(to) \in 1 .. 9 /\ Rank(AdvanceSteps[to].from) \in 1 .. 9
<1>1. Rank(to) \in 1 .. 9 /\ Rank(AdvanceSteps[to].from) \in 1 .. 9
  BY AdvanceStepsAre, Ranks
<1>2. Rank(AdvanceSteps[to].from) < Rank(to)
  BY AdvanceStepsAre, Ranks
<1>3. /\ AdvanceSteps[to].type \in {"source.inventory.started", "source.inventory.completed",
                    "source.redaction.completed", "source.execution.started",
                    "source.execution.completed", "source.verification.completed"}
      /\ AdvanceSteps[to].type = "source.verification.completed" <=> to = "completed"
      /\ \A o \in DOMAIN AdvanceSteps : AdvanceSteps[o].type = AdvanceSteps[to].type => o = to
  BY AdvanceStepsAre
<1> QED BY <1>1, <1>2, <1>3

\* A source in the state a step starts from has not told of that step yet.
LEMMA FreshAdvance ==
    ASSUME NEW run, NEW e, NEW to \in DOMAIN AdvanceSteps, e.type = AdvanceSteps[to].type,
           run.sources[e.source].state = AdvanceSteps[to].from
    PROVE  Fresh(run, e)
<1> SUFFICES ASSUME NEW f \in SoundEvents, Reached(run, f), Slot(f) = Slot(e) PROVE FALSE
  BY DEF Fresh
<1>1. Slot(e) = <<e.source, e.type>>
  BY StepOf DEF Slot
<1>2. f.source = e.source /\ f.type = e.type
  BY <1>1, ReachedPlain
<1>3. Rank(to) <= Rank(run.sources[e.source].state)
  BY <1>2, StepOf DEF Reached
<1> QED BY <1>3, StepOf

\* A run without a plan has not told of one yet.
LEMMA FreshPlan ==
    ASSUME NEW run, NEW e, e.type \in {"source.plan.ready", "portfolio.awaiting_approval"},
           run.plan = None
    PROVE  Fresh(run, e)
<1> SUFFICES ASSUME NEW f \in SoundEvents, Reached(run, f), Slot(f) = Slot(e) PROVE FALSE
  BY DEF Fresh
<1>1. Slot(e) = <<e.source, e.type>>
  BY DEF Slot
<1>2. f.type = e.type
  BY <1>1, ReachedPlain
<1> QED BY <1>2, StepOf DEF Reached

\* A run without a decision has not told of one yet.
LEMMA FreshDecision ==
    ASSUME NEW run, NEW e, e.type \in {"portfolio.approved", "portfolio.rejected"}, e.source = None,
           run.approval = None
    PROVE  Fresh(run, e)
<1> SUFFICES ASSUME NEW f \in SoundEvents, Reached(run, f), Slot(f) = Slot(e) PROVE FALSE
  BY DEF Fresh
<1>1. Slot(e) = <<None, "portfolio.approved">>
  BY DEF Slot
<1>2. f.type = "portfolio.approved"
  BY <1>1, ReachedPlain
<1> QED BY <1>2, StepOf DEF Reached

\* A run tells of its end once.
LEMMA FreshEnd ==
    ASSUME NEW run, NEW e, e.source = None,
           e.type \in {"migration.completed", "migration.failed", "migration.cancelled"}
    PROVE  Fresh(run, e)
<1> SUFFICES ASSUME NEW f \in SoundEvents, Reached(run, f), Slot(f) = Slot(e) PROVE FALSE
  BY DEF Fresh
<1>1. Slot(e) = <<None, "migration.completed">>
  BY DEF Slot
<1>2. f.type = "migration.completed"
  BY <1>1, ReachedPlain
<1> QED BY <1>2, StepOf DEF Reached

\* A source that has not ended has not told of its failure yet.
LEMMA FreshFailed ==
    ASSUME NEW run, NEW e, e.type = "source.failed",
           run.sources[e.source].state \in States \ Ended
    PROVE  Fresh(run, e)
<1> SUFFICES ASSUME NEW f \in SoundEvents, Reached(run, f), Slot(f) = Slot(e) PROVE FALSE
  BY DEF Fresh
<1>1. Slot(e) = <<e.source, "source.verification.completed">>
  BY DEF Slot
<1>2. f.type = "source.verification.completed" /\ f.source = e.source
  BY <1>1, ReachedPlain
<1>3. Rank("completed") <= Rank(run.sources[e.source].state)
  BY <1>2, StepOf DEF Reached
<1>4. Rank(run.sources[e.source].state) \in 1 .. 8
  BY StatesAre, Ranks DEF Ended
<1> QED BY <1>3, <1>4, Ranks
-----------------------------------------------------------------------------
(* Sound snapshots. *)

Early == {"created", "inventorying", "redacting", "planning", "failed"}
AtGate == {"awaiting_approval", "failed"}
Behind == {"approved", "executing", "verifying", "completed", "failed"}

\* A run stands where its plan and its decision let it.
StageSound(run) ==
    /\ run.state = DeriveRunState(run.sources)
    /\ run.state = "failed" <=> run.failure # None
    /\ \A s \in Sources : run.sources[s].state = "failed" <=> run.sources[s].failure # None
    /\ run.plan = None => run.approval = None /\ \A s \in Sources : run.sources[s].state \in Early
    /\ run.plan # None =>
         /\ run.plan = PortfolioPlanDigest(run.sources)
         /\ \A s \in Sources : run.sources[s].plan # None
    /\ run.plan # None /\ run.approval = None =>
         \A s \in Sources : run.sources[s].state \in AtGate

\* The decisions ap on run r are the one the run carries, and it stands behind it.
DecisionSound(run, ap, r) ==
    /\ \A a \in ap : a.run = r =>
         /\ run.approval = a.id /\ run.plan = a.plan /\ a.id[1] = r
         /\ a.resulting = Resulting(a.decision)
         /\ \A s \in Sources :
              run.sources[s].state \in IF a.decision = "approve" THEN Behind ELSE {"cancelled"}
    /\ run.approval # None => \E a \in ap : a.run = r /\ a.id = run.approval

RunSound(snap, r) ==
    /\ StageSound(snap.runs[r])
    /\ DecisionSound(snap.runs[r], snap.approvals, r)
    /\ LogOK(snap.runs[r], snap.events, RunEvents(snap, r))

SnapSound(snap) ==
    /\ snap \in SnapshotRecords
    /\ \A k \in DOMAIN snap.events :
         /\ snap.events[k] \in SoundEvents /\ snap.events[k].id[1] = k
         /\ snap.runs[snap.events[k].run] # None
    /\ \A a \in snap.approvals :
         /\ snap.runs[a.run] # None
         /\ \A b \in snap.approvals : a.run = b.run => a = b
    /\ \A r \in RunIds : snap.runs[r] # None => RunSound(snap, r)

\* What a command may do to a run, and to a snapshot.
RunGrown(old, new) ==
    /\ new # None
    /\ \A s \in Sources :
         /\ old.sources[s].plan \in {None, new.sources[s].plan}
         /\ old.sources[s].records <= new.sources[s].records
    /\ old.state \in Ended => new = old

Grown(old, new) ==
    /\ Len(old.events) <= Len(new.events)
    /\ \A k \in DOMAIN old.events : new.events[k] = old.events[k]
    /\ old.approvals \subseteq new.approvals
    /\ \A r \in RunIds : old.runs[r] # None => RunGrown(old.runs[r], new.runs[r])

\* What a snapshot holds.
LEMMA SnapFields ==
    ASSUME NEW snap \in SnapshotRecords
    PROVE  /\ snap.runs \in [RunIds -> RunRecords \cup {None}]
           /\ snap.approvals \subseteq Approvals
           /\ snap.events \in Seq(Events) /\ Len(snap.events) \in Nat
           /\ DOMAIN snap.events = 1 .. Len(snap.events)
           /\ \A k \in DOMAIN snap.events : snap.events[k] \in Events
BY DEF SnapshotRecords

\* What a run holds.
LEMMA RunFields ==
    ASSUME NEW run \in RunRecords
    PROVE  /\ run.name \in Names /\ run.state \in States /\ run.plan \in Plans \cup {None}
           /\ run.failure \in FailureCodes \cup {None} /\ run.approval \in ApprovalIds \cup {None}
           /\ run.sources \in [Sources -> SourceRecords]
           /\ \A s \in Sources :
                /\ run.sources[s] \in SourceRecords /\ run.sources[s].state \in States
                /\ run.sources[s].plan \in Digests \cup {None}
                /\ run.sources[s].failure \in FailureCodes \cup {None}
                /\ run.sources[s].records \in Nat
           /\ run # None
<1>1. Counts \cup {0} \subseteq Nat
  BY ControlPlaneAssumption
<1> QED BY <1>1, NoneAssumption DEF RunRecords, SourceRecords

\* A sound snapshot has grown from itself.
LEMMA GrownSame == ASSUME NEW snap, SnapSound(snap) PROVE Grown(snap, snap)
<1>1. ASSUME NEW r \in RunIds, snap.runs[r] # None PROVE RunGrown(snap.runs[r], snap.runs[r])
  <2>1. snap.runs[r] \in RunRecords
    BY <1>1, SnapFields DEF SnapSound
  <2> QED BY <1>1, <2>1, RunFields DEF RunGrown
<1> QED BY <1>1, SnapFields DEF Grown, SnapSound

\* Growth goes on: what has grown from a grown snapshot has grown from the
\* first.
LEMMA GrownOn ==
    ASSUME NEW a, NEW b, NEW c, SnapSound(a), SnapSound(b), SnapSound(c), Grown(a, b), Grown(b, c)
    PROVE  Grown(a, c)
<1>1. Len(a.events) <= Len(c.events) /\ \A k \in DOMAIN a.events : c.events[k] = a.events[k]
  <2>1. /\ Len(a.events) \in Nat /\ Len(b.events) \in Nat /\ Len(c.events) \in Nat
        /\ DOMAIN a.events = 1 .. Len(a.events) /\ DOMAIN b.events = 1 .. Len(b.events)
    BY SnapFields DEF SnapSound
  <2> QED BY <2>1 DEF Grown
<1>2. ASSUME NEW r \in RunIds, a.runs[r] # None PROVE RunGrown(a.runs[r], c.runs[r])
  <2>1. RunGrown(a.runs[r], b.runs[r])
    BY <1>2 DEF Grown
  <2>2. RunGrown(b.runs[r], c.runs[r])
    BY <1>2, <2>1 DEF Grown, RunGrown
  <2>3. a.runs[r] \in RunRecords /\ b.runs[r] \in RunRecords /\ c.runs[r] \in RunRecords
    <3>1. /\ a.runs[r] \in RunRecords \cup {None} /\ b.runs[r] \in RunRecords \cup {None}
          /\ c.runs[r] \in RunRecords \cup {None}
      <4>1. a \in SnapshotRecords /\ b \in SnapshotRecords /\ c \in SnapshotRecords
        BY DEF SnapSound
      <4> QED BY ONLY <1>2, <4>1, SnapFields
    <3>2. b.runs[r] # None /\ c.runs[r] # None
      BY ONLY <2>1, <2>2 DEF RunGrown
    <3> QED BY ONLY <1>2, <3>1, <3>2
  <2>4. ASSUME NEW s \in Sources
        PROVE  /\ a.runs[r].sources[s].plan \in {None, c.runs[r].sources[s].plan}
               /\ a.runs[r].sources[s].records <= c.runs[r].sources[s].records
    <3>1. /\ a.runs[r].sources[s].records \in Nat /\ b.runs[r].sources[s].records \in Nat
          /\ c.runs[r].sources[s].records \in Nat
      BY <2>3, RunFields
    <3>2. /\ a.runs[r].sources[s].records <= b.runs[r].sources[s].records
          /\ b.runs[r].sources[s].records <= c.runs[r].sources[s].records
      BY <2>1, <2>2 DEF RunGrown
    <3>3. a.runs[r].sources[s].records <= c.runs[r].sources[s].records
      <4>1. \A x, y, z \in Nat : x <= y /\ y <= z => x <= z
        OBVIOUS
      <4> QED BY <3>1, <3>2, <4>1
    <3>4. /\ a.runs[r].sources[s].plan \in {None, b.runs[r].sources[s].plan}
          /\ b.runs[r].sources[s].plan \in {None, c.runs[r].sources[s].plan}
      BY <2>1, <2>2 DEF RunGrown
    <3> QED BY ONLY <3>3, <3>4
  <2>5. a.runs[r].state \in Ended => c.runs[r] = a.runs[r]
    BY <2>1, <2>2 DEF RunGrown
  <2> QED BY <2>2, <2>4, <2>5 DEF RunGrown
<1> QED BY <1>1, <1>2 DEF Grown

-----------------------------------------------------------------------------
(* Commands. *)

\* A sound snapshot is one that validates, and in which nothing is executed
\* without the decision that approved it.
LEMMA SoundIsValid == ASSUME NEW snap, SnapSound(snap) PROVE ValidSnapshot(snap)
<1>0. snap \in SnapshotRecords
  BY DEF SnapSound
<1>1. ASSUME NEW r \in RunIds, snap.runs[r] # None PROVE ValidRun(snap.runs[r])
  <2>1. PICK run : run = snap.runs[r]
    OBVIOUS
  <2>2. run \in RunRecords /\ StageSound(run)
    BY <1>0, <1>1, <2>1, SnapFields DEF SnapSound, RunSound
  <2>3. run.state \notin {"failed", "cancelled"} /\ Rank(run.state) >= Rank("awaiting_approval")
          => run.plan # None
    <3> SUFFICES ASSUME run.state \notin {"failed", "cancelled"},
                        Rank(run.state) >= Rank("awaiting_approval"), run.plan = None
                 PROVE  FALSE
      OBVIOUS
    <3>1. PICK s \in Sources : run.sources[s].state = run.state
      BY <2>2, Derived, RunFields DEF StageSound
    <3>2. run.state \in Early
      BY <2>2, <3>1 DEF StageSound
    <3> QED BY <3>2, Ranks DEF Early
  <2> QED BY <2>1, <2>2, <2>3 DEF ValidRun, StageSound
<1>2. ValidApprovals(snap)
  <2>1. ASSUME NEW a \in snap.approvals
        PROVE  /\ \A b \in snap.approvals : a.id = b.id \/ a.run = b.run => a = b
               /\ snap.runs[a.run] # None
               /\ snap.runs[a.run].approval = a.id /\ snap.runs[a.run].plan = a.plan
               /\ a.resulting = IF a.decision = "approve" THEN "approved" ELSE "cancelled"
    <3>1. \A b \in snap.approvals :
            b.run \in RunIds /\ DecisionSound(snap.runs[b.run], snap.approvals, b.run)
      BY <1>0, SnapFields DEF SnapSound, RunSound, Approvals
    <3>2. \A b \in snap.approvals : b.id[1] = b.run
      BY <3>1 DEF DecisionSound
    <3> QED BY <3>1, <3>2 DEF SnapSound, DecisionSound, Resulting
  <2>2. \A r \in RunIds :
         snap.runs[r] # None /\ snap.runs[r].approval # None =>
           \E a \in snap.approvals : a.run = r /\ a.id = snap.runs[r].approval
    BY DEF SnapSound, RunSound, DecisionSound
  <2> QED BY <2>1, <2>2 DEF ValidApprovals
<1>3. ValidEvents(snap)
  <2>1. \A i, j \in DOMAIN snap.events : snap.events[i].id = snap.events[j].id => i = j
    BY DEF SnapSound
  <2>2. \A k \in DOMAIN snap.events :
         /\ snap.runs[snap.events[k].run] # None
         /\ snap.events[k].source = None <=> snap.events[k].type \notin SourceEvents
    BY DEF SnapSound, SoundEvents
  <2>3. ASSUME NEW r \in RunIds, snap.runs[r] # None
        PROVE  /\ Cardinality(RunEvents(snap, r)) <= EventLimit
               /\ \E k \in RunEvents(snap, r) :
                    /\ snap.events[k].type = "migration.created"
                    /\ \A j \in RunEvents(snap, r) : k <= j
    <3>1. LogOK(snap.runs[r], snap.events, RunEvents(snap, r))
      BY <2>3 DEF SnapSound, RunSound
    <3>2. \A k \in RunEvents(snap, r) : snap.events[k] \in SoundEvents
      BY DEF SnapSound, RunEvents
    <3>3. Cardinality(RunEvents(snap, r)) <= EventLimit
      BY <3>1, <3>2, LogBounded
    <3> QED BY <3>1, <3>3 DEF LogOK
  <2> QED BY <2>1, <2>2, <2>3 DEF ValidEvents
<1> QED BY <1>1, <1>2, <1>3 DEF ValidSnapshot

\* A command that changes run r, and leaves its story sound, leaves a sound
\* snapshot that only adds to the one before.
LEMMA CommandSound ==
    ASSUME NEW snap, SnapSound(snap), NEW r \in RunIds, NEW run \in RunRecords,
           NEW next \in SnapshotRecords,
           \A q \in RunIds : next.runs[q] = IF q = r THEN run ELSE snap.runs[q],
           snap.approvals \subseteq next.approvals,
           \A a \in next.approvals : a.run # r => a \in snap.approvals,
           \A a, b \in next.approvals : a.run = r /\ b.run = r => a = b,
           Len(snap.events) <= Len(next.events),
           \A k \in DOMAIN snap.events : next.events[k] = snap.events[k],
           \A k \in DOMAIN next.events \ DOMAIN snap.events :
             /\ next.events[k] \in SoundEvents /\ next.events[k].id[1] = k
             /\ next.events[k].run = r,
           StageSound(run), DecisionSound(run, next.approvals, r),
           LogOK(run, next.events, RunEvents(next, r)),
           snap.runs[r] # None => RunGrown(snap.runs[r], run)
    PROVE  SnapSound(next) /\ Grown(snap, next)
<1>0. snap \in SnapshotRecords /\ run # None
  BY RunFields DEF SnapSound
<1>1. /\ DOMAIN snap.events \subseteq DOMAIN next.events
      /\ \A q \in RunIds : snap.runs[q] \in RunRecords \cup {None}
  BY <1>0, SnapFields
<1>2. ASSUME NEW k \in DOMAIN next.events
      PROVE  /\ next.events[k] \in SoundEvents /\ next.events[k].id[1] = k
             /\ next.runs[next.events[k].run] # None
  <2>1. CASE k \in DOMAIN snap.events
    <3>1. /\ next.events[k] = snap.events[k] /\ snap.events[k] \in SoundEvents
          /\ snap.events[k].id[1] = k /\ snap.runs[snap.events[k].run] # None
      BY <2>1 DEF SnapSound
    <3>2. snap.events[k].run \in RunIds
      BY <3>1 DEF SoundEvents, Events
    <3> QED BY <1>0, <3>1, <3>2
  <2>2. CASE k \notin DOMAIN snap.events
    BY <1>0, <2>2
  <2> QED BY <2>1, <2>2
<1>3. ASSUME NEW a \in next.approvals
      PROVE  /\ next.runs[a.run] # None
             /\ \A b \in next.approvals : a.run = b.run => a = b
  <2>1. a.run \in RunIds
    BY SnapFields DEF Approvals
  <2>2. CASE a.run = r
    BY <1>0, <2>2
  <2>3. CASE a.run # r
    BY <2>1, <2>3 DEF SnapSound
  <2> QED BY <2>2, <2>3
<1>4. ASSUME NEW q \in RunIds, next.runs[q] # None PROVE RunSound(next, q)
  <2>1. CASE q = r
    BY <2>1 DEF RunSound
  <2>2. CASE q # r
    <3>1. next.runs[q] = snap.runs[q] /\ RunSound(snap, q)
      BY <1>4, <2>2 DEF SnapSound
    <3>2. \A a : a.run = q => (a \in next.approvals <=> a \in snap.approvals)
      BY <2>2
    <3>3. DecisionSound(next.runs[q], next.approvals, q)
      BY <3>1, <3>2 DEF RunSound, DecisionSound
    <3>4. RunEvents(next, q) = RunEvents(snap, q)
      BY <1>1, <2>2 DEF RunEvents
    <3>5. \A k \in RunEvents(snap, q) : next.events[k] = snap.events[k]
      BY DEF RunEvents
    <3>6. LogOK(next.runs[q], next.events, RunEvents(next, q))
      BY <3>1, <3>4, <3>5, LogStays DEF RunSound
    <3> QED BY <3>1, <3>3, <3>6 DEF RunSound
  <2> QED BY <2>1, <2>2
<1>5. SnapSound(next)
  BY <1>2, <1>3, <1>4 DEF SnapSound
<1>6. Grown(snap, next)
  <2>1. Grown(snap, snap)
    BY GrownSame
  <2>2. \A q \in RunIds : snap.runs[q] # None => RunGrown(snap.runs[q], next.runs[q])
    BY <2>1 DEF Grown
  <2> QED BY <2>2 DEF Grown
<1> QED BY <1>5, <1>6


\* What a concatenation holds at each index.
LEMMA InARow ==
    ASSUME NEW S, NEW s \in Seq(S), NEW t \in Seq(S), NEW m, NEW n, m = Len(s), n = Len(t)
    PROVE  /\ s \o t \in Seq(S) /\ Len(s \o t) = m + n /\ DOMAIN (s \o t) = 1 .. (m + n)
           /\ \A k \in 1 .. m : (s \o t)[k] = s[k]
           /\ \A k \in (m + 1) .. (m + n) : (s \o t)[k] = t[k - m]
<1>1. m \in Nat /\ n \in Nat
  OBVIOUS
<1>2. PICK u : u = s \o t
  OBVIOUS
<1>3. /\ u \in Seq(S) /\ Len(u) = m + n
      /\ \A k \in 1 .. (m + n) : u[k] = IF k <= m THEN s[k] ELSE t[k - m]
  BY <1>2, ConcatProperties
<1>4. DOMAIN u = 1 .. (m + n)
  BY <1>3
<1>5. ASSUME NEW k \in 1 .. m PROVE u[k] = s[k]
  BY <1>1, <1>3
<1>6. ASSUME NEW k \in (m + 1) .. (m + n) PROVE u[k] = t[k - m]
  <2>1. k \in 1 .. (m + n) /\ ~(k <= m)
    BY <1>1
  <2> QED BY <1>3, <2>1
<1> QED BY <1>2, <1>3, <1>4, <1>5, <1>6

\* What a command hands to appendEvent.
NewEvents ==
    {e \in [run : RunIds, source : Sources \cup {None}, type : SourceEvents \cup PortfolioEvents] :
       e.source = None <=> e.type \notin SourceEvents}

\* What an event holds before it is logged.
LEMMA NewEventFields ==
    ASSUME NEW e \in NewEvents
    PROVE  /\ e.run \in RunIds /\ e.source \in Sources \cup {None}
           /\ e.type \in SourceEvents \cup PortfolioEvents
           /\ e.source = None <=> e.type \notin SourceEvents
BY DEF NewEvents

Numbered == [id : Nat \X Nat, run : RunIds, source : Sources \cup {None},
             type : SourceEvents \cup PortfolioEvents, state : States]

\* ev is the log old of length m followed by the n events new, all with state st.
Follows(ev, old, m, n, new, st) ==
    /\ ev \in Seq(Events) /\ Len(ev) = m + n /\ DOMAIN ev = 1 .. (m + n)
    /\ \A k \in 1 .. m : ev[k] = old[k]
    /\ \A k \in (m + 1) .. (m + n) :
         /\ ev[k] \in SoundEvents /\ ev[k].id[1] = k /\ ev[k].run = new[k - m].run
         /\ ev[k].source = new[k - m].source /\ ev[k].type = new[k - m].type
         /\ ev[k].state = st

\* The log after a command.
LEMMA LogIs ==
    ASSUME NEW snap \in SnapshotRecords, NEW run, run.state \in States, NEW new \in Seq(NewEvents),
           losses \in 0 .. MaxLosses, NEW ev, ev = Log(snap, run, new), Len(ev) <= MaxLog,
           NEW m, m = Len(snap.events), NEW n, n = Len(new)
    PROVE  Follows(ev, snap.events, m, n, new, run.state)
<1>0. m \in Nat /\ n \in Nat /\ DOMAIN new = 1 .. n /\ MaxLog \in Nat /\ MaxLosses \in Nat
  BY SnapFields, ControlPlaneAssumption
<1>1. PICK t : t = [k \in DOMAIN new |->
        [id |-> <<m + k, losses>>, run |-> new[k].run,
         source |-> new[k].source, type |-> new[k].type, state |-> run.state]]
  OBVIOUS
<1>2. ev = snap.events \o t
  BY <1>1 DEF Log
<1>3. \A k \in 1 .. n : new[k] \in NewEvents
  BY <1>0
<1>4. \A k \in 1 .. n :
        /\ t[k] \in Numbered /\ t[k].id[1] = m + k /\ t[k].run = new[k].run
        /\ t[k].source = new[k].source /\ t[k].type = new[k].type /\ t[k].state = run.state
        /\ t[k].id[2] = losses /\ t[k].id = <<m + k, losses>>
  BY <1>0, <1>1, <1>3, NewEventFields DEF Numbered
<1>5. t \in Seq(Numbered) /\ Len(t) = n
  <2>1. DOMAIN t = 1 .. n /\ t = [k \in 1 .. n |-> t[k]]
    BY <1>0, <1>1
  <2> QED BY <1>0, <1>4, <2>1
<1>6. snap.events \in Seq(Numbered)
  <2>1. Events \subseteq Numbered
    BY <1>0 DEF Events, Numbered, EventIds
  <2> QED BY <2>1, SnapFields
<1>7. /\ ev \in Seq(Numbered) /\ Len(ev) = m + n /\ DOMAIN ev = 1 .. (m + n)
      /\ \A k \in 1 .. m : ev[k] = snap.events[k]
      /\ \A k \in (m + 1) .. (m + n) : ev[k] = t[k - m]
  BY <1>2, <1>5, <1>6, InARow
<1>8. ASSUME NEW k \in (m + 1) .. (m + n)
      PROVE  /\ ev[k] \in SoundEvents /\ ev[k].id[1] = k /\ ev[k].run = new[k - m].run
             /\ ev[k].source = new[k - m].source /\ ev[k].type = new[k - m].type
             /\ ev[k].state = run.state
  <2>1. k - m \in 1 .. n /\ m + (k - m) = k /\ k \in 1 .. MaxLog
    BY <1>0, <1>7
  <2>2. PICK e : e = ev[k]
    OBVIOUS
  <2>3. /\ e \in Numbered /\ e.id[1] = k /\ e.run = new[k - m].run
        /\ e.source = new[k - m].source /\ e.type = new[k - m].type
        /\ e.state = run.state /\ e.id = <<k, losses>>
    BY ZenonT(60), <1>4, <1>7, <2>1, <2>2
  <2>4. e \in Events
    BY <2>1, <2>3 DEF Events, Numbered, EventIds
  <2>5. e.source = None <=> e.type \notin SourceEvents
    BY <1>3, <2>1, <2>3, NewEventFields
  <2> QED BY <2>2, <2>3, <2>4, <2>5 DEF SoundEvents
<1>9. ev \in Seq(Events)
  <2>1. \A k \in 1 .. (m + n) : ev[k] \in Events
    <3>1. ASSUME NEW k \in 1 .. m PROVE ev[k] \in Events
      BY <1>7, SnapFields
    <3>2. ASSUME NEW k \in (m + 1) .. (m + n) PROVE ev[k] \in Events
      BY <1>8 DEF SoundEvents
    <3> QED BY <1>0, <3>1, <3>2
  <2>2. ev = [k \in 1 .. (m + n) |-> ev[k]]
    BY <1>7
  <2> QED BY <1>0, <2>1, <2>2
<1> QED BY <1>7, <1>8, <1>9 DEF Follows

\* The place of an event is a matter of its source and type.
LEMMA SlotOf ==
    ASSUME NEW e, NEW f, e.source = f.source, e.type = f.type
    PROVE  Slot(e) = Slot(f)
BY DEF Slot

\* Whether a run has reached an event depends on its source and type only.
LEMMA ReachedOf ==
    ASSUME NEW e, NEW f, e.source = f.source, e.type = f.type, NEW run, Reached(run, e)
    PROVE  Reached(run, f)
BY DEF Reached

\* The events new continue the story of run r as it goes from old to run.
Continues(old, run, r, new) ==
    /\ new \in Seq(NewEvents) /\ new # <<>>
    /\ \A k \in DOMAIN new : new[k].run = r
    /\ \A j, k \in DOMAIN new : Slot(new[j]) = Slot(new[k]) => j = k
    /\ \A k \in DOMAIN new : Fresh(old, new[k])
    /\ run.state \notin Ended =>
         /\ \A k \in DOMAIN new : Reached(run, new[k])
         /\ \A e \in SoundEvents : Reached(old, e) => Reached(run, e)
    /\ \A s \in Sources :
         \/ TellingIn(new, DOMAIN new, s) = {} /\ run.sources[s].state = old.sources[s].state
         \/ ToldBy(new, DOMAIN new, s, run.sources[s].state)

\* The command puts run in the place of run r, and adds the decisions ap on it.
Replaces(snap, next, r, run, ap) ==
    /\ next.runs = [snap.runs EXCEPT ![r] = run]
    /\ next.approvals = snap.approvals \cup ap
    /\ next = [runs |-> next.runs, approvals |-> next.approvals, events |-> next.events]
    /\ ap \subseteq Approvals
    /\ \A a \in ap : a.run = r
    /\ \A a, b \in next.approvals : a.run = r /\ b.run = r => a = b
    /\ DecisionSound(run, next.approvals, r)

\* A command that leaves run r with new events, and decisions ap on it.
LEMMA StepSound ==
    ASSUME NEW snap, SnapSound(snap), NEW r \in RunIds, NEW run \in RunRecords, NEW next, NEW ap,
           NEW new, NEW old, old = snap.runs[r], old # None, old.state \notin Ended,
           losses \in 0 .. MaxLosses, Len(next.events) <= MaxLog,
           Replaces(snap, next, r, run, ap), Continues(old, run, r, new),
           next.events = Log(snap, run, new), StageSound(run), RunGrown(old, run)
    PROVE  SnapSound(next) /\ Grown(snap, next)
<1> /\ next.runs = [snap.runs EXCEPT ![r] = run]
    /\ next.approvals = snap.approvals \cup ap
    /\ next = [runs |-> next.runs, approvals |-> next.approvals, events |-> next.events]
    /\ ap \subseteq Approvals
    /\ \A a \in ap : a.run = r
    /\ \A a, b \in next.approvals : a.run = r /\ b.run = r => a = b
    /\ DecisionSound(run, next.approvals, r)
  BY DEF Replaces
<1> new \in Seq(NewEvents) /\ new # <<>> /\ \A k \in DOMAIN new : new[k].run = r
  BY DEF Continues
<1> \A j, k \in DOMAIN new : Slot(new[j]) = Slot(new[k]) => j = k
  BY DEF Continues
<1> \A k \in DOMAIN new : Fresh(old, new[k])
  BY DEF Continues
<1> run.state \notin Ended =>
         /\ \A k \in DOMAIN new : Reached(run, new[k])
         /\ \A e \in SoundEvents : Reached(old, e) => Reached(run, e)
  BY DEF Continues
<1> \A s \in Sources :
         \/ TellingIn(new, DOMAIN new, s) = {} /\ run.sources[s].state = old.sources[s].state
         \/ ToldBy(new, DOMAIN new, s, run.sources[s].state)
  BY DEF Continues
<1>1. snap \in SnapshotRecords /\ run.state \in States
  BY RunFields DEF SnapSound
<1>2. PICK ev, m, n : ev = next.events /\ m = Len(snap.events) /\ n = Len(new)
  OBVIOUS
<1>3. /\ ev \in Seq(Events) /\ Len(ev) = m + n /\ DOMAIN ev = 1 .. (m + n)
      /\ \A k \in 1 .. m : ev[k] = snap.events[k]
      /\ \A k \in (m + 1) .. (m + n) :
                /\ ev[k] \in SoundEvents /\ ev[k].id[1] = k /\ ev[k].run = new[k - m].run
                /\ ev[k].source = new[k - m].source /\ ev[k].type = new[k - m].type
                /\ ev[k].state = run.state
  <2>1. ev = Log(snap, run, new) /\ Len(ev) <= MaxLog
    BY <1>2
  <2>2. new \in Seq(NewEvents) /\ losses \in 0 .. MaxLosses
    OBVIOUS
  <2>3. Follows(ev, snap.events, m, n, new, run.state)
    BY ONLY <1>1, <1>2, <2>1, <2>2, LogIs
  <2> QED BY <2>3 DEF Follows
<1>4. /\ m \in Nat /\ n \in Nat /\ n > 0 /\ DOMAIN new = 1 .. n /\ DOMAIN snap.events = 1 .. m
      /\ \A k \in 1 .. n : new[k] \in NewEvents
  BY <1>1, <1>2, SnapFields
<1>5. PICK N : N = (m + 1) .. (m + n)
  OBVIOUS
<1>6. \A k \in N : k - m \in DOMAIN new /\ k \in Nat
  BY <1>4, <1>5
<1>7. next \in SnapshotRecords
  <2>1. next.runs \in [RunIds -> RunRecords \cup {None}]
    BY <1>1, SnapFields
  <2>2. next.approvals \subseteq Approvals
    BY <1>1, SnapFields
  <2> QED BY <1>2, <1>3, <2>1, <2>2 DEF SnapshotRecords
<1>8. \A q \in RunIds : next.runs[q] = IF q = r THEN run ELSE snap.runs[q]
  BY <1>1, SnapFields
<1>9. DOMAIN ev \ DOMAIN snap.events = N /\ DOMAIN ev = DOMAIN snap.events \cup N
  BY <1>3, <1>4, <1>5
<1>10. \A k \in N : /\ ev[k] \in SoundEvents /\ ev[k].id[1] = k /\ ev[k].run = r
                    /\ ev[k].state = run.state /\ Slot(ev[k]) = Slot(new[k - m])
                    /\ ev[k].source = new[k - m].source /\ ev[k].type = new[k - m].type
  BY <1>3, <1>5, <1>6, SlotOf
<1>11. PICK E : E = RunEvents(snap, r)
  OBVIOUS
<1>12. RunEvents(next, r) = E \cup N
  BY <1>2, <1>3, <1>4, <1>9, <1>10, <1>11 DEF RunEvents
<1>13. LogOK(old, snap.events, E)
  BY <1>11 DEF SnapSound, RunSound
<1>14. /\ E \subseteq 1 .. m /\ E \subseteq Nat /\ N \subseteq Nat
       /\ \A k \in E : ev[k] = snap.events[k] /\ snap.events[k] \in SoundEvents
  <2>1. E \subseteq 1 .. m
    BY <1>4, <1>11 DEF RunEvents
  <2>2. \A k \in E : snap.events[k] \in SoundEvents
    BY <1>4, <2>1 DEF SnapSound
  <2> QED BY <1>3, <1>4, <1>6, <2>1, <2>2
<1>15. \A j \in E, k \in N : j < k
  BY <1>4, <1>5, <1>14
<1>16. ASSUME NEW j \in N, NEW k \in N, Slot(ev[j]) = Slot(ev[k]) PROVE j = k
  <2>1. j - m = k - m
    BY <1>6, <1>10, <1>16
  <2> QED BY <2>1, <1>4, <1>6
<1>17. ASSUME NEW k \in N PROVE Fresh(old, ev[k])
  <2>1. Fresh(old, new[k - m])
    BY <1>6, <1>17
  <2> QED BY <1>10, <2>1 DEF Fresh
<1>18. ASSUME run.state \notin Ended
       PROVE  /\ \A k \in N : Reached(run, ev[k])
              /\ \A e \in SoundEvents : Reached(old, e) => Reached(run, e)
  <2>1. ASSUME NEW k \in N PROVE Reached(run, ev[k])
    <3>1. Reached(run, new[k - m])
      BY <1>6, <1>18, <2>1
    <3> QED BY <3>1, <1>10, <2>1, ReachedOf
  <2> QED BY <1>18, <2>1
<1>19. LastState(ev, N, run.state)
  <2>1. m + n \in N /\ \A j \in N : j <= m + n
    BY <1>4, <1>5
  <2> QED BY <1>10, <2>1 DEF LastState
<1>20. ASSUME NEW s \in Sources
       PROVE  \/ TellingIn(ev, N, s) = {} /\ run.sources[s].state = old.sources[s].state
              \/ ToldBy(ev, N, s, run.sources[s].state)
  <2>1. \A k \in N : k \in TellingIn(ev, N, s) <=> k - m \in TellingIn(new, DOMAIN new, s)
    BY <1>6, <1>10 DEF TellingIn
  <2>2. TellingIn(ev, N, s) \subseteq N /\ TellingIn(new, DOMAIN new, s) \subseteq 1 .. n
    BY <1>4 DEF TellingIn
  <2>3. CASE TellingIn(new, DOMAIN new, s) = {} /\ run.sources[s].state = old.sources[s].state
    BY <2>1, <2>2, <2>3
  <2>4. CASE ToldBy(new, DOMAIN new, s, run.sources[s].state)
    <3>1. PICK k \in TellingIn(new, DOMAIN new, s) :
            /\ \A j \in TellingIn(new, DOMAIN new, s) : j <= k
            /\ <<new[k].type, run.sources[s].state>> \in Tells
      BY <2>4 DEF ToldBy
    <3>2. k \in 1 .. n /\ k + m \in N /\ (k + m) - m = k
      BY <1>4, <1>5, <2>2, <3>1
    <3>3. k + m \in TellingIn(ev, N, s)
      BY <2>1, <3>1, <3>2
    <3>4. \A j \in TellingIn(ev, N, s) : j <= k + m
      <4>1. ASSUME NEW j \in TellingIn(ev, N, s) PROVE j <= k + m
        <5>1. j - m <= k /\ j \in Nat
          BY <1>6, <2>1, <2>2, <3>1
        <5> QED BY <1>4, <3>2, <5>1
      <4> QED BY <4>1
    <3>5. ev[k + m].type = new[k].type
      BY <1>10, <3>2
    <3> QED BY <3>1, <3>3, <3>4, <3>5 DEF ToldBy
  <2> QED BY <2>3, <2>4
<1>21. LogOK(run, ev, E \cup N)
  BY <1>13, <1>14, <1>15, <1>16, <1>17, <1>18, <1>19, <1>20, LogGrows
<1>22. \A a \in next.approvals : a.run # r => a \in snap.approvals
  OBVIOUS
<1>23. Len(snap.events) <= Len(next.events)
  BY <1>2, <1>3, <1>4
<1>24. \A k \in DOMAIN snap.events : next.events[k] = snap.events[k]
  BY <1>2, <1>3, <1>4
<1>25. \A k \in DOMAIN next.events \ DOMAIN snap.events :
             /\ next.events[k] \in SoundEvents /\ next.events[k].id[1] = k
             /\ next.events[k].run = r
  BY <1>2, <1>9, <1>10
<1>26. LogOK(run, next.events, RunEvents(next, r)) /\ (snap.runs[r] # None => RunGrown(snap.runs[r], run))
  BY <1>2, <1>12, <1>21
<1>27. snap.approvals \subseteq next.approvals
  OBVIOUS
<1> QED BY <1>7, <1>8, <1>22, <1>23, <1>24, <1>25, <1>26, <1>27, CommandSound
-----------------------------------------------------------------------------
(* One command after the other. *)

\* What a command changes in a snapshot.
LEMMA ChangedIs ==
    ASSUME NEW snap \in SnapshotRecords, NEW r \in RunIds, NEW run, NEW new, NEW next,
           next = Changed(snap, r, run, new)
    PROVE  /\ next.runs = [snap.runs EXCEPT ![r] = run]
           /\ next.approvals = snap.approvals \cup {}
           /\ next.events = Log(snap, run, new)
           /\ next = [runs |-> next.runs, approvals |-> next.approvals, events |-> next.events]
BY DEF Changed, SnapshotRecords

\* What Event makes.
LEMMA EventIs ==
    ASSUME NEW r \in RunIds, NEW s \in Sources \cup {None},
           NEW type \in SourceEvents \cup PortfolioEvents, s = None <=> type \notin SourceEvents
    PROVE  /\ Event(r, s, type) \in NewEvents
           /\ Event(r, s, type).run = r /\ Event(r, s, type).source = s
           /\ Event(r, s, type).type = type
BY DEF Event, NewEvents

\* A live run has no source that failed or was cancelled.
LEMMA LiveRun ==
    ASSUME NEW snap, SnapSound(snap), NEW r \in RunIds, Live(snap, r), NEW old, old = snap.runs[r]
    PROVE  /\ old \in RunRecords /\ old # None /\ old.state \notin Ended
           /\ StageSound(old) /\ DecisionSound(old, snap.approvals, r)
           /\ old.failure = None
           /\ \A s \in Sources :
                old.sources[s].state \notin {"failed", "cancelled"} /\ old.sources[s].failure = None
<1>1. old # None /\ old.state \notin Ended
  BY DEF Live
<1>2. old \in RunRecords /\ StageSound(old) /\ DecisionSound(old, snap.approvals, r)
  BY <1>1, SnapFields DEF SnapSound, RunSound
<1>3. \A s \in Sources : old.sources[s].state \notin {"failed", "cancelled"}
  BY <1>1, <1>2, Derived, RunFields DEF StageSound, Ended
<1> QED BY <1>1, <1>2, <1>3 DEF StageSound, Ended

\* One decision at most is on a run.
LEMMA OneOnRun ==
    ASSUME NEW snap, SnapSound(snap), NEW r
    PROVE  \A a, b \in snap.approvals \cup {} : a.run = r /\ b.run = r => a = b
BY DEF SnapSound

\* CreateRun makes a sound snapshot of a sound one and only adds to it.
LEMMA CreateSound ==
    ASSUME NEW snap, SnapSound(snap), NEW r \in RunIds, NEW name \in Names,
           snap.runs[r] = None, losses \in 0 .. MaxLosses,
           NEW next,
           next = Changed(snap, r, NewRun(name), <<Event(r, None, "migration.created")>>),
           Len(next.events) <= MaxLog
    PROVE  SnapSound(next) /\ Grown(snap, next)
<1>1. PICK run, e, new : run = NewRun(name) /\ e = Event(r, None, "migration.created") /\ new = <<e>>
  OBVIOUS
<1>2. e \in NewEvents /\ e.run = r /\ e.source = None /\ e.type = "migration.created"
  BY <1>1, EventIs, SourceEventsAre DEF PortfolioEvents
<1>3. /\ run.state = "created" /\ run.plan = None /\ run.failure = None /\ run.approval = None
      /\ \A s \in Sources : /\ run.sources[s].state = "created" /\ run.sources[s].failure = None
                            /\ run.sources[s].plan = None
  BY <1>1 DEF NewRun
<1>4. run \in RunRecords
  <2>1. "created" \in States
    BY StatesAre
  <2> QED BY <1>1, <2>1 DEF NewRun, RunRecords, SourceRecords
<1>5. StageSound(run)
  <2>1. DeriveRunState(run.sources) = "created"
    BY <1>3, <1>4, RunFields, DerivedAlike, StatesAre
  <2> QED BY <1>3, <2>1 DEF StageSound, Early
<1>6. snap \in SnapshotRecords
  BY DEF SnapSound
<1>7. /\ next.runs = [snap.runs EXCEPT ![r] = run] /\ next.approvals = snap.approvals
      /\ next.events = Log(snap, run, new)
      /\ next = [runs |-> next.runs, approvals |-> next.approvals, events |-> next.events]
  BY <1>1, <1>6, ChangedIs
<1>8. DecisionSound(run, next.approvals, r)
  BY <1>3, <1>7 DEF DecisionSound, SnapSound
<1>9. PICK ev, m : ev = next.events /\ m = Len(snap.events)
  OBVIOUS
<1>10. Follows(ev, snap.events, m, 1, new, run.state)
  <2>1. new \in Seq(NewEvents) /\ Len(new) = 1
    BY <1>1, <1>2
  <2>2. run.state \in States /\ ev = Log(snap, run, new) /\ Len(ev) <= MaxLog
    BY <1>4, <1>7, <1>9, RunFields
  <2>3. losses \in 0 .. MaxLosses
    OBVIOUS
  <2> QED BY ONLY <1>6, <1>9, <2>1, <2>2, <2>3, LogIs
<1>11. /\ m \in Nat /\ DOMAIN snap.events = 1 .. m /\ DOMAIN ev = 1 .. (m + 1) /\ ev \in Seq(Events)
       /\ Len(ev) = m + 1 /\ \A k \in 1 .. m : ev[k] = snap.events[k]
       /\ ev[m + 1] \in SoundEvents /\ ev[m + 1].id[1] = m + 1 /\ ev[m + 1].run = r
       /\ ev[m + 1].source = None /\ ev[m + 1].type = "migration.created"
       /\ ev[m + 1].state = "created"
  <2>1. m \in Nat /\ DOMAIN snap.events = 1 .. m
    BY <1>6, <1>9, SnapFields
  <2>2. m + 1 \in (m + 1) .. (m + 1) /\ (m + 1) - m = 1 /\ new[1] = e
    BY <1>1, <2>1
  <2> QED BY <1>2, <1>3, <1>10, <2>1, <2>2 DEF Follows
<1>12. RunEvents(next, r) = {m + 1}
  <2>1. \A k \in 1 .. m : snap.events[k].run # r
    BY SMTT(30), <1>11 DEF SnapSound
  <2>2. DOMAIN ev = (1 .. m) \cup {m + 1}
    BY <1>11
  <2>3. \A k \in DOMAIN ev : ev[k].run = r <=> k = m + 1
    BY <1>11, <2>1, <2>2
  <2> QED BY <1>9, <2>2, <2>3 DEF RunEvents
<1>13. LogOK(run, ev, {m + 1})
  <2>1. ASSUME NEW s \in Sources PROVE ToldBy(ev, {m + 1}, s, "created")
    <3>1. TellingIn(ev, {m + 1}, s) = {m + 1}
      BY <1>11, TellsOne DEF TellingIn
    <3>2. <<ev[m + 1].type, "created">> \in Tells
      BY <1>11, TellsAre
    <3>3. m + 1 <= m + 1
      BY <1>11
    <3> QED BY <3>1, <3>2, <3>3 DEF ToldBy
  <2>2. m + 1 <= m + 1 /\ LastState(ev, {m + 1}, "created")
    BY <1>11 DEF LastState
  <2>3. Reached(run, ev[m + 1])
    BY <1>11 DEF Reached
  <2>4. \A s \in Sources : ToldBy(ev, {m + 1}, s, run.sources[s].state)
    BY <1>3, <2>1
  <2> QED BY <1>3, <1>11, <2>2, <2>3, <2>4 DEF LogOK
<1>14. next \in SnapshotRecords
  <2>1. next.runs \in [RunIds -> RunRecords \cup {None}] /\ next.approvals \subseteq Approvals
    BY <1>4, <1>6, <1>7, SnapFields
  <2> QED BY <1>7, <1>9, <1>11, <2>1 DEF SnapshotRecords
<1>15. \A q \in RunIds : next.runs[q] = IF q = r THEN run ELSE snap.runs[q]
  BY <1>6, <1>7, SnapFields
<1>16. \A a \in next.approvals : a.run # r => a \in snap.approvals
  BY <1>7
<1>17. \A a, b \in next.approvals : a.run = r /\ b.run = r => a = b
  BY <1>7 DEF SnapSound
<1>18. Len(snap.events) <= Len(next.events) /\ \A k \in DOMAIN snap.events : next.events[k] = snap.events[k]
  BY <1>9, <1>11
<1>19. \A k \in DOMAIN next.events \ DOMAIN snap.events :
             /\ next.events[k] \in SoundEvents /\ next.events[k].id[1] = k
             /\ next.events[k].run = r
  <2>1. DOMAIN ev \ DOMAIN snap.events = {m + 1}
    BY <1>11
  <2> QED BY <1>9, <1>11, <2>1
<1>20. LogOK(run, next.events, RunEvents(next, r)) /\ snap.approvals \subseteq next.approvals
  BY <1>7, <1>9, <1>12, <1>13
<1> QED BY <1>4, <1>5, <1>8, <1>14, <1>15, <1>16, <1>17, <1>18, <1>19, <1>20, CommandSound

\* The derived state depends on the states of the sources only.
LEMMA DerivedSame ==
    ASSUME NEW f, NEW g, \A s \in Sources : f[s].state = g[s].state
    PROVE  DeriveRunState(f) = DeriveRunState(g)
<1> DEFINE A == {f[s].state : s \in Sources}
           B == {g[s].state : s \in Sources}
<1>1. A = B
  OBVIOUS
<1>2. DeriveRunState(f) = IF "failed" \in A THEN "failed"
        ELSE IF "cancelled" \in A THEN "cancelled"
        ELSE CHOOSE st \in A : \A o \in A : Rank(st) <= Rank(o)
  BY DEF DeriveRunState
<1>3. DeriveRunState(g) = IF "failed" \in B THEN "failed"
        ELSE IF "cancelled" \in B THEN "cancelled"
        ELSE CHOOSE st \in B : \A o \in B : Rank(st) <= Rank(o)
  BY DEF DeriveRunState
<1> HIDE DEF A, B
<1> QED BY <1>1, <1>2, <1>3

\* So does AttachSourcePlan, which logs nothing.
LEMMA AttachSound ==
    ASSUME NEW snap, SnapSound(snap), NEW r \in RunIds, NEW s \in Sources, NEW digest \in Digests,
           Live(snap, r), Plannable(snap.runs[r].sources[s]), losses \in 0 .. MaxLosses,
           NEW next, NEW run, run = [snap.runs[r] EXCEPT !.sources[s].plan = digest],
           next = Changed(snap, r, run, <<>>), Len(next.events) <= MaxLog
    PROVE  SnapSound(next) /\ Grown(snap, next)
<1>1. PICK old : old = snap.runs[r]
  OBVIOUS
<1>2. /\ old \in RunRecords /\ old # None /\ old.state \notin Ended
      /\ StageSound(old) /\ DecisionSound(old, snap.approvals, r)
  BY <1>1, LiveRun
<1>3. /\ run \in RunRecords /\ run.state = old.state /\ run.plan = old.plan
      /\ run.failure = old.failure /\ run.approval = old.approval
      /\ \A q \in Sources : /\ run.sources[q].state = old.sources[q].state
                            /\ run.sources[q].failure = old.sources[q].failure
                            /\ run.sources[q].records = old.sources[q].records
                            /\ q # s => run.sources[q].plan = old.sources[q].plan
  <2>1. run = [old EXCEPT !.sources[s].plan = digest] /\ old \in RunRecords
    BY <1>1, <1>2
  <2> QED BY ONLY <2>1, s \in Sources, digest \in Digests DEF RunRecords, SourceRecords
<1>4. old.sources[s].state = "planning" /\ old.sources[s].plan = None
  BY <1>1 DEF Plannable
<1>5. old.plan = None
  BY <1>2, <1>4 DEF StageSound
<1>6. DeriveRunState(run.sources) = DeriveRunState(old.sources)
  BY <1>3, DerivedSame
<1>7. StageSound(run)
  BY ZenonT(60), <1>2, <1>3, <1>5, <1>6 DEF StageSound
<1>8. snap \in SnapshotRecords
  BY DEF SnapSound
<1>9. /\ next.runs = [snap.runs EXCEPT ![r] = run] /\ next.approvals = snap.approvals
      /\ next.events = Log(snap, run, <<>>)
      /\ next = [runs |-> next.runs, approvals |-> next.approvals, events |-> next.events]
  BY <1>8, ChangedIs
<1>10. PICK ev, m : ev = next.events /\ m = Len(snap.events)
  OBVIOUS
<1>11. Follows(ev, snap.events, m, 0, <<>>, run.state)
  <2>1. <<>> \in Seq(NewEvents) /\ Len(<<>>) = 0
    OBVIOUS
  <2>2. run.state \in States /\ ev = Log(snap, run, <<>>) /\ Len(ev) <= MaxLog
    BY <1>3, <1>9, <1>10, RunFields
  <2>3. losses \in 0 .. MaxLosses
    OBVIOUS
  <2> QED BY ONLY <1>8, <1>10, <2>1, <2>2, <2>3, LogIs
<1>12. /\ m \in Nat /\ DOMAIN snap.events = 1 .. m /\ DOMAIN ev = 1 .. m /\ ev \in Seq(Events)
       /\ Len(ev) = m /\ \A k \in 1 .. m : ev[k] = snap.events[k]
  <2>1. m \in Nat /\ DOMAIN snap.events = 1 .. m
    BY <1>8, <1>10, SnapFields
  <2> QED BY <1>11, <2>1 DEF Follows
<1>13. RunEvents(next, r) = RunEvents(snap, r)
  BY <1>10, <1>12 DEF RunEvents
<1>14. LogOK(run, ev, RunEvents(snap, r))
  <2>1. LogOK(old, snap.events, RunEvents(snap, r)) /\ RunEvents(snap, r) \subseteq 1 .. m
    BY <1>1, <1>2, <1>12 DEF SnapSound, RunSound, RunEvents
  <2>2. LogOK(old, ev, RunEvents(snap, r))
    BY <1>12, <2>1, LogStays
  <2>3. ASSUME NEW k \in RunEvents(snap, r), Reached(old, ev[k]) PROVE Reached(run, ev[k])
    <3>1. ev[k] \in SoundEvents
      BY <1>12, <2>1 DEF SnapSound
    <3>2. ev[k].type \in SourceEvents => ev[k].source \in Sources
      BY <3>1 DEF SoundEvents, Events
    <3>3. \A to \in DOMAIN AdvanceSteps : AdvanceSteps[to].type \in SourceEvents
      BY DEF SourceEvents
    <3> QED BY <1>3, <2>3, <3>2, <3>3 DEF Reached
  <2> QED BY <1>3, <2>2, <2>3 DEF LogOK
<1>15. next \in SnapshotRecords
  <2>1. run \in RunRecords /\ next.runs = [snap.runs EXCEPT ![r] = run]
          /\ next.approvals = snap.approvals /\ r \in RunIds
    BY <1>3, <1>9
  <2>2. next.runs \in [RunIds -> RunRecords \cup {None}] /\ next.approvals \subseteq Approvals
    BY ONLY <2>1, <1>8, SnapFields
  <2> QED BY <1>9, <1>10, <1>12, <2>2 DEF SnapshotRecords
<1>16. \A q \in RunIds : next.runs[q] = IF q = r THEN run ELSE snap.runs[q]
  BY <1>8, <1>9, SnapFields
<1>17. DecisionSound(run, next.approvals, r)
  <2>1. /\ DecisionSound(old, snap.approvals, r) /\ next.approvals = snap.approvals
        /\ run.plan = old.plan /\ run.approval = old.approval
        /\ \A q \in Sources : run.sources[q].state = old.sources[q].state
    BY <1>2, <1>3, <1>9
  <2> QED BY ONLY <2>1 DEF DecisionSound
<1>18. RunGrown(snap.runs[r], run)
  <2>1. run # None /\ \A q \in Sources : old.sources[q].records \in Nat
    BY <1>2, <1>3, RunFields
  <2>2. \A q \in Sources : old.sources[q].plan \in {None, run.sources[q].plan}
    BY <1>3, <1>4
  <2>3. \A q \in Sources : old.sources[q].records <= run.sources[q].records
    <3>1. \A q \in Sources : run.sources[q].records = old.sources[q].records
      BY <1>3
    <3>2. \A x \in Nat : x <= x
      OBVIOUS
    <3> QED BY ONLY <2>1, <3>1, <3>2
  <2> QED BY <1>1, <1>2, <2>1, <2>2, <2>3 DEF RunGrown
<1>19. /\ \A a \in next.approvals : a.run # r => a \in snap.approvals
       /\ snap.approvals \subseteq next.approvals
       /\ \A a, b \in next.approvals : a.run = r /\ b.run = r => a = b
  <2>1. \A a, b \in snap.approvals : a.run = b.run => a = b
    BY DEF SnapSound
  <2>2. next.approvals = snap.approvals
    BY <1>9
  <2> QED BY ONLY <2>1, <2>2
<1>20. /\ Len(snap.events) <= Len(next.events)
       /\ \A k \in DOMAIN snap.events : next.events[k] = snap.events[k]
       /\ DOMAIN next.events \ DOMAIN snap.events = {}
  BY ONLY <1>10, <1>12
<1>21. LogOK(run, next.events, RunEvents(next, r))
  BY <1>10, <1>13, <1>14
<1>22. \A k \in DOMAIN next.events \ DOMAIN snap.events :
             /\ next.events[k] \in SoundEvents /\ next.events[k].id[1] = k
             /\ next.events[k].run = r
  BY <1>20
<1>23. SnapSound(snap) /\ r \in RunIds
  OBVIOUS
<1> QED BY ONLY <1>3, <1>7, <1>15, <1>16, <1>17, <1>18, <1>19, <1>20, <1>21, <1>22, <1>23, CommandSound


\* What a step of a source may start from and lead to.
LEMMA StepStages ==
    ASSUME NEW to \in DOMAIN AdvanceSteps
    PROVE  /\ to \in States /\ to \notin {"failed", "cancelled"}
           /\ AdvanceSteps[to].from \in Early => to \in Early
           /\ AdvanceSteps[to].from \notin AtGate /\ AdvanceSteps[to].from # "cancelled"
           /\ AdvanceSteps[to].from \in Behind => to \in Behind
           /\ <<AdvanceSteps[to].type, to>> \in Tells /\ AdvanceSteps[to].type \in SourceEvents
           /\ AdvanceSteps[to].from # "failed"
<1>1. to \in States /\ to \notin {"failed", "cancelled"}
  BY AdvanceStepsAre, StatesAre
<1>2. /\ AdvanceSteps[to].from \in Early => to \in Early
      /\ AdvanceSteps[to].from \notin AtGate /\ AdvanceSteps[to].from # "cancelled"
      /\ AdvanceSteps[to].from \in Behind => to \in Behind
      /\ AdvanceSteps[to].from # "failed"
  BY AdvanceStepsAre DEF Early, AtGate, Behind
<1>3. <<AdvanceSteps[to].type, to>> \in Tells /\ AdvanceSteps[to].type \in SourceEvents
  BY DEF Tells, SourceEvents
<1> QED BY <1>1, <1>2, <1>3

\* The run with source s moved on to state `to`.
MovedOn(old, run, s, to) ==
    /\ run \in RunRecords /\ run.state = DeriveRunState(run.sources) /\ run.plan = old.plan
    /\ run.failure = old.failure /\ run.approval = old.approval
    /\ \A q \in Sources :
         /\ run.sources[q].state = IF q = s THEN to ELSE old.sources[q].state
         /\ run.sources[q].failure = old.sources[q].failure
         /\ run.sources[q].plan = old.sources[q].plan
         /\ old.sources[q].records <= run.sources[q].records

\* AdvanceSource moves one source on and derives the run's state again.
LEMMA AdvancedRun ==
    ASSUME NEW old \in RunRecords, NEW s \in Sources, NEW to \in DOMAIN AdvanceSteps,
           NEW count \in Counts \cup {None}, CountAccepted(old.sources[s], count),
           NEW sources, sources = [old.sources EXCEPT ![s] = Advanced(@, to, count)],
           NEW run, run = [old EXCEPT !.sources = sources, !.state = DeriveRunState(sources)]
    PROVE  MovedOn(old, run, s, to)
<1>1. old.sources \in [Sources -> SourceRecords]
  BY RunFields
<1>2. PICK src : src = Advanced(old.sources[s], to, count)
  OBVIOUS
<1>3. old.sources[s] \in SourceRecords /\ to \in States /\ Counts \subseteq Nat /\ None \notin Counts
  BY <1>1, StepStages, ControlPlaneAssumption
<1>4. /\ src \in SourceRecords /\ src.state = to /\ src.plan = old.sources[s].plan
      /\ src.failure = old.sources[s].failure
      /\ src.records = IF count = None THEN old.sources[s].records ELSE count
  BY <1>2, <1>3 DEF Advanced, SourceRecords
<1>5. old.sources[s].records <= src.records
  <2>1. old.sources[s].records \in Nat
    BY RunFields
  <2>2. count # None => count \in Nat /\ count >= old.sources[s].records
    BY <1>3 DEF CountAccepted
  <2> QED BY <1>4, <2>1, <2>2
<1>6. sources \in [Sources -> SourceRecords] /\ \A q \in Sources : sources[q] = IF q = s THEN src ELSE old.sources[q]
  BY <1>1, <1>2, <1>4
<1>7. DeriveRunState(sources) \in States
  BY <1>6, Derived
<1>8. run \in RunRecords /\ run.sources = sources /\ run.state = DeriveRunState(sources)
        /\ run.plan = old.plan /\ run.failure = old.failure /\ run.approval = old.approval
  BY <1>6, <1>7 DEF RunRecords
<1>9. \A q \in Sources : old.sources[q].records \in Nat
  BY RunFields
<1> QED BY <1>4, <1>5, <1>6, <1>8, <1>9 DEF MovedOn

\* A run of which one source moves on is in a stage that its sources support.
LEMMA MovedStage ==
    ASSUME NEW old \in RunRecords, NEW s \in Sources, NEW to \in DOMAIN AdvanceSteps, NEW run,
           MovedOn(old, run, s, to), StageSound(old), old.state \notin Ended, old.failure = None,
           \A q \in Sources : old.sources[q].state \notin {"failed", "cancelled"} /\ old.sources[q].failure = None,
           old.sources[s].state = AdvanceSteps[to].from, NEW ap, NEW r, DecisionSound(old, ap, r)
    PROVE  StageSound(run) /\ DecisionSound(run, ap, r) /\ RunGrown(old, run)
<1>1. \A q \in Sources : run.sources[q].state \notin {"failed", "cancelled"}
  BY StepStages DEF MovedOn
<1>2. run.state # "failed"
  BY <1>1, Derived, RunFields DEF MovedOn
<1>3. run.plan = None => run.approval = None /\ \A q \in Sources : run.sources[q].state \in Early
  <2> SUFFICES ASSUME run.plan = None
               PROVE  run.approval = None /\ \A q \in Sources : run.sources[q].state \in Early
    OBVIOUS
  <2>1. old.plan = None /\ run.approval = old.approval
    BY DEF MovedOn
  <2>2. old.approval = None /\ \A q \in Sources : old.sources[q].state \in Early
    BY <2>1 DEF StageSound
  <2>3. to \in Early
    BY <2>2, StepStages
  <2> QED BY <2>1, <2>2, <2>3 DEF MovedOn
<1>4. run.plan # None => run.plan = PortfolioPlanDigest(run.sources) /\ \A q \in Sources : run.sources[q].plan # None
  BY DEF MovedOn, StageSound, PortfolioPlanDigest
<1>5. run.plan # None /\ run.approval = None => \A q \in Sources : run.sources[q].state \in AtGate
  BY StepStages DEF MovedOn, StageSound
<1>6. StageSound(run)
  BY <1>1, <1>2, <1>3, <1>4, <1>5 DEF MovedOn, StageSound
<1>7. DecisionSound(run, ap, r)
  <2>1. ASSUME NEW a \in ap, a.run = r
        PROVE  \A q \in Sources :
              run.sources[q].state \in IF a.decision = "approve" THEN Behind ELSE {"cancelled"}
    <3>1. \A q \in Sources :
              old.sources[q].state \in IF a.decision = "approve" THEN Behind ELSE {"cancelled"}
      BY <2>1 DEF DecisionSound
    <3> QED BY ZenonT(60), <3>1, StepStages DEF MovedOn
  <2> QED BY <2>1 DEF DecisionSound, MovedOn
<1>8. RunGrown(old, run)
  BY RunFields DEF RunGrown, MovedOn
<1> QED BY <1>6, <1>7, <1>8

\* What the run had reached it still has when its ranks have not fallen.
LEMMA ReachedStill ==
    ASSUME NEW old, NEW run, NEW e \in SoundEvents, Reached(old, e),
           old.plan # None => run.plan # None, old.approval # None => run.approval # None,
           \A s \in Sources, k \in 1 .. 9 : k <= Rank(old.sources[s].state) => k <= Rank(run.sources[s].state)
    PROVE  Reached(run, e)
<1>1. e.type \in SourceEvents => e.source \in Sources
  BY DEF SoundEvents, Events
<1>2. \A to \in DOMAIN AdvanceSteps : AdvanceSteps[to].type \in SourceEvents /\ Rank(to) \in 1 .. 9
  BY StepOf DEF SourceEvents
<1> QED BY <1>1, <1>2 DEF Reached

\* One event followed by one or none.
LEMMA TwoInARow ==
    ASSUME NEW S, NEW e \in S, NEW f \in S
    PROVE  /\ <<e>> \o <<f>> \in Seq(S) /\ <<e>> \o <<f>> # <<>> /\ DOMAIN (<<e>> \o <<f>>) = {1, 2}
           /\ (<<e>> \o <<f>>)[1] = e /\ (<<e>> \o <<f>>)[2] = f
           /\ <<e>> \o <<>> \in Seq(S) /\ <<e>> \o <<>> # <<>> /\ DOMAIN (<<e>> \o <<>>) = {1}
           /\ (<<e>> \o <<>>)[1] = e
<1>1. PICK u, v : u = <<e>> \o <<f>> /\ v = <<e>> \o <<>>
  OBVIOUS
<1>2. <<e>> \in Seq(S) /\ <<f>> \in Seq(S) /\ <<>> \in Seq(S) /\ 1 = Len(<<e>>) /\ 1 = Len(<<f>>)
        /\ 0 = Len(<<>>) /\ <<e>>[1] = e /\ <<f>>[1] = f
  OBVIOUS
<1>3. /\ u \in Seq(S) /\ Len(u) = 1 + 1 /\ DOMAIN u = 1 .. (1 + 1)
      /\ \A k \in 1 .. 1 : u[k] = <<e>>[k]
      /\ \A k \in (1 + 1) .. (1 + 1) : u[k] = <<f>>[k - 1]
  BY ONLY <1>1, <1>2, InARow
<1>4. /\ v \in Seq(S) /\ Len(v) = 1 + 0 /\ DOMAIN v = 1 .. (1 + 0)
      /\ \A k \in 1 .. 1 : v[k] = <<e>>[k]
  BY ONLY <1>1, <1>2, InARow
<1>5. u \in Seq(S) /\ u # <<>> /\ DOMAIN u = {1, 2} /\ u[1] = e /\ u[2] = f
  <2>1. 1 .. (1 + 1) = {1, 2} /\ 1 \in 1 .. 1 /\ 2 \in (1 + 1) .. (1 + 1) /\ 2 - 1 = 1
    OBVIOUS
  <2>2. u[1] = e /\ u[2] = f /\ DOMAIN u = {1, 2} /\ u \in Seq(S)
    BY ONLY <1>2, <1>3, <2>1
  <2>3. Len(u) = 2 /\ Len(<<>>) = 0
    BY ONLY <1>2, <1>3
  <2>4. u # <<>>
    <3> SUFFICES ASSUME u = <<>> PROVE FALSE
      OBVIOUS
    <3> QED BY <2>3
  <2> QED BY ONLY <2>2, <2>4
<1>6. v \in Seq(S) /\ v # <<>> /\ DOMAIN v = {1} /\ v[1] = e
  <2>1. 1 .. (1 + 0) = {1} /\ 1 \in 1 .. 1
    OBVIOUS
  <2>2. v[1] = e /\ DOMAIN v = {1} /\ v \in Seq(S)
    BY ONLY <1>2, <1>4, <2>1
  <2>3. Len(v) = 1 /\ Len(<<>>) = 0
    BY ONLY <1>2, <1>4
  <2>4. v # <<>>
    <3> SUFFICES ASSUME v = <<>> PROVE FALSE
      OBVIOUS
    <3> QED BY <2>3
  <2> QED BY ONLY <2>2, <2>4
<1> QED BY ONLY <1>1, <1>5, <1>6

\* AdvanceSource makes a sound snapshot of a sound one and only adds to it.
LEMMA AdvanceSound ==
    ASSUME NEW snap, SnapSound(snap), NEW r \in RunIds, NEW s \in Sources,
           NEW to \in DOMAIN AdvanceSteps, NEW old, old = snap.runs[r], NEW run,
           Live(snap, r), old.sources[s].state = AdvanceSteps[to].from,
           MovedOn(old, run, s, to), losses \in 0 .. MaxLosses, NEW new,
           new = <<Event(r, s, AdvanceSteps[to].type)>> \o
                 IF run.state = "completed" THEN <<Event(r, None, "migration.completed")>> ELSE <<>>,
           NEW next, next = Changed(snap, r, run, new), Len(next.events) <= MaxLog
    PROVE  SnapSound(next) /\ Grown(snap, next)
<1>1. /\ old \in RunRecords /\ old # None /\ old.state \notin Ended
      /\ StageSound(old) /\ DecisionSound(old, snap.approvals, r) /\ old.failure = None
      /\ \A q \in Sources : old.sources[q].state \notin {"failed", "cancelled"} /\ old.sources[q].failure = None
  BY LiveRun
<1>2. StageSound(run) /\ DecisionSound(run, snap.approvals, r) /\ RunGrown(old, run) /\ run \in RunRecords
  <2>1. run \in RunRecords
    BY DEF MovedOn
  <2>2. s \in Sources /\ to \in DOMAIN AdvanceSteps /\ MovedOn(old, run, s, to)
          /\ old.sources[s].state = AdvanceSteps[to].from
    OBVIOUS
  <2> QED BY ONLY <1>1, <2>1, <2>2, MovedStage
<1>3. PICK e, f : e = Event(r, s, AdvanceSteps[to].type) /\ f = Event(r, None, "migration.completed")
  OBVIOUS
<1>4. /\ e \in NewEvents /\ e.run = r /\ e.source = s /\ e.type = AdvanceSteps[to].type
      /\ f \in NewEvents /\ f.run = r /\ f.source = None /\ f.type = "migration.completed"
  <2>1. s # None /\ AdvanceSteps[to].type \in SourceEvents
    BY StepStages, ControlPlaneAssumption
  <2>2. "migration.completed" \in PortfolioEvents /\ "migration.completed" \notin SourceEvents
    BY SourceEventsAre DEF PortfolioEvents
  <2> QED BY <1>3, <2>1, <2>2, EventIs
<1>5. /\ new \in Seq(NewEvents) /\ new # <<>> /\ new[1] = e
      /\ \/ run.state = "completed" /\ DOMAIN new = {1, 2} /\ new[2] = f
         \/ run.state # "completed" /\ DOMAIN new = {1}
  <2>1. CASE run.state = "completed"
    <3>1. new = <<e>> \o <<f>>
      BY <1>3, <2>1
    <3>2. /\ new \in Seq(NewEvents) /\ new # <<>> /\ DOMAIN new = {1, 2}
          /\ new[1] = e /\ new[2] = f
      BY ONLY <1>4, <3>1, TwoInARow
    <3> QED BY <2>1, <3>2
  <2>2. CASE run.state # "completed"
    <3>1. new = <<e>> \o <<>>
      BY <1>3, <2>2
    <3>2. new \in Seq(NewEvents) /\ new # <<>> /\ DOMAIN new = {1} /\ new[1] = e
      BY ONLY <1>4, <3>1, TwoInARow
    <3> QED BY <2>2, <3>2
  <2> QED BY <2>1, <2>2
<1>6. /\ next.runs = [snap.runs EXCEPT ![r] = run]
      /\ next.approvals = snap.approvals \cup {}
      /\ next.events = Log(snap, run, new)
      /\ next = [runs |-> next.runs, approvals |-> next.approvals, events |-> next.events]
  BY ChangedIs DEF SnapSound
<1>7. \A j, k \in DOMAIN new : Slot(new[j]) = Slot(new[k]) => j = k
  <2>1. Slot(e) = <<s, AdvanceSteps[to].type>> /\ Slot(f) = <<None, "migration.completed">>
    BY <1>4, StepOf DEF Slot
  <2>2. s # None
    BY ControlPlaneAssumption
  <2> QED BY <1>5, <2>1, <2>2
<1>8. \A k \in DOMAIN new : Fresh(old, new[k])
  <2>1. Fresh(old, e)
    BY <1>4, FreshAdvance
  <2>2. Fresh(old, f)
    BY <1>4, FreshEnd
  <2> QED BY <1>5, <2>1, <2>2
<1>9. ASSUME run.state \notin Ended
      PROVE  /\ \A k \in DOMAIN new : Reached(run, new[k])
             /\ \A x \in SoundEvents : Reached(old, x) => Reached(run, x)
  <2>1. DOMAIN new = {1}
    BY <1>5, <1>9 DEF Ended
  <2>2. run.sources[s].state = to /\ Rank(to) \in 1 .. 9 /\ Rank(to) <= Rank(to)
    BY StepOf DEF MovedOn
  <2>3. Reached(run, e)
    BY <1>4, <2>2 DEF Reached
  <2>4. ASSUME NEW q \in Sources, NEW k \in 1 .. 9, k <= Rank(old.sources[q].state)
        PROVE  k <= Rank(run.sources[q].state)
    BY SMTT(30), <2>2, <2>4, StepOf DEF MovedOn
  <2>5. run.plan = old.plan /\ run.approval = old.approval
    BY DEF MovedOn
  <2>6. ASSUME NEW x \in SoundEvents, Reached(old, x) PROVE Reached(run, x)
    BY SMTT(30), <2>4, <2>5, <2>6, ReachedStill
  <2> QED BY <1>5, <2>1, <2>3, <2>6
<1>10. ASSUME NEW q \in Sources
       PROVE  \/ TellingIn(new, DOMAIN new, q) = {} /\ run.sources[q].state = old.sources[q].state
              \/ ToldBy(new, DOMAIN new, q, run.sources[q].state)
  <2>1. s # None
    BY ControlPlaneAssumption
  <2>2. ~ \E t \in Tells : t[1] = "migration.completed"
    BY TellsOne
  <2>3. CASE q = s
    <3>1. run.sources[q].state = to /\ <<e.type, to>> \in Tells
      BY <1>4, <2>3, StepStages DEF MovedOn
    <3>2. \E t \in Tells : t[1] = e.type
      BY <3>1
    <3>3. TellingIn(new, DOMAIN new, q) = {1}
      BY <1>4, <1>5, <2>2, <2>3, <3>2 DEF TellingIn
    <3>4. <<new[1].type, run.sources[q].state>> \in Tells /\ 1 <= 1
      BY <1>5, <3>1
    <3> QED BY ONLY <3>3, <3>4 DEF ToldBy
  <2>4. CASE q # s
    <3>1. TellingIn(new, DOMAIN new, q) = {}
      BY <1>4, <1>5, <2>1, <2>2, <2>4 DEF TellingIn
    <3> QED BY <2>4, <3>1 DEF MovedOn
  <2> QED BY <2>3, <2>4
<1>11. \A k \in DOMAIN new : new[k].run = r
  BY <1>4, <1>5
<1>12. Continues(old, run, r, new)
  BY <1>5, <1>7, <1>8, <1>9, <1>10, <1>11 DEF Continues
<1>13. Replaces(snap, next, r, run, {})
  <2>1. \A a, b \in next.approvals : a.run = r /\ b.run = r => a = b
    BY <1>6, OneOnRun
  <2>2. DecisionSound(run, next.approvals, r)
    BY <1>2, <1>6
  <2> QED BY <1>6, <2>1, <2>2 DEF Replaces
<1>14. /\ SnapSound(snap) /\ r \in RunIds /\ losses \in 0 .. MaxLosses /\ Len(next.events) <= MaxLog
       /\ old = snap.runs[r] /\ next.events = Log(snap, run, new)
  BY <1>6
<1> QED BY ONLY <1>1, <1>2, <1>12, <1>13, <1>14, StepSound


\* The run with source s failed.
FailedOn(old, run, s, code) ==
    /\ run \in RunRecords /\ run.state = "failed" /\ run.state = DeriveRunState(run.sources)
    /\ run.plan = old.plan /\ run.failure = code /\ run.approval = old.approval
    /\ \A q \in Sources :
         /\ run.sources[q].state = IF q = s THEN "failed" ELSE old.sources[q].state
         /\ run.sources[q].failure = IF q = s THEN code ELSE old.sources[q].failure
         /\ run.sources[q].plan = old.sources[q].plan
         /\ run.sources[q].records = old.sources[q].records

\* FailSource fails one source and the run with it.
LEMMA FailedRun ==
    ASSUME NEW old \in RunRecords, NEW s \in Sources, NEW code \in FailureCodes, NEW sources,
           sources = [old.sources EXCEPT ![s].state = "failed", ![s].failure = code],
           NEW run, run = [old EXCEPT !.sources = sources, !.failure = code,
                                      !.state = DeriveRunState(sources)]
    PROVE  FailedOn(old, run, s, code)
<1>1. old.sources \in [Sources -> SourceRecords] /\ "failed" \in States
  BY RunFields, StatesAre
<1>2. PICK src : src = [old.sources[s] EXCEPT !.state = "failed", !.failure = code]
  OBVIOUS
<1>3. /\ src \in SourceRecords /\ src.state = "failed" /\ src.failure = code
      /\ src.plan = old.sources[s].plan /\ src.records = old.sources[s].records
  BY <1>1, <1>2 DEF SourceRecords
<1>4. PICK half : half = [old.sources EXCEPT ![s].state = "failed"]
  OBVIOUS
<1>5. sources = [half EXCEPT ![s].failure = code]
  BY <1>4
<1>6. half = [old.sources EXCEPT ![s] = [old.sources[s] EXCEPT !.state = "failed"]]
  BY <1>1, <1>4
<1>7. sources = [q \in Sources |-> IF q = s THEN src ELSE old.sources[q]]
  BY <1>1, <1>2, <1>5, <1>6
<1>8. /\ sources \in [Sources -> SourceRecords]
      /\ \A q \in Sources : sources[q] = IF q = s THEN src ELSE old.sources[q]
  BY ONLY <1>1, <1>3, <1>7
<1>9. DeriveRunState(sources) = "failed"
  BY <1>3, <1>8, Derived
<1>10. /\ run \in RunRecords /\ run.sources = sources /\ run.state = DeriveRunState(sources)
       /\ run.plan = old.plan /\ run.failure = code /\ run.approval = old.approval
  BY <1>1, <1>8, <1>9 DEF RunRecords
<1> QED BY <1>3, <1>8, <1>9, <1>10 DEF FailedOn

\* FailSource makes a sound snapshot of a sound one and only adds to it.
LEMMA FailSound ==
    ASSUME NEW snap, SnapSound(snap), NEW r \in RunIds, NEW s \in Sources, NEW code \in FailureCodes,
           NEW old, old = snap.runs[r], Live(snap, r), old.sources[s].state \notin Ended,
           NEW run, FailedOn(old, run, s, code),
           losses \in 0 .. MaxLosses, NEW new,
           new = <<Event(r, s, "source.failed"), Event(r, None, "migration.failed")>>,
           NEW next, next = Changed(snap, r, run, new), Len(next.events) <= MaxLog
    PROVE  SnapSound(next) /\ Grown(snap, next)
<1>1. /\ old \in RunRecords /\ old # None /\ old.state \notin Ended
      /\ StageSound(old) /\ DecisionSound(old, snap.approvals, r) /\ old.failure = None
      /\ \A q \in Sources : old.sources[q].state \notin {"failed", "cancelled"} /\ old.sources[q].failure = None
  BY LiveRun
<1>2. /\ run \in RunRecords /\ run.state = "failed" /\ run.state = DeriveRunState(run.sources)
      /\ run.plan = old.plan /\ run.failure = code /\ run.approval = old.approval
      /\ \A q \in Sources :
           /\ run.sources[q].state = IF q = s THEN "failed" ELSE old.sources[q].state
           /\ run.sources[q].failure = IF q = s THEN code ELSE old.sources[q].failure
           /\ run.sources[q].plan = old.sources[q].plan
           /\ run.sources[q].records = old.sources[q].records
  BY DEF FailedOn
<1>3. PICK e, f : e = Event(r, s, "source.failed") /\ f = Event(r, None, "migration.failed")
  OBVIOUS
<1>0. code # None /\ s # None
  BY ControlPlaneAssumption
<1>4. /\ e \in NewEvents /\ e.run = r /\ e.source = s /\ e.type = "source.failed"
      /\ f \in NewEvents /\ f.run = r /\ f.source = None /\ f.type = "migration.failed"
  <2>1. "migration.failed" \in PortfolioEvents /\ "migration.failed" \notin SourceEvents
          /\ "source.failed" \in SourceEvents
    BY SourceEventsAre DEF PortfolioEvents
  <2> QED BY <1>0, <1>3, <2>1, EventIs
<1>5. new \in Seq(NewEvents) /\ new # <<>> /\ new[1] = e /\ DOMAIN new = {1, 2} /\ new[2] = f
  <2>1. new = <<e, f>>
    BY <1>3
  <2> QED BY ONLY <1>4, <2>1
<1>6. /\ next.runs = [snap.runs EXCEPT ![r] = run]
      /\ next.approvals = snap.approvals \cup {}
      /\ next.events = Log(snap, run, new)
      /\ next = [runs |-> next.runs, approvals |-> next.approvals, events |-> next.events]
  <2>1. snap \in SnapshotRecords /\ r \in RunIds /\ next = Changed(snap, r, run, new)
    BY DEF SnapSound
  <2> QED BY ONLY <2>1, ChangedIs
<1>7. StageSound(run)
  <2>1. \A q \in Sources : run.sources[q].state = "failed" <=> run.sources[q].failure # None
    BY <1>0, <1>1, <1>2
  <2>2. run.plan = None => run.approval = None /\ \A q \in Sources : run.sources[q].state \in Early
    BY <1>1, <1>2 DEF StageSound, Early
  <2>3. run.plan # None =>
         /\ run.plan = PortfolioPlanDigest(run.sources)
         /\ \A q \in Sources : run.sources[q].plan # None
    BY <1>1, <1>2 DEF StageSound, PortfolioPlanDigest
  <2>4. run.plan # None /\ run.approval = None =>
         \A q \in Sources : run.sources[q].state \in AtGate
    BY <1>1, <1>2 DEF StageSound, AtGate
  <2> QED BY <1>0, <1>2, <2>1, <2>2, <2>3, <2>4 DEF StageSound
<1>8. DecisionSound(run, next.approvals, r)
  <2>1. next.approvals = snap.approvals
    BY <1>6
  <2>2. ASSUME NEW a \in snap.approvals, a.run = r
        PROVE  \A q \in Sources :
              run.sources[q].state \in IF a.decision = "approve" THEN Behind ELSE {"cancelled"}
    <3>1. \A q \in Sources :
              old.sources[q].state \in IF a.decision = "approve" THEN Behind ELSE {"cancelled"}
      BY <1>1, <2>2 DEF DecisionSound
    <3>2. a.decision = "approve"
      BY <1>1, <3>1
    <3> QED BY <1>2, <3>1, <3>2 DEF Behind
  <2> QED BY <1>1, <1>2, <2>1, <2>2 DEF DecisionSound
<1>9. RunGrown(old, run)
  <2>1. run # None /\ \A q \in Sources : old.sources[q].records \in Nat
    BY <1>1, <1>2, RunFields
  <2>2. \A q \in Sources : old.sources[q].plan \in {None, run.sources[q].plan}
    BY <1>2
  <2>3. \A q \in Sources : old.sources[q].records <= run.sources[q].records
    BY <1>2, <2>1
  <2> QED BY <1>1, <2>1, <2>2, <2>3 DEF RunGrown
<1>10. \A j, k \in DOMAIN new : Slot(new[j]) = Slot(new[k]) => j = k
  <2>1. Slot(e) = <<s, "source.verification.completed">> /\ Slot(f) = <<None, "migration.completed">>
    BY <1>4 DEF Slot
  <2> QED BY <1>0, <1>5, <2>1
<1>11. \A k \in DOMAIN new : Fresh(old, new[k])
  <2>1. Fresh(old, e)
    <3>1. old.sources[e.source].state \in States \ Ended
      BY <1>1, <1>4, RunFields
    <3> QED BY <1>4, <3>1, FreshFailed
  <2>2. Fresh(old, f)
    BY <1>4, FreshEnd
  <2> QED BY <1>5, <2>1, <2>2
<1>12. ASSUME NEW q \in Sources
       PROVE  \/ TellingIn(new, DOMAIN new, q) = {} /\ run.sources[q].state = old.sources[q].state
              \/ ToldBy(new, DOMAIN new, q, run.sources[q].state)
  <2>1. /\ ~ \E t \in Tells : t[1] = "migration.failed"
        /\ \E t \in Tells : t[1] = "source.failed"
    BY TellsOne
  <2>2. CASE q = s
    <3>1. TellingIn(new, DOMAIN new, q) = {1}
      BY <1>4, <1>5, <2>1, <2>2 DEF TellingIn
    <3>2. <<new[1].type, run.sources[q].state>> \in Tells
      BY <1>2, <1>4, <1>5, <2>2, TellsAre
    <3> QED BY <3>1, <3>2 DEF ToldBy
  <2>3. CASE q # s
    <3>1. TellingIn(new, DOMAIN new, q) = {}
      BY <1>0, <1>4, <1>5, <2>1, <2>3 DEF TellingIn
    <3> QED BY <1>2, <2>3, <3>1
  <2> QED BY <2>2, <2>3
<1>13. Continues(old, run, r, new)
  <2>1. \A k \in DOMAIN new : new[k].run = r
    BY <1>4, <1>5
  <2> QED BY <1>2, <1>5, <1>10, <1>11, <1>12, <2>1 DEF Continues, Ended
<1>14. Replaces(snap, next, r, run, {})
  <2>1. \A a, b \in next.approvals : a.run = r /\ b.run = r => a = b
    BY <1>6, OneOnRun
  <2> QED BY <1>6, <1>8, <2>1 DEF Replaces
<1>15. /\ SnapSound(snap) /\ r \in RunIds /\ losses \in 0 .. MaxLosses /\ Len(next.events) <= MaxLog
       /\ old = snap.runs[r] /\ next.events = Log(snap, run, new)
  BY <1>6
<1> QED BY ONLY <1>1, <1>2, <1>7, <1>9, <1>13, <1>14, <1>15, StepSound


\* The run with all its sources in state st.
AllAt(old, run, st) ==
    /\ run \in RunRecords /\ run.state = st /\ run.state = DeriveRunState(run.sources)
    /\ run.failure = old.failure
    /\ \A q \in Sources :
         /\ run.sources[q].state = st /\ run.sources[q].failure = old.sources[q].failure
         /\ run.sources[q].plan = old.sources[q].plan
         /\ run.sources[q].records = old.sources[q].records

SourcesSet(old, sources, st) ==
    /\ sources \in [Sources -> SourceRecords] /\ DeriveRunState(sources) = st
    /\ \A q \in Sources :
         /\ sources[q].state = st /\ sources[q].failure = old.sources[q].failure
         /\ sources[q].plan = old.sources[q].plan
         /\ sources[q].records = old.sources[q].records

\* Sources that are set to state st, whatever else becomes of the run.
LEMMA SourcesAt ==
    ASSUME NEW old \in RunRecords, NEW st \in States, NEW sources,
           sources = [s \in Sources |-> [old.sources[s] EXCEPT !.state = st]]
    PROVE  SourcesSet(old, sources, st)
<1>1. \A q \in Sources : old.sources[q] \in SourceRecords
  BY RunFields
<1>2. ASSUME NEW q \in Sources
      PROVE  /\ sources[q] \in SourceRecords
             /\ sources[q].state = st /\ sources[q].failure = old.sources[q].failure
             /\ sources[q].plan = old.sources[q].plan
             /\ sources[q].records = old.sources[q].records
  <2>1. PICK src : src = old.sources[q]
    OBVIOUS
  <2>2. sources[q] = [src EXCEPT !.state = st] /\ src \in SourceRecords
    BY <1>1, <2>1
  <2>3. PICK new : new = sources[q]
    OBVIOUS
  <2>4. /\ new \in SourceRecords /\ new.state = st /\ new.failure = src.failure
        /\ new.plan = src.plan /\ new.records = src.records
    BY ONLY <2>2, <2>3, st \in States DEF SourceRecords
  <2> QED BY <2>1, <2>3, <2>4
<1>3. sources \in [Sources -> SourceRecords]
  BY <1>2
<1>4. DeriveRunState(sources) = st
  <2>1. st \in States /\ \A s \in Sources : sources[s].state = st
    BY <1>2
  <2> QED BY ONLY <1>3, <2>1, DerivedAlike
<1> QED BY <1>2, <1>3, <1>4 DEF SourcesSet

\* EnterAwaitingApproval takes all sources to the gate and fixes the
\* portfolio's digest.
LEMMA GatedRun ==
    ASSUME NEW old \in RunRecords, NEW run, run = Gated(old)
    PROVE  /\ AllAt(old, run, "awaiting_approval") /\ run.approval = old.approval
           /\ run.plan = PortfolioPlanDigest(run.sources) /\ run.plan # None
<1>1. PICK sources : sources = [s \in Sources |-> [old.sources[s] EXCEPT !.state = "awaiting_approval"]]
  OBVIOUS
<1>2. /\ sources \in [Sources -> SourceRecords] /\ DeriveRunState(sources) = "awaiting_approval"
      /\ \A q \in Sources :
           /\ sources[q].state = "awaiting_approval" /\ sources[q].failure = old.sources[q].failure
           /\ sources[q].plan = old.sources[q].plan
           /\ sources[q].records = old.sources[q].records
  <2>1. "awaiting_approval" \in States /\ old \in RunRecords
    BY StatesAre
  <2>2. SourcesSet(old, sources, "awaiting_approval")
    BY ONLY <1>1, <2>1, SourcesAt
  <2> QED BY <2>2 DEF SourcesSet
<1>3. run = [old EXCEPT !.sources = sources, !.state = DeriveRunState(sources),
                        !.plan = PortfolioPlanDigest(sources)]
  BY <1>1 DEF Gated
<1>4. PortfolioPlanDigest(sources) \in Plans
  BY <1>2 DEF PortfolioPlanDigest, Plans, SourceRecords
<1>5. /\ run \in RunRecords /\ run.state = "awaiting_approval" /\ run.sources = sources
      /\ run.failure = old.failure /\ run.approval = old.approval
      /\ run.plan = PortfolioPlanDigest(sources)
  <2>1. "awaiting_approval" \in States
    BY StatesAre
  <2> QED BY <1>2, <1>3, <1>4, <2>1 DEF RunRecords
<1> QED BY <1>2, <1>4, <1>5, NoneAssumption DEF AllAt

\* The events of EnterAwaitingApproval, for n sources.
GateTold(r, new, n) ==
    /\ n \in Nat /\ new \in Seq(NewEvents) /\ new # <<>> /\ DOMAIN new = 1 .. (n + 1)
    /\ \A k \in 1 .. n : /\ new[k].run = r /\ new[k].source = Canonical[k]
                         /\ Canonical[k] \in Sources /\ new[k].type = "source.plan.ready"
    /\ new[n + 1].run = r /\ new[n + 1].source = None
    /\ new[n + 1].type = "portfolio.awaiting_approval"

\* It tells of each plan in canonical order, then of the gate.
LEMMA GateEvents ==
    ASSUME NEW r \in RunIds, NEW new,
           new = [k \in DOMAIN Canonical |-> Event(r, Canonical[k], "source.plan.ready")]
                   \o <<Event(r, None, "portfolio.awaiting_approval")>>, NEW n, n = Len(Canonical)
    PROVE  GateTold(r, new, n)
<1>1. PICK t, e : /\ t = [k \in DOMAIN Canonical |-> Event(r, Canonical[k], "source.plan.ready")]
                  /\ e = Event(r, None, "portfolio.awaiting_approval")
  OBVIOUS
<1>2. n \in Nat /\ DOMAIN Canonical = 1 .. n /\ \A k \in 1 .. n : Canonical[k] \in Sources
  BY ControlPlaneAssumption
<1>3. /\ "source.plan.ready" \in SourceEvents /\ "portfolio.awaiting_approval" \in PortfolioEvents
      /\ "portfolio.awaiting_approval" \notin SourceEvents /\ None \notin Sources
  BY SourceEventsAre, ControlPlaneAssumption DEF PortfolioEvents
<1>4. /\ e \in NewEvents /\ e.run = r /\ e.source = None
      /\ e.type = "portfolio.awaiting_approval"
  BY <1>1, <1>3, EventIs
<1>5. ASSUME NEW k \in 1 .. n
      PROVE  /\ t[k] \in NewEvents /\ t[k].run = r /\ t[k].source = Canonical[k]
             /\ t[k].type = "source.plan.ready"
  <2>1. t[k] = Event(r, Canonical[k], "source.plan.ready") /\ Canonical[k] \in Sources
    BY <1>1, <1>2
  <2> QED BY <1>3, <2>1, EventIs
<1>6. t \in Seq(NewEvents) /\ Len(t) = n
  <2>1. t = [k \in 1 .. n |-> t[k]]
    BY <1>1, <1>2
  <2> QED BY ONLY <1>2, <1>5, <2>1
<1>7. <<e>> \in Seq(NewEvents) /\ 1 = Len(<<e>>) /\ <<e>>[1] = e
  BY <1>4
<1>8. new = t \o <<e>>
  BY <1>1
<1>9. /\ new \in Seq(NewEvents) /\ Len(new) = n + 1 /\ DOMAIN new = 1 .. (n + 1)
      /\ \A k \in 1 .. n : new[k] = t[k]
      /\ \A k \in (n + 1) .. (n + 1) : new[k] = <<e>>[k - n]
  BY ONLY <1>6, <1>7, <1>8, InARow
<1>10. new[n + 1] = e
  <2>1. n + 1 \in (n + 1) .. (n + 1) /\ (n + 1) - n = 1
    BY <1>2
  <2> QED BY ONLY <1>7, <1>9, <2>1
<1>11. new # <<>>
  <2> SUFFICES ASSUME new = <<>> PROVE FALSE
    OBVIOUS
  <2>1. Len(new) = 0
    OBVIOUS
  <2> QED BY ONLY <1>2, <1>9, <2>1
<1>12. \A k \in 1 .. n : /\ new[k].run = r /\ new[k].source = Canonical[k]
                         /\ Canonical[k] \in Sources /\ new[k].type = "source.plan.ready"
  BY ONLY <1>2, <1>5, <1>9
<1> QED BY ONLY <1>2, <1>4, <1>9, <1>10, <1>11, <1>12 DEF GateTold

\* EnterAwaitingApproval makes a sound snapshot of a sound one and only adds
\* to it.
LEMMA EnterSound ==
    ASSUME NEW snap, SnapSound(snap), NEW r \in RunIds, NEW old, old = snap.runs[r], Live(snap, r),
           \A s \in Sources : old.sources[s].state = "planning" /\ old.sources[s].plan # None,
           NEW run, AllAt(old, run, "awaiting_approval"), run.approval = old.approval,
           run.plan = PortfolioPlanDigest(run.sources), run.plan # None,
           losses \in 0 .. MaxLosses, NEW new, NEW n, n = Len(Canonical), GateTold(r, new, n),
           NEW next, next = Changed(snap, r, run, new), Len(next.events) <= MaxLog
    PROVE  SnapSound(next) /\ Grown(snap, next)
<1> /\ n \in Nat /\ new \in Seq(NewEvents) /\ new # <<>> /\ DOMAIN new = 1 .. (n + 1)
    /\ \A k \in 1 .. n : /\ new[k].run = r /\ new[k].source = Canonical[k]
                         /\ Canonical[k] \in Sources /\ new[k].type = "source.plan.ready"
    /\ new[n + 1].run = r /\ new[n + 1].source = None
    /\ new[n + 1].type = "portfolio.awaiting_approval"
  BY DEF GateTold
<1>1. /\ old \in RunRecords /\ old # None /\ old.state \notin Ended
      /\ StageSound(old) /\ DecisionSound(old, snap.approvals, r) /\ old.failure = None
      /\ \A q \in Sources : old.sources[q].state \notin {"failed", "cancelled"} /\ old.sources[q].failure = None
  BY LiveRun
<1>2. old.plan = None /\ old.approval = None
  <2>1. PICK s \in Sources : TRUE
    BY SourceHere
  <2>2. old.plan = None
    <3> SUFFICES ASSUME old.plan # None PROVE FALSE
      OBVIOUS
    <3>1. old.approval = None => old.sources[s].state \in AtGate
      BY <1>1 DEF StageSound
    <3>2. PICK a \in snap.approvals : a.run = r
      BY <1>1, <3>1 DEF DecisionSound, AtGate
    <3>3. old.sources[s].state \in IF a.decision = "approve" THEN Behind ELSE {"cancelled"}
      BY <1>1, <3>2 DEF DecisionSound
    <3> QED BY <3>3 DEF Behind
  <2> QED BY <1>1, <2>2 DEF StageSound
<1>3. run \in RunRecords /\ run.state = "awaiting_approval"
  BY DEF AllAt
<1>4. StageSound(run)
  <2>1. \A q \in Sources : run.sources[q].state = "failed" <=> run.sources[q].failure # None
    BY <1>1 DEF AllAt
  <2>2. \A q \in Sources : run.sources[q].plan # None /\ run.sources[q].state \in AtGate
    BY DEF AllAt, AtGate
  <2>3. run.state = DeriveRunState(run.sources) /\ (run.state = "failed" <=> run.failure # None)
    BY <1>1 DEF AllAt
  <2> QED BY <2>1, <2>2, <2>3 DEF StageSound
<1>5. /\ next.runs = [snap.runs EXCEPT ![r] = run]
      /\ next.approvals = snap.approvals \cup {}
      /\ next.events = Log(snap, run, new)
      /\ next = [runs |-> next.runs, approvals |-> next.approvals, events |-> next.events]
  <2>1. snap \in SnapshotRecords /\ r \in RunIds /\ next = Changed(snap, r, run, new)
    BY DEF SnapSound
  <2> QED BY ONLY <2>1, ChangedIs
<1>6. DecisionSound(run, next.approvals, r)
  <2>1. \A a \in snap.approvals : a.run # r
    <3>1. \A a \in snap.approvals : a.id # None
      BY NoneAssumption, SnapFields DEF SnapSound, Approvals
    <3> QED BY <1>1, <1>2, <3>1 DEF DecisionSound
  <2> QED BY <1>2, <1>5, <2>1 DEF DecisionSound
<1>7. RunGrown(old, run)
  <2>1. run # None /\ \A q \in Sources : old.sources[q].records \in Nat
    BY <1>1, <1>3, RunFields
  <2>2. \A q \in Sources : old.sources[q].plan \in {None, run.sources[q].plan}
    BY DEF AllAt
  <2>3. \A q \in Sources : old.sources[q].records <= run.sources[q].records
    BY <2>1 DEF AllAt
  <2> QED BY <1>1, <2>1, <2>2, <2>3 DEF RunGrown
<1>8. \A k \in DOMAIN new : k \in 1 .. n \/ k = n + 1
  OBVIOUS
<1>9. /\ \A k \in 1 .. n : Slot(new[k]) = <<Canonical[k], "source.plan.ready">>
      /\ Slot(new[n + 1]) = <<None, "portfolio.awaiting_approval">>
  BY DEF Slot
<1>10. \A j, k \in DOMAIN new : Slot(new[j]) = Slot(new[k]) => j = k
  <2>1. \A j, k \in 1 .. n : Canonical[j] = Canonical[k] => j = k
    BY SMTT(30), ControlPlaneAssumption
  <2> QED BY <1>8, <1>9, <2>1
<1>11. \A k \in DOMAIN new : Fresh(old, new[k])
  BY <1>2, <1>8, FreshPlan
<1>12. \A k \in DOMAIN new : Reached(run, new[k])
  BY <1>8 DEF Reached
<1>13. ASSUME NEW x \in SoundEvents, Reached(old, x) PROVE Reached(run, x)
  <2>1. ASSUME NEW q \in Sources, NEW k \in 1 .. 9, k <= Rank(old.sources[q].state)
        PROVE  k <= Rank(run.sources[q].state)
    <3>1. old.sources[q].state = "planning" /\ run.sources[q].state = "awaiting_approval"
      BY DEF AllAt
    <3> QED BY <2>1, <3>1, Ranks
  <2>2. old.approval # None => run.approval # None
    OBVIOUS
  <2> QED BY <1>2, <1>13, <2>1, <2>2, ReachedStill
<1>14. ASSUME NEW q \in Sources
       PROVE  ToldBy(new, DOMAIN new, q, run.sources[q].state)
  <2>1. /\ ~ \E t \in Tells : t[1] = "source.plan.ready"
        /\ \E t \in Tells : t[1] = "portfolio.awaiting_approval"
    BY TellsOne
  <2>2. TellingIn(new, DOMAIN new, q) = {n + 1}
    BY <1>8, <2>1 DEF TellingIn
  <2>3. <<new[n + 1].type, run.sources[q].state>> \in Tells
    BY TellsAre DEF AllAt
  <2>4. n + 1 <= n + 1
    OBVIOUS
  <2> QED BY ONLY <2>2, <2>3, <2>4 DEF ToldBy
<1>15. Continues(old, run, r, new)
  <2>1. \A k \in DOMAIN new : new[k].run = r
    BY <1>8
  <2> QED BY <1>10, <1>11, <1>12, <1>13, <1>14, <2>1 DEF Continues
<1>16. Replaces(snap, next, r, run, {})
  <2>1. \A a, b \in next.approvals : a.run = r /\ b.run = r => a = b
    <3>1. next.approvals = snap.approvals
      BY <1>5
    <3> QED BY <3>1 DEF SnapSound
  <2> QED BY <1>5, <1>6, <2>1 DEF Replaces
<1>17. /\ SnapSound(snap) /\ r \in RunIds /\ losses \in 0 .. MaxLosses /\ Len(next.events) <= MaxLog
       /\ old = snap.runs[r] /\ next.events = Log(snap, run, new)
  BY <1>5
<1> QED BY ONLY <1>1, <1>3, <1>4, <1>7, <1>15, <1>16, <1>17, StepSound


\* The events of a decision.
DecisionTold(r, decision, new) ==
    /\ new \in Seq(NewEvents) /\ new # <<>> /\ \A k \in DOMAIN new : new[k].run = r /\ new[k].source = None
    /\ \/ decision = "approve" /\ DOMAIN new = {1} /\ new[1].type = "portfolio.approved"
       \/ /\ decision = "reject" /\ DOMAIN new = {1, 2} /\ new[1].type = "portfolio.rejected"
          /\ new[2].type = "migration.cancelled"

\* What a decision tells.
LEMMA DecisionEvents ==
    ASSUME NEW r \in RunIds, NEW decision \in {"approve", "reject"}, NEW new,
           new = IF decision = "approve"
                  THEN <<Event(r, None, "portfolio.approved")>>
                  ELSE <<Event(r, None, "portfolio.rejected"), Event(r, None, "migration.cancelled")>>
    PROVE  DecisionTold(r, decision, new)
<1>1. PICK e, f, g : /\ e = Event(r, None, "portfolio.approved")
                     /\ f = Event(r, None, "portfolio.rejected")
                     /\ g = Event(r, None, "migration.cancelled")
  OBVIOUS
<1>2. /\ "portfolio.approved" \in PortfolioEvents \ SourceEvents
      /\ "portfolio.rejected" \in PortfolioEvents \ SourceEvents
      /\ "migration.cancelled" \in PortfolioEvents \ SourceEvents
  BY SourceEventsAre DEF PortfolioEvents
<1>3. /\ e \in NewEvents /\ e.run = r /\ e.source = None /\ e.type = "portfolio.approved"
      /\ f \in NewEvents /\ f.run = r /\ f.source = None /\ f.type = "portfolio.rejected"
      /\ g \in NewEvents /\ g.run = r /\ g.source = None /\ g.type = "migration.cancelled"
  BY <1>1, <1>2, EventIs
<1>4. CASE decision = "approve"
  <2>1. new = <<e>>
    BY <1>1, <1>4
  <2>2. new \in Seq(NewEvents) /\ new # <<>> /\ DOMAIN new = {1} /\ new[1] = e
    BY ONLY <1>3, <2>1
  <2> QED BY ONLY <1>3, <1>4, <2>2 DEF DecisionTold
<1>5. CASE decision = "reject"
  <2>1. new = <<f, g>>
    BY <1>1, <1>5
  <2>2. new \in Seq(NewEvents) /\ new # <<>> /\ DOMAIN new = {1, 2} /\ new[1] = f /\ new[2] = g
    BY ONLY <1>3, <2>1
  <2> QED BY ONLY <1>3, <1>5, <2>2 DEF DecisionTold
<1> QED BY <1>4, <1>5

\* a is the decision that run r carries under its id.
DecisionOf(a, r, run, id, decision) ==
    /\ id \in ApprovalIds /\ id[1] = r /\ run.approval = id
    /\ a.id = id /\ a.run = r /\ a.plan = run.plan /\ a.decision = decision
    /\ a.resulting = Resulting(decision) /\ a \in Approvals

DecisionMade(snap, next, r, run, a, new) ==
    /\ next.runs = [snap.runs EXCEPT ![r] = run]
    /\ next.approvals = snap.approvals \cup {a} /\ next.events = Log(snap, run, new)
    /\ next = [runs |-> next.runs, approvals |-> next.approvals, events |-> next.events]

\* Decide makes a sound snapshot of a sound one and only adds to it.
LEMMA DecideSound ==
    ASSUME NEW snap, SnapSound(snap), NEW r \in RunIds, NEW old, old = snap.runs[r], old # None,
           NEW digest, Decidable(old, digest), NEW decision \in {"approve", "reject"},
           NEW run, AllAt(old, run, Resulting(decision)), run.plan = old.plan,
           NEW id, NEW a, DecisionOf(a, r, run, id, decision),
           losses \in 0 .. MaxLosses, NEW new, DecisionTold(r, decision, new),
           NEW next, DecisionMade(snap, next, r, run, a, new), Len(next.events) <= MaxLog
    PROVE  SnapSound(next) /\ Grown(snap, next)
<1> /\ next.runs = [snap.runs EXCEPT ![r] = run]
    /\ next.approvals = snap.approvals \cup {a} /\ next.events = Log(snap, run, new)
    /\ next = [runs |-> next.runs, approvals |-> next.approvals, events |-> next.events]
  BY DEF DecisionMade
<1> /\ id \in ApprovalIds /\ id[1] = r /\ run.approval = id
    /\ a.id = id /\ a.run = r /\ a.plan = run.plan /\ a.decision = decision
    /\ a.resulting = Resulting(decision) /\ a \in Approvals
  BY DEF DecisionOf
<1>0. old.approval = None /\ old.state = "awaiting_approval" /\ old.plan # None
  BY DEF Decidable
<1>1. /\ old \in RunRecords /\ old # None /\ old.state \notin Ended
      /\ StageSound(old) /\ DecisionSound(old, snap.approvals, r) /\ old.failure = None
      /\ \A q \in Sources : old.sources[q].state \notin {"failed", "cancelled"} /\ old.sources[q].failure = None
  <2>1. Live(snap, r)
    BY <1>0 DEF Live, Ended
  <2> QED BY <2>1, LiveRun
<1>2. run \in RunRecords /\ run.state = Resulting(decision) /\ Resulting(decision) \notin {"failed"}
  BY DEF AllAt, Resulting
<1>3. \A q \in Sources : old.sources[q].state = "awaiting_approval"
  BY <1>0, <1>1 DEF StageSound, AtGate
<1>4. id # None
  BY NoneAssumption
<1>5. StageSound(run)
  <2>1. \A q \in Sources : run.sources[q].state = "failed" <=> run.sources[q].failure # None
    BY <1>1, <1>2 DEF AllAt
  <2>2. \A q \in Sources : run.sources[q].plan # None
    BY <1>0, <1>1 DEF AllAt, StageSound
  <2>3. run.state = DeriveRunState(run.sources) /\ (run.state = "failed" <=> run.failure # None)
    BY <1>1, <1>2 DEF AllAt
  <2>4. run.plan = PortfolioPlanDigest(run.sources)
    BY <1>0, <1>1 DEF AllAt, StageSound, PortfolioPlanDigest
  <2> QED BY <1>0, <1>4, <2>1, <2>2, <2>3, <2>4 DEF StageSound
<1>6. \A b \in snap.approvals : b.run # r
  <2>1. \A b \in snap.approvals : b.id # None
    BY NoneAssumption, SnapFields DEF SnapSound, Approvals
  <2> QED BY <1>0, <1>1, <2>1 DEF DecisionSound
<1>7. DecisionSound(run, next.approvals, r)
  <2>1. \A q \in Sources :
          run.sources[q].state \in IF a.decision = "approve" THEN Behind ELSE {"cancelled"}
    BY DEF AllAt, Resulting, Behind
  <2> QED BY <1>6, <2>1 DEF DecisionSound
<1>8. RunGrown(old, run)
  <2>1. run # None /\ \A q \in Sources : old.sources[q].records \in Nat
    BY <1>1, <1>2, RunFields
  <2>2. \A q \in Sources : old.sources[q].plan \in {None, run.sources[q].plan}
    BY DEF AllAt
  <2>3. \A q \in Sources : old.sources[q].records <= run.sources[q].records
    BY <2>1 DEF AllAt
  <2> QED BY <1>1, <2>1, <2>2, <2>3 DEF RunGrown
<1>9. Replaces(snap, next, r, run, {a})
  <2>1. \A b, c \in next.approvals : b.run = r /\ c.run = r => b = c
    BY <1>6
  <2>2. {a} \subseteq Approvals /\ \A b \in {a} : b.run = r
    OBVIOUS
  <2> QED BY <1>7, <2>1, <2>2 DEF Replaces
<1>10. \A j, k \in DOMAIN new : Slot(new[j]) = Slot(new[k]) => j = k
  BY SMTT(30) DEF DecisionTold, Slot
<1>11. \A k \in DOMAIN new : Fresh(old, new[k])
  <2>1. ASSUME NEW k \in DOMAIN new PROVE Fresh(old, new[k])
    <3>1. new[k].source = None
      BY DEF DecisionTold
    <3>2. new[k].type \in {"portfolio.approved", "portfolio.rejected", "migration.cancelled"}
      BY DEF DecisionTold
    <3> QED BY <1>0, <3>1, <3>2, FreshDecision, FreshEnd
  <2> QED BY <2>1
<1>12. ASSUME run.state \notin Ended
       PROVE  /\ \A k \in DOMAIN new : Reached(run, new[k])
              /\ \A x \in SoundEvents : Reached(old, x) => Reached(run, x)
  <2>1. decision = "approve" /\ Resulting(decision) = "approved"
    BY <1>2, <1>12 DEF Resulting, Ended
  <2>2. \A k \in DOMAIN new : Reached(run, new[k])
    BY <1>4, <2>1 DEF DecisionTold, Reached
  <2>3. ASSUME NEW x \in SoundEvents, Reached(old, x) PROVE Reached(run, x)
    <3>1. ASSUME NEW q \in Sources, NEW k \in 1 .. 9, k <= Rank(old.sources[q].state)
          PROVE  k <= Rank(run.sources[q].state)
      <4>1. old.sources[q].state = "awaiting_approval" /\ run.sources[q].state = "approved"
        BY <1>3, <2>1 DEF AllAt
      <4> QED BY <3>1, <4>1, Ranks
    <3>2. (old.approval # None => run.approval # None) /\ (old.plan # None => run.plan # None)
      BY <1>4
    <3> QED BY <2>3, <3>1, <3>2, ReachedStill
  <2> QED BY <2>2, <2>3
<1>13. ASSUME NEW q \in Sources
       PROVE  ToldBy(new, DOMAIN new, q, run.sources[q].state)
  <2>1. /\ \E t \in Tells : t[1] = "portfolio.approved"
        /\ ~ \E t \in Tells : t[1] = "portfolio.rejected"
        /\ \E t \in Tells : t[1] = "migration.cancelled"
        /\ <<"portfolio.approved", "approved">> \in Tells
        /\ <<"migration.cancelled", "cancelled">> \in Tells
    BY TellsOne, TellsAre
  <2>2. CASE decision = "approve"
    <3>1. TellingIn(new, DOMAIN new, q) = {1} /\ new[1].type = "portfolio.approved"
      BY <2>1, <2>2 DEF TellingIn, DecisionTold
    <3>2. run.sources[q].state = "approved"
      BY <2>2 DEF AllAt, Resulting
    <3> QED BY ONLY <2>1, <3>1, <3>2 DEF ToldBy
  <2>3. CASE decision = "reject"
    <3>1. TellingIn(new, DOMAIN new, q) = {2} /\ new[2].type = "migration.cancelled"
      BY <2>1, <2>3 DEF TellingIn, DecisionTold
    <3>2. run.sources[q].state = "cancelled"
      BY <2>3 DEF AllAt, Resulting
    <3> QED BY ONLY <2>1, <3>1, <3>2 DEF ToldBy
  <2> QED BY <2>2, <2>3
<1>14. Continues(old, run, r, new)
  <2>1. new \in Seq(NewEvents) /\ new # <<>> /\ \A k \in DOMAIN new : new[k].run = r
    BY DEF DecisionTold
  <2> QED BY <1>10, <1>11, <1>12, <1>13, <2>1 DEF Continues
<1>15. /\ SnapSound(snap) /\ r \in RunIds /\ losses \in 0 .. MaxLosses /\ Len(next.events) <= MaxLog
       /\ old = snap.runs[r] /\ next.events = Log(snap, run, new)
  OBVIOUS
<1> QED BY ONLY <1>1, <1>2, <1>5, <1>8, <1>9, <1>14, <1>15, StepSound

-----------------------------------------------------------------------------
(* The store. *)

\* What is stored and what the instances serve.  An instance that may write
\* serves what is stored; what it serves else is behind it.  What was answered
\* is in what is stored and in what a power loss leaves.
StoreSound(ho, hd, sf, mem, rev, ack) ==
    /\ SnapSound(sf) /\ SnapSound(ack)
    /\ hd = None => sf = EmptySnapshot /\ ack = EmptySnapshot /\ \A i \in Instances : rev[i] = 0
    /\ hd # None =>
         /\ SnapSound(hd.snap) /\ Grown(ack, hd.snap) /\ Grown(ack, sf)
         /\ \A i \in Instances : rev[i] <= hd.revision
    /\ \A i \in Instances : mem[i] # None =>
         /\ hd # None /\ SnapSound(mem[i]) /\ Grown(mem[i], hd.snap)
         /\ ~ho \/ rev[i] = hd.revision => mem[i] = hd.snap
         /\ ~ho => \A j \in Instances : mem[j] # None => j = i

StoreInv == TypeOK /\ ~refused /\ StoreSound(hosted, head, safe, memory, revision, acked)

\* The empty snapshot is sound.
LEMMA EmptySound == SnapSound(EmptySnapshot)
<1>1. EmptySnapshot \in SnapshotRecords
  <2>1. <<>> \in Seq(Events)
    OBVIOUS
  <2> QED BY <2>1 DEF EmptySnapshot, SnapshotRecords
<1>2. /\ EmptySnapshot.events = <<>> /\ EmptySnapshot.approvals = {}
      /\ \A r \in RunIds : EmptySnapshot.runs[r] = None
  BY DEF EmptySnapshot
<1>3. DOMAIN EmptySnapshot.events = {}
  BY <1>2
<1> QED BY <1>1, <1>2, <1>3 DEF SnapSound

\* What the stored object holds.
LEMMA HeadFields ==
    ASSUME NEW hd \in Heads
    PROVE  hd.snap \in SnapshotRecords /\ hd.revision \in Nat /\ hd # None
BY NoneAssumption DEF Heads

\* A command's result is written, or its write fails one way or the other.
LEMMA CommitSound ==
    ASSUME StoreInv, NEW i \in Instances, memory[i] # None, NEW next, SnapSound(next),
           Grown(memory[i], next), Commit(i, next)
    PROVE  StoreInv' /\ (head # None => head' # None /\ Grown(head.snap, head'.snap))
<1>1. ValidSnapshot(next)
  BY SoundIsValid
<1>2. ~refused' /\ refused' \in BOOLEAN /\ hosted' = hosted /\ losses' = losses
  BY <1>1 DEF Commit, StoreInv
<1>3. Written(i, next) \/ Unheard(i, next) \/ Unsynced(i, next)
  BY <1>1 DEF Commit
<1>4. /\ head # None /\ head \in Heads /\ head.revision \in Nat
      /\ memory \in [Instances -> SnapshotRecords \cup {None}] /\ revision \in [Instances -> Nat]
      /\ hosted \in BOOLEAN /\ faults \in 0 .. MaxFaults /\ losses \in 0 .. MaxLosses
      /\ safe \in SnapshotRecords /\ acked \in SnapshotRecords /\ MaxFaults \in Nat
  BY HeadFields, ControlPlaneAssumption DEF StoreInv, StoreSound, TypeOK
<1>5. /\ SnapSound(head.snap) /\ SnapSound(safe) /\ SnapSound(acked)
      /\ Grown(acked, head.snap) /\ Grown(acked, safe)
      /\ \A j \in Instances : revision[j] <= head.revision
      /\ \A j \in Instances : memory[j] # None =>
           /\ SnapSound(memory[j]) /\ Grown(memory[j], head.snap)
           /\ ~hosted \/ revision[j] = head.revision => memory[j] = head.snap
           /\ ~hosted => \A k \in Instances : memory[k] # None => k = j
  BY <1>4 DEF StoreInv, StoreSound
<1>6. memory[i] = head.snap
  BY <1>3, <1>5 DEF Written, Unheard, Unsynced, Current
<1>7. PICK v \in Nat : v = IF hosted THEN head.revision + 1 ELSE head.revision
  BY <1>4
<1>8. head' = [snap |-> next, revision |-> v]
  BY <1>3, <1>7 DEF Written, Unheard, Unsynced, Stored
<1>9. /\ next \in SnapshotRecords /\ head' \in Heads /\ head'.snap = next /\ head'.revision = v
      /\ head' # None /\ next # None
  <2>1. next \in SnapshotRecords
    BY DEF SnapSound
  <2> QED BY <1>8, <2>1, NoneAssumption DEF Heads
<1>10. Grown(head.snap, next) /\ Grown(next, next)
  BY <1>6, GrownSame
<1>11. Grown(acked, next) /\ \A j \in Instances : memory[j] # None => Grown(memory[j], next)
  BY <1>5, <1>10, GrownOn
<1>12. /\ v >= head.revision /\ (hosted => v > head.revision)
       /\ \A j \in Instances : revision[j] <= v /\ (hosted => revision[j] # v)
  BY <1>4, <1>5, <1>7
<1>13. CASE Written(i, next)
  <2>1. /\ safe' = next /\ acked' = next /\ faults' = faults
        /\ memory' = [memory EXCEPT ![i] = next] /\ revision' = [revision EXCEPT ![i] = v]
    BY <1>9, <1>13 DEF Written
  <2>2. /\ \A j \in Instances : memory'[j] = IF j = i THEN next ELSE memory[j]
        /\ \A j \in Instances : revision'[j] = IF j = i THEN v ELSE revision[j]
    BY <1>4, <2>1
  <2>3. TypeOK'
    <3>1. memory' \in [Instances -> SnapshotRecords \cup {None}] /\ revision' \in [Instances -> Nat]
      BY <1>4, <1>9, <2>1
    <3> QED BY <1>2, <1>4, <1>9, <2>1, <3>1 DEF TypeOK
  <2>4. \A j \in Instances : revision'[j] <= v
    BY <1>12, <2>2
  <2>5. ASSUME NEW j \in Instances, memory'[j] # None
        PROVE  /\ SnapSound(memory'[j]) /\ Grown(memory'[j], next)
               /\ ~hosted \/ revision'[j] = v => memory'[j] = next
               /\ ~hosted => \A k \in Instances : memory'[k] # None => k = j
    <3>1. CASE j = i
      BY <1>5, <1>10, <2>2, <3>1
    <3>2. CASE j # i
      <4>1. memory'[j] = memory[j] /\ revision'[j] = revision[j]
        BY <2>2, <3>2
      <4>2. hosted
        BY <1>5, <2>5, <3>2, <4>1
      <4> QED BY <1>5, <1>11, <1>12, <2>5, <4>1, <4>2
    <3> QED BY <3>1, <3>2
  <2>6. StoreSound(hosted, head', next, memory', revision', next)
    BY <1>9, <1>10, <2>4, <2>5 DEF StoreSound
  <2> QED BY <1>2, <1>9, <1>10, <2>1, <2>3, <2>6 DEF StoreInv
<1>14. CASE Unheard(i, next)
  <2>1. /\ safe' = next /\ acked' = acked /\ faults' = faults + 1 /\ faults < MaxFaults
        /\ memory' = memory /\ revision' = revision /\ hosted
    BY <1>14 DEF Unheard
  <2>2. TypeOK'
    BY <1>2, <1>4, <1>9, <2>1 DEF TypeOK
  <2>3. ASSUME NEW j \in Instances, memory[j] # None
        PROVE  /\ SnapSound(memory[j]) /\ Grown(memory[j], next)
               /\ ~hosted \/ revision[j] = v => memory[j] = next
               /\ ~hosted => \A k \in Instances : memory[k] # None => k = j
    BY <1>5, <1>11, <1>12, <2>1, <2>3
  <2>4. StoreSound(hosted, head', next, memory, revision, acked)
    BY <1>5, <1>9, <1>11, <1>12, <2>3 DEF StoreSound
  <2> QED BY <1>2, <1>9, <1>10, <2>1, <2>2, <2>4 DEF StoreInv
<1>15. CASE Unsynced(i, next)
  <2>1. /\ safe' = safe /\ acked' = acked /\ faults' = faults + 1 /\ faults < MaxFaults /\ ~hosted
        /\ memory' = [memory EXCEPT ![i] = next] /\ revision' = [revision EXCEPT ![i] = v]
    BY <1>9, <1>15 DEF Unsynced
  <2>2. /\ \A j \in Instances : memory'[j] = IF j = i THEN next ELSE memory[j]
        /\ \A j \in Instances : revision'[j] = IF j = i THEN v ELSE revision[j]
    BY <1>4, <2>1
  <2>3. TypeOK'
    <3>1. memory' \in [Instances -> SnapshotRecords \cup {None}] /\ revision' \in [Instances -> Nat]
      BY <1>4, <1>9, <2>1
    <3> QED BY <1>2, <1>4, <1>9, <2>1, <3>1 DEF TypeOK
  <2>4. \A j \in Instances : revision'[j] <= v
    BY <1>12, <2>2
  <2>5. ASSUME NEW j \in Instances, memory'[j] # None PROVE j = i
    BY <1>5, <2>1, <2>2, <2>5
  <2>6. ASSUME NEW j \in Instances, memory'[j] # None
        PROVE  /\ SnapSound(memory'[j]) /\ Grown(memory'[j], next) /\ memory'[j] = next
               /\ \A k \in Instances : memory'[k] # None => k = j
    BY <1>10, <2>2, <2>5, <2>6
  <2>7. StoreSound(hosted, head', safe, memory', revision', acked)
    BY <1>5, <1>9, <1>11, <2>4, <2>6 DEF StoreSound
  <2> QED BY <1>2, <1>9, <1>10, <2>1, <2>3, <2>7 DEF StoreInv
<1> QED BY <1>3, <1>13, <1>14, <1>15


\* A step keeps the store sound, and what is stored only grows.
Keeps == StoreInv' /\ (head # None => head' # None /\ Grown(head.snap, head'.snap))

\* CreateRun, however its write ends, keeps store and instances sound.
LEMMA CreateKeeps ==
    ASSUME StoreInv, NEW i \in Instances, NEW r \in RunIds, NEW name \in Names, CreateRun(i, r, name)
    PROVE  Keeps
<1>1. PICK next : next = Changed(memory[i], r, NewRun(name), <<Event(r, None, "migration.created")>>)
  OBVIOUS
<1>2. memory[i] # None /\ memory[i].runs[r] = None /\ Commit(i, next) /\ Len(next.events) <= MaxLog
  BY <1>1 DEF CreateRun, Commit
<1>3. SnapSound(memory[i]) /\ losses \in 0 .. MaxLosses
  BY <1>2 DEF StoreInv, StoreSound, TypeOK
<1>4. SnapSound(next) /\ Grown(memory[i], next)
  BY <1>1, <1>2, <1>3, CreateSound
<1> QED BY <1>2, <1>4, CommitSound DEF Keeps

\* AdvanceSource, however its write ends, keeps store and instances sound.
LEMMA AdvanceKeeps ==
    ASSUME StoreInv, NEW i \in Instances, NEW r \in RunIds, NEW s \in Sources,
           NEW to \in DOMAIN AdvanceSteps, NEW count \in Counts \cup {None},
           AdvanceSource(i, r, s, to, count)
    PROVE  Keeps
<1>1. PICK snap, old : snap = memory[i] /\ old = snap.runs[r]
  OBVIOUS
<1>2. PICK sources : sources = [old.sources EXCEPT ![s] = Advanced(@, to, count)]
  OBVIOUS
<1>3. PICK run : run = [old EXCEPT !.sources = sources, !.state = DeriveRunState(sources)]
  OBVIOUS
<1>4. PICK new : new = <<Event(r, s, AdvanceSteps[to].type)>> \o
                 IF run.state = "completed" THEN <<Event(r, None, "migration.completed")>> ELSE <<>>
  OBVIOUS
<1>5. PICK next : next = Changed(snap, r, run, new)
  OBVIOUS
<1>6. /\ snap # None /\ Live(snap, r) /\ old.sources[s].state = AdvanceSteps[to].from
      /\ CountAccepted(old.sources[s], count) /\ Commit(i, next)
  BY <1>1, <1>2, <1>3, <1>4, <1>5 DEF AdvanceSource
<1>7. Len(next.events) <= MaxLog
  BY <1>6 DEF Commit
<1>8. SnapSound(snap) /\ losses \in 0 .. MaxLosses
  BY <1>1, <1>6 DEF StoreInv, StoreSound, TypeOK
<1>9. old \in RunRecords
  BY <1>1, <1>6, <1>8, LiveRun
<1>10. s \in Sources /\ to \in DOMAIN AdvanceSteps /\ count \in Counts \cup {None} /\ r \in RunIds
  OBVIOUS
<1>11. MovedOn(old, run, s, to)
  BY ONLY <1>2, <1>3, <1>6, <1>9, <1>10, AdvancedRun
<1>12. SnapSound(next) /\ Grown(snap, next)
  BY ONLY <1>1, <1>4, <1>5, <1>6, <1>7, <1>8, <1>10, <1>11, AdvanceSound
<1>13. SnapSound(next) /\ Grown(memory[i], next) /\ memory[i] # None /\ Commit(i, next)
         /\ StoreInv /\ i \in Instances
  BY <1>1, <1>6, <1>12
<1> QED BY ONLY <1>13, CommitSound DEF Keeps

\* AttachSourcePlan, however its write ends, keeps store and instances sound.
LEMMA AttachKeeps ==
    ASSUME StoreInv, NEW i \in Instances, NEW r \in RunIds, NEW s \in Sources,
           NEW digest \in Digests, AttachSourcePlan(i, r, s, digest)
    PROVE  Keeps
<1>1. PICK snap : snap = memory[i]
  OBVIOUS
<1>2. PICK run : run = [snap.runs[r] EXCEPT !.sources[s].plan = digest]
  OBVIOUS
<1>3. PICK next : next = Changed(snap, r, run, <<>>)
  OBVIOUS
<1>4. snap # None /\ Live(snap, r) /\ Plannable(snap.runs[r].sources[s]) /\ Commit(i, next)
  BY <1>1, <1>2, <1>3 DEF AttachSourcePlan
<1>5. Len(next.events) <= MaxLog
  BY <1>4 DEF Commit
<1>6. SnapSound(snap) /\ losses \in 0 .. MaxLosses
  BY <1>1, <1>4 DEF StoreInv, StoreSound, TypeOK
<1>7. s \in Sources /\ digest \in Digests /\ r \in RunIds
  OBVIOUS
<1>8. SnapSound(next) /\ Grown(snap, next)
  BY ONLY <1>2, <1>3, <1>4, <1>5, <1>6, <1>7, AttachSound
<1>9. SnapSound(next) /\ Grown(memory[i], next) /\ memory[i] # None /\ Commit(i, next)
         /\ StoreInv /\ i \in Instances
  BY <1>1, <1>4, <1>8
<1> QED BY ONLY <1>9, CommitSound DEF Keeps

\* EnterAwaitingApproval, however its write ends, keeps store and instances
\* sound.
LEMMA EnterKeeps ==
    ASSUME StoreInv, NEW i \in Instances, NEW r \in RunIds, EnterAwaitingApproval(i, r)
    PROVE  Keeps
<1>1. PICK snap, old : snap = memory[i] /\ old = snap.runs[r]
  OBVIOUS
<1>2. PICK run : run = Gated(old)
  OBVIOUS
<1>3. PICK new : new = [k \in DOMAIN Canonical |-> Event(r, Canonical[k], "source.plan.ready")]
                         \o <<Event(r, None, "portfolio.awaiting_approval")>>
  OBVIOUS
<1>4. PICK next : next = Changed(snap, r, run, new)
  OBVIOUS
<1>5. /\ snap # None /\ Live(snap, r) /\ Commit(i, next)
      /\ \A s \in Sources : old.sources[s].state = "planning" /\ old.sources[s].plan # None
  BY <1>1, <1>2, <1>3, <1>4 DEF EnterAwaitingApproval
<1>6. Len(next.events) <= MaxLog
  BY <1>5 DEF Commit
<1>7. SnapSound(snap) /\ losses \in 0 .. MaxLosses /\ r \in RunIds
  BY <1>1, <1>5 DEF StoreInv, StoreSound, TypeOK
<1>8. old \in RunRecords
  BY <1>1, <1>5, <1>7, LiveRun
<1>9. /\ AllAt(old, run, "awaiting_approval") /\ run.approval = old.approval
      /\ run.plan = PortfolioPlanDigest(run.sources) /\ run.plan # None
  BY <1>2, <1>8, GatedRun
<1>10. PICK n : n = Len(Canonical)
  OBVIOUS
<1>11. GateTold(r, new, n)
  BY ONLY <1>3, <1>7, <1>10, GateEvents
<1>12. SnapSound(next) /\ Grown(snap, next)
  BY ONLY <1>1, <1>4, <1>5, <1>6, <1>7, <1>9, <1>10, <1>11, EnterSound
<1>13. SnapSound(next) /\ Grown(memory[i], next) /\ memory[i] # None /\ Commit(i, next)
         /\ StoreInv /\ i \in Instances
  BY <1>1, <1>5, <1>12
<1> QED BY ONLY <1>13, CommitSound DEF Keeps

\* FailSource, however its write ends, keeps store and instances sound.
LEMMA FailKeeps ==
    ASSUME StoreInv, NEW i \in Instances, NEW r \in RunIds, NEW s \in Sources,
           NEW code \in FailureCodes, FailSource(i, r, s, code)
    PROVE  Keeps
<1>1. PICK snap, old : snap = memory[i] /\ old = snap.runs[r]
  OBVIOUS
<1>2. PICK sources : sources = [old.sources EXCEPT ![s].state = "failed", ![s].failure = code]
  OBVIOUS
<1>3. PICK run : run = [old EXCEPT !.sources = sources, !.failure = code,
                                   !.state = DeriveRunState(sources)]
  OBVIOUS
<1>4. PICK new : new = <<Event(r, s, "source.failed"), Event(r, None, "migration.failed")>>
  OBVIOUS
<1>5. PICK next : next = Changed(snap, r, run, new)
  OBVIOUS
<1>6. snap # None /\ Live(snap, r) /\ Commit(i, next) /\ old.sources[s].state \notin Ended
  BY <1>1, <1>2, <1>3, <1>4, <1>5 DEF FailSource
<1>7. Len(next.events) <= MaxLog
  BY <1>6 DEF Commit
<1>8. SnapSound(snap) /\ losses \in 0 .. MaxLosses
  BY <1>1, <1>6 DEF StoreInv, StoreSound, TypeOK
<1>9. old \in RunRecords
  BY <1>1, <1>6, <1>8, LiveRun
<1>10. s \in Sources /\ code \in FailureCodes /\ r \in RunIds
  OBVIOUS
<1>11. FailedOn(old, run, s, code)
  BY ONLY <1>2, <1>3, <1>9, <1>10, FailedRun
<1>12. SnapSound(next) /\ Grown(snap, next)
  BY ONLY <1>1, <1>4, <1>5, <1>6, <1>7, <1>8, <1>10, <1>11, FailSound
<1>13. SnapSound(next) /\ Grown(memory[i], next) /\ memory[i] # None /\ Commit(i, next)
         /\ StoreInv /\ i \in Instances
  BY <1>1, <1>6, <1>12
<1> QED BY ONLY <1>13, CommitSound DEF Keeps

\* Decide, however its write ends, keeps store and instances sound.
LEMMA DecideKeeps ==
    ASSUME StoreInv, NEW i \in Instances, NEW r \in RunIds, NEW decision \in {"approve", "reject"},
           NEW digest \in [Sources -> Digests], Decide(i, r, decision, digest)
    PROVE  Keeps
<1>1. PICK snap, old, id : snap = memory[i] /\ old = snap.runs[r] /\ id = <<r, losses>>
  OBVIOUS
<1>0. PICK st : st = Resulting(decision)
  OBVIOUS
<1>2. PICK sources : sources = [s \in Sources |-> [old.sources[s] EXCEPT !.state = st]]
  OBVIOUS
<1>3. PICK run : run = [old EXCEPT !.sources = sources, !.approval = id, !.state = DeriveRunState(sources)]
  OBVIOUS
<1>4. PICK a : a = [id |-> id, run |-> r, plan |-> run.plan, decision |-> decision,
                    resulting |-> Resulting(decision)]
  OBVIOUS
<1>5. PICK new : new = IF decision = "approve"
                  THEN <<Event(r, None, "portfolio.approved")>>
                  ELSE <<Event(r, None, "portfolio.rejected"), Event(r, None, "migration.cancelled")>>
  OBVIOUS
<1>6. PICK half : half = Changed(snap, r, run, new)
  OBVIOUS
<1>7. PICK next : next = [half EXCEPT !.approvals = @ \cup {a}]
  OBVIOUS
<1>8. snap # None /\ old # None /\ Decidable(old, digest) /\ Commit(i, next)
  BY <1>0, <1>1, <1>2, <1>3, <1>4, <1>5, <1>6, <1>7 DEF Decide
<1>9. Len(next.events) <= MaxLog
  BY <1>8 DEF Commit
<1>10. SnapSound(snap) /\ losses \in 0 .. MaxLosses /\ snap \in SnapshotRecords
  BY <1>1, <1>8 DEF StoreInv, StoreSound, TypeOK, SnapSound
<1>11. old \in RunRecords
  BY <1>1, <1>8, <1>10, SnapFields
<1>12. r \in RunIds /\ decision \in {"approve", "reject"}
  OBVIOUS
<1>13. id \in ApprovalIds /\ id[1] = r
  BY <1>1, <1>10, <1>12 DEF ApprovalIds
<1>14. st \in States /\ st \in {"approved", "cancelled"}
  BY <1>0, StatesAre DEF Resulting
<1>15. AllAt(old, run, st) /\ run.plan = old.plan /\ run.approval = id
  <2>1. SourcesSet(old, sources, st)
    BY ONLY <1>2, <1>11, <1>14, SourcesAt
  <2>2. /\ sources \in [Sources -> SourceRecords] /\ DeriveRunState(sources) = st
        /\ \A q \in Sources :
             /\ sources[q].state = st /\ sources[q].failure = old.sources[q].failure
             /\ sources[q].plan = old.sources[q].plan
             /\ sources[q].records = old.sources[q].records
    BY <2>1 DEF SourcesSet
  <2>3. /\ run \in RunRecords /\ run.state = st /\ run.sources = sources
        /\ run.failure = old.failure /\ run.approval = id /\ run.plan = old.plan
    BY ONLY <1>3, <1>11, <1>13, <1>14, <2>2 DEF RunRecords
  <2> QED BY ONLY <2>2, <2>3 DEF AllAt
<1>16. /\ a.id = id /\ a.run = r /\ a.plan = run.plan /\ a.decision = decision
       /\ a.resulting = st /\ a \in Approvals
  <2>1. old.plan \in Plans
    BY <1>8, <1>11, RunFields DEF Decidable
  <2>2. a = [id |-> id, run |-> r, plan |-> run.plan, decision |-> decision, resulting |-> st]
    BY <1>0, <1>4
  <2> QED BY ONLY <1>12, <1>13, <1>14, <1>15, <2>1, <2>2 DEF Approvals
<1>17. DecisionTold(r, decision, new)
  BY ONLY <1>5, <1>12, DecisionEvents
<1>18. /\ half.runs = [snap.runs EXCEPT ![r] = run]
       /\ half.approvals = snap.approvals \cup {}
       /\ half.events = Log(snap, run, new)
       /\ half = [runs |-> half.runs, approvals |-> half.approvals, events |-> half.events]
  BY ONLY <1>6, <1>10, <1>12, ChangedIs
<1>19. /\ next.runs = half.runs /\ next.approvals = half.approvals \cup {a} /\ next.events = half.events
       /\ next = [runs |-> next.runs, approvals |-> next.approvals, events |-> next.events]
  <2>1. PICK x, y, z : half = [runs |-> x, approvals |-> y, events |-> z]
    BY <1>18
  <2> QED BY ONLY <1>7, <2>1
<1>20. DecisionMade(snap, next, r, run, a, new)
  BY ONLY <1>18, <1>19 DEF DecisionMade
<1>21. /\ DecisionOf(a, r, run, id, decision) /\ AllAt(old, run, Resulting(decision))
       /\ run.plan = old.plan
  BY ONLY <1>0, <1>13, <1>15, <1>16 DEF DecisionOf
<1>23. SnapSound(next) /\ Grown(snap, next)
  <2>1. old = snap.runs[r] /\ old # None /\ Decidable(old, digest)
    BY <1>1, <1>8
  <2> QED BY ONLY <1>9, <1>10, <1>12, <1>17, <1>20, <1>21, <2>1, DecideSound
<1>22. SnapSound(next) /\ Grown(memory[i], next) /\ memory[i] # None /\ Commit(i, next)
         /\ StoreInv /\ i \in Instances
  BY <1>1, <1>8, <1>23
<1> QED BY ONLY <1>22, CommitSound DEF Keeps

\* An instance that opens the store serves a sound snapshot.
LEMMA OpenKeeps ==
    ASSUME StoreInv, NEW i \in Instances, Open(i)
    PROVE  Keeps
<1>1. /\ memory \in [Instances -> SnapshotRecords \cup {None}] /\ revision \in [Instances -> Nat]
      /\ head \in Heads \cup {None} /\ safe \in SnapshotRecords /\ acked \in SnapshotRecords
      /\ memory[i] = None /\ (~hosted => \A j \in Instances : memory[j] = None)
      /\ StoreSound(hosted, head, safe, memory, revision, acked)
  BY DEF StoreInv, TypeOK, Open
<1>2. /\ memory' = [memory EXCEPT ![i] = head'.snap]
      /\ revision' = [revision EXCEPT ![i] = head'.revision]
      /\ UNCHANGED <<hosted, acked, refused, faults, losses>>
  BY DEF Open
<1>3. /\ head' \in Heads /\ head' # None /\ safe' \in SnapshotRecords
      /\ SnapSound(head'.snap) /\ SnapSound(safe')
      /\ Grown(acked, head'.snap) /\ Grown(acked, safe')
      /\ \A j \in Instances : revision[j] <= head'.revision
      /\ head # None => Grown(head.snap, head'.snap)
      /\ \A j \in Instances : memory[j] # None =>
           /\ SnapSound(memory[j]) /\ Grown(memory[j], head'.snap)
           /\ ~hosted \/ revision[j] = head'.revision => memory[j] = head'.snap
  <2>1. CASE head = None
    <3>1. head' = [snap |-> EmptySnapshot, revision |-> 1] /\ safe' = EmptySnapshot
      BY <2>1 DEF Open
    <3>2. acked = EmptySnapshot /\ \A j \in Instances : revision[j] = 0 /\ memory[j] = None
      BY <1>1, <2>1 DEF StoreSound
    <3>3. EmptySnapshot \in SnapshotRecords /\ SnapSound(EmptySnapshot)
            /\ Grown(EmptySnapshot, EmptySnapshot)
      BY EmptySound, GrownSame DEF SnapSound
    <3>4. head' \in Heads /\ head'.snap = EmptySnapshot /\ head'.revision = 1
      BY <3>1, <3>3 DEF Heads
    <3> QED BY ONLY <2>1, <3>1, <3>2, <3>3, <3>4, HeadFields
  <2>2. CASE head # None
    <3>1. head' = head /\ safe' = safe
      BY <2>2 DEF Open
    <3>2. /\ SnapSound(head.snap) /\ SnapSound(safe) /\ Grown(acked, head.snap) /\ Grown(acked, safe)
          /\ \A j \in Instances : revision[j] <= head.revision
          /\ \A j \in Instances : memory[j] # None =>
               /\ SnapSound(memory[j]) /\ Grown(memory[j], head.snap)
               /\ ~hosted \/ revision[j] = head.revision => memory[j] = head.snap
      BY <1>1, <2>2 DEF StoreSound
    <3> QED BY <1>1, <2>2, <3>1, <3>2, GrownSame
  <2> QED BY <2>1, <2>2
<1>4. PICK hd \in Heads : hd = head'
  BY <1>3
<1>5. hd.snap \in SnapshotRecords /\ hd.revision \in Nat /\ hd # None /\ Grown(hd.snap, hd.snap)
  BY <1>3, <1>4, HeadFields, GrownSame
<1>6. /\ \A j \in Instances : memory'[j] = IF j = i THEN hd.snap ELSE memory[j]
      /\ \A j \in Instances : revision'[j] = IF j = i THEN hd.revision ELSE revision[j]
  BY <1>1, <1>2, <1>4
<1>7. TypeOK'
  <2>1. memory' \in [Instances -> SnapshotRecords \cup {None}] /\ revision' \in [Instances -> Nat]
    BY <1>1, <1>2, <1>4, <1>5
  <2> QED BY <1>2, <1>3, <2>1 DEF StoreInv, TypeOK
<1>8. \A j \in Instances : revision'[j] <= hd.revision
  BY <1>3, <1>4, <1>5, <1>6
<1>9. ASSUME NEW j \in Instances, memory'[j] # None
      PROVE  /\ SnapSound(memory'[j]) /\ Grown(memory'[j], hd.snap)
             /\ ~hosted \/ revision'[j] = hd.revision => memory'[j] = hd.snap
             /\ ~hosted => \A k \in Instances : memory'[k] # None => k = j
  <2>1. CASE j = i
    BY <1>1, <1>3, <1>4, <1>5, <1>6, <2>1
  <2>2. CASE j # i
    BY <1>1, <1>3, <1>4, <1>6, <1>9, <2>2
  <2> QED BY <2>1, <2>2
<1>10. SnapSound(acked)
  BY <1>1 DEF StoreSound
<1>11. StoreSound(hosted, hd, safe', memory', revision', acked)
  BY <1>3, <1>4, <1>5, <1>8, <1>9, <1>10 DEF StoreSound
<1> QED BY <1>2, <1>3, <1>4, <1>7, <1>11 DEF Keeps, StoreInv

\* One that stops changes nothing in the store.
LEMMA StopKeeps ==
    ASSUME StoreInv, NEW i \in Instances, Stop(i)
    PROVE  Keeps
<1>1. /\ memory \in [Instances -> SnapshotRecords \cup {None}]
      /\ memory' = [memory EXCEPT ![i] = None]
      /\ UNCHANGED <<hosted, head, safe, revision, acked, refused, faults, losses>>
      /\ StoreSound(hosted, head, safe, memory, revision, acked)
  BY DEF StoreInv, TypeOK, Stop
<1>2. \A j \in Instances : memory'[j] # None => memory'[j] = memory[j] /\ memory[j] # None
  BY <1>1
<1>3. TypeOK'
  <2>1. memory' \in [Instances -> SnapshotRecords \cup {None}]
    BY <1>1
  <2> QED BY <1>1, <2>1 DEF StoreInv, TypeOK
<1>4. StoreSound(hosted, head, safe, memory', revision, acked)
  BY <1>1, <1>2 DEF StoreSound
<1>5. head # None => Grown(head.snap, head.snap)
  BY <1>1, GrownSame DEF StoreSound
<1> QED BY <1>1, <1>3, <1>4, <1>5 DEF Keeps, StoreInv

\* After a power loss what is stored may be an earlier snapshot, but never one
\* from before the last command that was answered.
LEMMA LossKeeps == ASSUME StoreInv, PowerLoss PROVE StoreInv' /\ losses' # losses
<1>1. /\ head # None /\ head \in Heads /\ losses \in 0 .. MaxLosses /\ losses < MaxLosses
      /\ losses' = losses + 1 /\ memory' = [j \in Instances |-> None] /\ MaxLosses \in Nat
      /\ UNCHANGED <<hosted, revision, acked, refused, faults>>
      /\ safe \in SnapshotRecords /\ StoreSound(hosted, head, safe, memory, revision, acked)
  BY ControlPlaneAssumption DEF StoreInv, TypeOK, PowerLoss
<1>2. /\ SnapSound(head.snap) /\ SnapSound(safe) /\ SnapSound(acked)
      /\ Grown(acked, head.snap) /\ Grown(acked, safe)
      /\ \A j \in Instances : revision[j] <= head.revision
      /\ head.snap \in SnapshotRecords /\ head.revision \in Nat
  BY <1>1, HeadFields DEF StoreSound
<1>3. PICK hd : hd = head'
  OBVIOUS
<1>4. /\ hd \in Heads /\ hd.revision = head.revision
      /\ hd.snap \in {head.snap, safe} /\ safe' \in {head.snap, safe}
  BY <1>1, <1>2, <1>3 DEF PowerLoss, Heads
<1>5. hd # None
  BY <1>4, HeadFields
<1>6. \A j \in Instances : memory'[j] = None
  BY <1>1
<1>7. StoreSound(hosted, hd, safe', memory', revision, acked)
  BY <1>2, <1>4, <1>5, <1>6 DEF StoreSound
<1>8. TypeOK'
  <2>1. memory' \in [Instances -> SnapshotRecords \cup {None}] /\ losses' \in 0 .. MaxLosses
    BY <1>1
  <2>2. head' \in Heads /\ safe' \in SnapshotRecords
    BY <1>1, <1>2, <1>3, <1>4
  <2> QED BY <1>1, <2>1, <2>2 DEF StoreInv, TypeOK
<1> QED BY <1>1, <1>3, <1>7, <1>8 DEF StoreInv

\* A step that changes nothing keeps everything.
LEMMA StutterKeeps == ASSUME StoreInv, UNCHANGED vars PROVE Keeps
<1>1. UNCHANGED <<hosted, head, safe, memory, revision, acked, refused, faults, losses>>
  BY DEF vars
<1>2. StoreInv'
  BY <1>1 DEF StoreInv, TypeOK
<1>3. head # None => Grown(head.snap, head.snap)
  BY GrownSame DEF StoreInv, StoreSound
<1> QED BY <1>1, <1>2, <1>3 DEF Keeps

\* The invariant holds at the start.
LEMMA InitSound == Init => StoreInv
<1> SUFFICES ASSUME Init PROVE StoreInv
  OBVIOUS
<1>1. /\ hosted \in BOOLEAN /\ head = None /\ safe = EmptySnapshot /\ acked = EmptySnapshot
      /\ memory = [i \in Instances |-> None] /\ revision = [i \in Instances |-> 0]
      /\ refused = FALSE /\ faults = 0 /\ losses = 0
  BY DEF Init
<1>2. EmptySnapshot \in SnapshotRecords /\ SnapSound(EmptySnapshot)
  BY EmptySound DEF SnapSound
<1>3. /\ \A i \in Instances : memory[i] = None /\ revision[i] = 0
      /\ memory \in [Instances -> SnapshotRecords \cup {None}] /\ revision \in [Instances -> Nat]
  BY <1>1
<1>4. TypeOK
  <2>1. faults \in 0 .. MaxFaults /\ losses \in 0 .. MaxLosses
    BY <1>1, ControlPlaneAssumption
  <2> QED BY <1>1, <1>2, <1>3, <2>1, Zenon DEF TypeOK
<1>5. StoreSound(hosted, head, safe, memory, revision, acked)
  BY <1>1, <1>2, <1>3 DEF StoreSound
<1> QED BY <1>1, <1>4, <1>5 DEF StoreInv

\* Every step keeps the store sound, and only a power loss takes anything back.
LEMMA NextKeeps ==
    ASSUME StoreInv, [Next]_vars
    PROVE  StoreInv' /\ (losses' = losses => Keeps)
<1>1. CASE UNCHANGED vars
  BY <1>1, StutterKeeps DEF Keeps
<1>2. CASE PowerLoss
  BY <1>2, LossKeeps
<1>3. ASSUME NEW i \in Instances, Open(i) \/ Stop(i) PROVE Keeps
  BY <1>3, OpenKeeps, StopKeeps
<1>4. ASSUME NEW i \in Instances, NEW r \in RunIds, \E name \in Names : CreateRun(i, r, name)
      PROVE  Keeps
  BY <1>4, CreateKeeps
<1>5. ASSUME NEW i \in Instances, NEW r \in RunIds,
             \E s \in Sources, to \in DOMAIN AdvanceSteps, count \in Counts \cup {None} :
                AdvanceSource(i, r, s, to, count)
      PROVE  Keeps
  BY <1>5, AdvanceKeeps
<1>6. ASSUME NEW i \in Instances, NEW r \in RunIds,
             \E s \in Sources, digest \in Digests : AttachSourcePlan(i, r, s, digest)
      PROVE  Keeps
  BY <1>6, AttachKeeps
<1>7. ASSUME NEW i \in Instances, NEW r \in RunIds, EnterAwaitingApproval(i, r) PROVE Keeps
  BY <1>7, EnterKeeps
<1>8. ASSUME NEW i \in Instances, NEW r \in RunIds,
             \E s \in Sources, code \in FailureCodes : FailSource(i, r, s, code)
      PROVE  Keeps
  BY <1>8, FailKeeps
<1>9. ASSUME NEW i \in Instances, NEW r \in RunIds,
             \E decision \in {"approve", "reject"}, digest \in [Sources -> Digests] :
                Decide(i, r, decision, digest)
      PROVE  Keeps
  BY <1>9, DecideKeeps
<1>10. ASSUME ~ UNCHANGED vars, ~ PowerLoss PROVE Keeps
  BY <1>3, <1>4, <1>5, <1>6, <1>7, <1>8, <1>9, <1>10 DEF Next
<1> QED BY <1>1, <1>2, <1>10 DEF Keeps

-----------------------------------------------------------------------------
(* What a sound store means to those who use it. *)

\* Every snapshot in use is sound.
LEMMA AllSound == ASSUME StoreInv, NEW snap \in Snapshots PROVE SnapSound(snap)
<1>1. StoreSound(hosted, head, safe, memory, revision, acked)
  BY DEF StoreInv
<1>2. \/ snap = safe \/ snap = acked \/ (head # None /\ snap = head.snap)
      \/ \E i \in Instances : memory[i] # None /\ snap = memory[i]
  BY DEF Snapshots
<1> QED BY <1>1, <1>2 DEF StoreSound

\* The log of a snapshot is a prefix of the log of what has grown from it.
LEMMA GrownPrefix ==
    ASSUME NEW a, NEW b, SnapSound(a), SnapSound(b), Grown(a, b)
    PROVE  IsPrefix(a.events, b.events)
<1>1. /\ a.events \in Seq(Events) /\ b.events \in Seq(Events)
      /\ DOMAIN a.events = 1 .. Len(a.events) /\ Len(a.events) \in Nat /\ Len(b.events) \in Nat
  BY SnapFields DEF SnapSound
<1>2. /\ Len(a.events) <= Len(b.events)
      /\ \A k \in 1 .. Len(a.events) : b.events[k] = a.events[k]
  BY <1>1 DEF Grown
<1>3. PICK u \in Seq(Events), v \in Seq(Events) : u = a.events /\ v = b.events
  BY <1>1
<1>4. Len(u) <= Len(v) /\ \A k \in 1 .. Len(u) : v[k] = u[k]
  BY <1>2, <1>3
<1>5. SubSeq(u, 1, Len(u)) = SubSeq(v, 1, Len(u))
  BY ONLY <1>3, <1>4
<1> QED BY <1>3, <1>4, <1>5 DEF IsPrefix

\* A sound run that executes carries the decision that approved its plans.
LEMMA SoundIsApproved ==
    ASSUME NEW snap, SnapSound(snap), NEW r \in RunIds, snap.runs[r] # None, NEW q \in Sources,
           snap.runs[r].sources[q].state \in {"approved", "executing", "verifying", "completed"}
    PROVE  \E a \in snap.approvals :
             /\ a.run = r /\ a.decision = "approve"
             /\ \A s \in Sources : a.plan[s] = snap.runs[r].sources[s].plan /\ a.plan[s] # None
<1>1. PICK run : run = snap.runs[r]
  OBVIOUS
<1>2. StageSound(run) /\ DecisionSound(run, snap.approvals, r)
  BY <1>1 DEF SnapSound, RunSound
<1>3. run.plan # None
  BY <1>1, <1>2 DEF StageSound, Early
<1>4. run.approval # None
  BY <1>1, <1>2, <1>3 DEF StageSound, AtGate
<1>5. PICK a \in snap.approvals : a.run = r /\ a.id = run.approval
  BY <1>2, <1>4 DEF DecisionSound
<1>6. snap.approvals \subseteq Approvals
  BY SnapFields DEF SnapSound
<1>7. a.decision \in {"approve", "reject"}
  BY <1>6 DEF Approvals
<1>8. a.decision = "approve"
  BY <1>1, <1>2, <1>5, <1>7 DEF DecisionSound
<1>9. a.plan = PortfolioPlanDigest(run.sources) /\ \A s \in Sources : run.sources[s].plan # None
  BY <1>2, <1>3, <1>5 DEF DecisionSound, StageSound
<1>10. \A s \in Sources : a.plan[s] = run.sources[s].plan
  BY <1>9 DEF PortfolioPlanDigest
<1> QED BY <1>1, <1>5, <1>8, <1>9, <1>10

\* Max is the greatest of a set of numbers.
LEMMA GreatestIs ==
    ASSUME NEW S, S \subseteq Nat, NEW k \in S, \A j \in S : j <= k
    PROVE  Max(S) = k
<1>1. \A y \in S : k >= y
  OBVIOUS
<1>2. Max(S) \in S /\ \A y \in S : Max(S) >= y
  BY <1>1 DEF Max
<1>3. PICK x \in Nat : x = Max(S) /\ x \in S
  BY <1>2
<1>4. k >= x /\ x >= k /\ k \in Nat
  BY <1>1, <1>2, <1>3
<1> QED BY ONLY <1>3, <1>4

\* A sound log determines the states of the run.
LEMMA SoundIsTold ==
    ASSUME NEW snap, SnapSound(snap), NEW r \in RunIds, snap.runs[r] # None
    PROVE  /\ \A s \in Sources : snap.runs[r].sources[s].state = Told(snap, r, s)
           /\ snap.runs[r].state = snap.events[Max(RunEvents(snap, r))].state
<1>1. PICK run, ev, E : run = snap.runs[r] /\ ev = snap.events /\ E = RunEvents(snap, r)
  OBVIOUS
<1>2. LogOK(run, ev, E)
  BY <1>1 DEF SnapSound, RunSound
<1>3. E \subseteq Nat
  <2>1. DOMAIN snap.events = 1 .. Len(snap.events) /\ Len(snap.events) \in Nat
    BY SnapFields DEF SnapSound
  <2> QED BY <1>1, <2>1 DEF RunEvents
<1>4. ASSUME NEW s \in Sources PROVE run.sources[s].state = Told(snap, r, s)
  <2>1. TellingIn(ev, E, s) = Telling(snap, r, s) /\ TellingIn(ev, E, s) \subseteq Nat
    BY <1>1, <1>3 DEF TellingIn, Telling
  <2>2. PICK k \in TellingIn(ev, E, s) :
          (\A j \in TellingIn(ev, E, s) : j <= k) /\ <<ev[k].type, run.sources[s].state>> \in Tells
    BY <1>2 DEF LogOK, ToldBy
  <2>3. Max(Telling(snap, r, s)) = k
    BY ONLY <2>1, <2>2, GreatestIs
  <2>4. /\ run.sources[s].state \in States
        /\ \A st : <<ev[k].type, st>> \in Tells => st = run.sources[s].state
    BY ONLY <2>2, TellsOne
  <2> QED BY <1>1, <2>2, <2>3, <2>4 DEF Told
<1>5. run.state = ev[Max(E)].state
  <2>1. PICK k \in E : (\A j \in E : j <= k) /\ ev[k].state = run.state
    BY <1>2 DEF LogOK, LastState
  <2>2. Max(E) = k
    BY ONLY <1>3, <2>1, GreatestIs
  <2> QED BY <2>1, <2>2
<1> QED BY <1>1, <1>4, <1>5

\* A page read from a snapshot goes on right after the cursor in any snapshot
\* that grew from it.
LEMMA PageGapless ==
    ASSUME NEW m, NEW h, SnapSound(m), SnapSound(h), Grown(m, h), NEW r \in RunIds,
           NEW from \in {0} \cup RunEvents(h, r),
           NEW cursor, cursor = IF from = 0 THEN None ELSE h.events[from].id,
           CursorKnown(m, r, cursor), NEW k \in EventsAfter(m, r, cursor)
    PROVE  /\ k \in RunEvents(h, r) /\ from < k /\ m.events[k] = h.events[k]
           /\ \A j \in RunEvents(h, r) : from < j /\ j < k => j \in EventsAfter(m, r, cursor)
<1>1. /\ DOMAIN m.events = 1 .. Len(m.events) /\ DOMAIN h.events = 1 .. Len(h.events)
      /\ Len(m.events) \in Nat /\ Len(h.events) \in Nat /\ Len(m.events) <= Len(h.events)
      /\ \A j \in DOMAIN m.events : m.events[j] = h.events[j] /\ m.events[j].id[1] = j
      /\ \A j \in DOMAIN h.events : h.events[j].id[1] = j /\ h.events[j].id # None
  <2>1. \A j \in DOMAIN h.events : h.events[j].id \in EventIds
    BY SnapFields DEF SnapSound, Events
  <2> QED BY <2>1, SnapFields, NoneAssumption DEF SnapSound, Grown
<1>2. \A j : j \in RunEvents(m, r) <=> j \in RunEvents(h, r) /\ j <= Len(m.events)
  BY <1>1 DEF RunEvents
<1>3. After(m, r, cursor) = from /\ from \in Nat
  <2>1. CASE from = 0
    BY <2>1 DEF After
  <2>2. CASE from # 0
    <3>1. from \in DOMAIN h.events /\ cursor = h.events[from].id
      BY <2>2 DEF RunEvents
    <3>2. cursor # None /\ cursor[1] = from
      BY <1>1, <3>1
    <3>3. Positions(m, r, cursor) # {} /\ \A j \in Positions(m, r, cursor) : j = from
      BY <1>1, <3>2 DEF CursorKnown, Positions, RunEvents
    <3> QED BY <1>1, <3>1, <3>2, <3>3 DEF After
  <2> QED BY <2>1, <2>2
<1>4. EventsAfter(m, r, cursor) =
        {j \in RunEvents(m, r) : from < j /\ Cardinality(Between(m, r, from, j)) < PageLimit}
  BY <1>3 DEF EventsAfter
<1>5. k \in RunEvents(m, r) /\ from < k /\ Cardinality(Between(m, r, from, k)) < PageLimit
  BY <1>4
<1>6. k \in RunEvents(h, r) /\ k \in DOMAIN m.events /\ k \in Nat /\ k <= Len(m.events)
  BY <1>1, <1>2, <1>5 DEF RunEvents
<1>7. ASSUME NEW j \in RunEvents(h, r), from < j, j < k PROVE j \in EventsAfter(m, r, cursor)
  <2>1. j \in Nat
    BY <1>1 DEF RunEvents
  <2>2. j \in RunEvents(m, r)
    BY <1>1, <1>2, <1>6, <1>7, <2>1
  <2>3. Between(m, r, from, j) \subseteq Between(m, r, from, k)
    <3>1. ASSUME NEW x \in Between(m, r, from, j) PROVE x \in Between(m, r, from, k)
      <4>1. x \in RunEvents(m, r) /\ from < x /\ x < j
        BY DEF Between
      <4>2. x \in Nat
        BY <1>1, <4>1 DEF RunEvents
      <4>3. x < k
        BY ONLY <1>6, <1>7, <2>1, <4>1, <4>2
      <4> QED BY <4>1, <4>3 DEF Between
    <3> QED BY <3>1
  <2>4. Between(m, r, from, k) \subseteq 1 .. Len(m.events)
    BY <1>1 DEF Between, RunEvents
  <2>5. IsFiniteSet(Between(m, r, from, k))
    <3>1. IsFiniteSet(1 .. Len(m.events))
      BY <1>1, FS_Interval
    <3> QED BY ONLY <2>4, <3>1, FS_Subset
  <2>6. /\ IsFiniteSet(Between(m, r, from, j))
        /\ Cardinality(Between(m, r, from, j)) <= Cardinality(Between(m, r, from, k))
    BY <2>3, <2>5, FS_Subset
  <2>7. /\ Cardinality(Between(m, r, from, j)) \in Nat /\ Cardinality(Between(m, r, from, k)) \in Nat
        /\ PageLimit \in Nat
    BY <2>5, <2>6, FS_CardinalityType, ControlPlaneAssumption
  <2>8. \A x, y, z \in Nat : x <= y /\ y < z => x < z
    OBVIOUS
  <2>9. Cardinality(Between(m, r, from, j)) < PageLimit
    BY ONLY <1>5, <2>6, <2>7, <2>8
  <2> QED BY <1>4, <1>7, <2>2, <2>9
<1> QED BY <1>1, <1>5, <1>6, <1>7

-----------------------------------------------------------------------------
(* The theorems. *)

\* The invariant holds in every reachable state.
LEMMA StoreInvariant == Spec => []StoreInv
<1>1. StoreInv /\ [Next]_vars => StoreInv'
  BY NextKeeps
<1> QED BY <1>1, InitSound, PTL DEF Spec

\* cpValidateSnapshot never turns down what the store's own commands make, and
\* every stored snapshot can be opened again, with any number of runs, sources
\* and instances, and with the event limit of cpMaxEventsPerRun.
THEOREM NeverTurnedDown == Spec => []NeverSelfRefused
<1>1. StoreInv => NeverSelfRefused
  BY SoundIsValid DEF StoreInv, StoreSound, NeverSelfRefused
<1> QED BY <1>1, StoreInvariant, PTL

\* Wherever a snapshot is held, a source that executes is covered by the one
\* decision that approved exactly the plans its run carries.
THEOREM ExecutionIsApproved == Spec => []ExecutionApproved
<1>1. StoreInv => ExecutionApproved
  BY AllSound, SoundIsApproved DEF ExecutionApproved
<1> QED BY <1>1, StoreInvariant, PTL

\* The snapshots are well formed, and their events determine the states of the
\* sources and of the portfolio.
THEOREM LogIsSound == Spec => []LogSound
<1>1. ASSUME StoreInv PROVE LogTells
  BY <1>1, AllSound, SoundIsTold DEF LogTells
<1>2. StoreInv => LogSound
  BY <1>1 DEF LogSound, StoreInv
<1> QED BY <1>2, StoreInvariant, PTL

\* A command that was answered with success is in every snapshot that another
\* instance or a power loss can leave.
THEOREM AcksAreDurable == Spec => []AckDurable
<1>1. ASSUME StoreInv, head # None, NEW snap \in {head.snap, safe}
      PROVE  /\ IsPrefix(acked.events, snap.events)
             /\ acked.approvals \subseteq snap.approvals
             /\ \A r \in RunIds : acked.runs[r] # None =>
                   \A s \in Sources : acked.runs[r].sources[s].plan
                                         \in {None, snap.runs[r].sources[s].plan}
  <2>1. SnapSound(acked) /\ SnapSound(snap) /\ Grown(acked, snap)
    BY <1>1 DEF StoreInv, StoreSound
  <2>2. IsPrefix(acked.events, snap.events)
    BY <2>1, GrownPrefix
  <2> QED BY <2>1, <2>2 DEF Grown, RunGrown
<1>2. StoreInv => AckDurable
  BY <1>1 DEF AckDurable
<1> QED BY <1>2, StoreInvariant, PTL

\* A client that resumes its event stream on any instance misses no event and
\* sees none twice, whatever the page limit.
THEOREM StreamsAreGapless == Spec => []StreamGapless
<1>1. ASSUME StoreInv, NEW i \in Instances, memory[i] # None
      PROVE  SnapSound(memory[i]) /\ SnapSound(head.snap) /\ Grown(memory[i], head.snap)
  BY <1>1 DEF StoreInv, StoreSound
<1>2. StoreInv => StreamGapless
  BY <1>1, PageGapless DEF StreamGapless
<1> QED BY <1>2, StoreInvariant, PTL

\* Except for what a power loss takes back, events, decisions, bound plans and
\* counts stay as they are stored, and an ended run is final.
THEOREM HistoryIsKept == Spec => HistoryStands
<1>1. ASSUME StoreInv, [Next]_vars, head # None, losses' = losses
      PROVE  /\ IsPrefix(head.snap.events, head'.snap.events)
             /\ head.snap.approvals \subseteq head'.snap.approvals
             /\ \A r \in RunIds : head.snap.runs[r] # None =>
                  RunGrown(head.snap.runs[r], head'.snap.runs[r])
  <2>1. StoreInv' /\ head' # None /\ Grown(head.snap, head'.snap)
    BY <1>1, NextKeeps DEF Keeps
  <2>2. SnapSound(head.snap) /\ SnapSound(head'.snap)
    BY <1>1, <2>1 DEF StoreInv, StoreSound
  <2>3. IsPrefix(head.snap.events, head'.snap.events)
    BY <2>1, <2>2, GrownPrefix
  <2> QED BY <2>1, <2>3 DEF Grown
<1>2. StoreInv /\ [Next]_vars =>
        [head # None /\ losses' = losses =>
         /\ IsPrefix(head.snap.events, head'.snap.events)
         /\ head.snap.approvals \subseteq head'.snap.approvals
         /\ \A r \in RunIds : head.snap.runs[r] # None =>
              LET old == head.snap.runs[r]
                  new == head'.snap.runs[r]
              IN  /\ \A s \in Sources :
                       /\ old.sources[s].plan \in {None, new.sources[s].plan}
                       /\ old.sources[s].records <= new.sources[s].records
                  /\ old.state \in Ended => new = old]_vars
  BY <1>1 DEF RunGrown
<1> QED BY <1>2, StoreInvariant, PTL DEF Spec, HistoryStands
=============================================================================
