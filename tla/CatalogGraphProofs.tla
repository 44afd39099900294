-------------------------- MODULE CatalogGraphProofs --------------------------
(***************************************************************************)
(* Theorems about CatalogGraph for any number of drivers, probes, answers, *)
(* interrupts and crashes.                                                 *)
(***************************************************************************)
EXTENDS CatalogGraph, FiniteSetTheorems, FunctionTheorems, SequenceTheorems, WellFoundedInduction, TLAPS

\* Nodes of the fan-out and the intent's validation run once in a run.
OnceNodes == Kinds \cup {"validate_intent"}

\* Event e may stand at place i of a journal whose run observed `calls`: its
\* operation id names its node, numbered by its place where the node may run
\* again.
Fits(e, i, calls) ==
    \/ e.node \in GraphNodes /\ e.op = <<e.node, i>>
    \/ e.node \in OnceNodes /\ e.op = <<e.node>>
    \/ e.node = "agent" /\ \E c \in calls : e.op = <<"agent", c>>

\* Operation ids are told apart.
Labelled(s) ==
    /\ \A i \in DOMAIN s.events : Fits(s.events[i], i, s.calls)
    /\ \A i, l \in DOMAIN s.events : s.events[i].op = s.events[l].op => i = l

\* Phase, status and pause agree.
Shaped(s) ==
    /\ s.repairs \in 0..MaxRepairs
    /\ \A k \in DOMAIN s.probes : s.probes[k].kind = k
    /\ (s.pending = None) <=> (s.from = None)
    /\ (s.phase = "paused") <=> (s.pending # None)
    /\ s.status = IF s.phase \in Resumable THEN "running"
                  ELSE IF s.phase \in {"routed", "complete"} THEN "succeeded"
                  ELSE IF s.phase = "failed" THEN "failed"
                  ELSE IF s.pending.id.kind = "clarification" THEN "awaiting_input"
                  ELSE "awaiting_approval"

\* Where the run is in the graph, its journal says.
Placed(s) ==
    /\ DOMAIN s.probes = {k \in Kinds : Journaled(s, k)}
    /\ Stage(s) = "complete" => Planned(s)
    /\ Planned(s) => Stage(s) \in {"planning", "complete", "failed"}
    /\ ~Planned(s) =>
         /\ Journaled(s, "validate_intent") <=> Stage(s) # "new"
         /\ Stage(s) \in {"new", "validated"} => ~Journaled(s, "catalog_fanout")
         /\ Stage(s) \in {"probed", "joined", "routed"} => DOMAIN s.probes = Kinds
         /\ Stage(s) \in {"joined", "routed"} => Journaled(s, "catalog_join")
    /\ Stage(s) # "paused"

\* What was asked and answered, and that no answer resumed the run twice.
Asked(s) ==
    /\ Count(s, "interrupt_requested") =
         Count(s, "interrupt_resumed") + (IF s.pending = None THEN 0 ELSE 1)
    /\ Len(s.receipts) = Count(s, "interrupt_resumed")
    /\ \A i, l \in DOMAIN s.receipts : s.receipts[i].key = s.receipts[l].key => i = l
    /\ s.pending # None => s.pending.id.ordinal = Count(s, "interrupt_requested")
    /\ \A i \in Resumptions(s) :
          /\ s.events[i].detail \in InterruptIds
          /\ s.events[i].detail.ordinal <= Count(s, "interrupt_resumed")
    /\ \A i, l \in Resumptions(s) : s.events[i].detail = s.events[l].detail => i = l

\* A snapshot the graph may hold.
Good(s) == s \in Snapshots /\ Shaped(s) /\ Labelled(s) /\ Placed(s) /\ Asked(s)

\* The answers a driver holds cover what its snapshot still lacks.
Covers(j) ==
    j.found # None =>
      /\ j.state.phase = "validated" /\ Pending(j.state) \subseteq DOMAIN j.found
      /\ \A k \in DOMAIN j.found : j.found[k] \in Answers[k]

\* A driver's snapshot is the stored one exactly while its revision is.
Held(d) ==
    /\ Good(job[d].state) /\ Covers(job[d])
    /\ job[d].expect = None =>
         \E b \in Bindings : job[d].state = Snapshot(b, "new") /\ job[d].found = None
    /\ job[d].expect # None =>
         /\ store # None /\ job[d].expect = job[d].state.rev /\ job[d].expect <= store.rev
         /\ job[d].expect = store.rev => job[d].state = store

\* What was handed over is what the run ended with.
Handed == handoff # None => store # None /\ store.phase = "complete"
                             /\ store.events = handoff.journal

Jobs == [state : Snapshots, expect : Nat \cup {None}, found : ProbeMaps \cup {None}]

IndInv ==
    /\ job \in [Drivers -> Jobs \cup {None}]
    /\ store # None => Good(store)
    /\ \A d \in Drivers : job[d] # None => Held(d)
    /\ Handed

-----------------------------------------------------------------------------
(***************************************************************************)
(* Lemmas about the operators of the model.                                *)
(***************************************************************************)
\* A non-empty set of natural numbers has a least element.
LEMMA HasLeast ==
    ASSUME NEW I, I \subseteq Nat, I # {}
    PROVE  \E x \in I : \A y \in I : x <= y
<1>1. PICK x \in I : \A y \in I : ~ (<<y, x>> \in OpToRel(<, Nat))
  BY NatLessThanWellFounded, WFMin
<1>2. \A y \in I : ~ (y < x)
  <2> SUFFICES ASSUME NEW y \in I, y < x PROVE FALSE
    OBVIOUS
  <2> DEFINE p == <<y, x>>
  <2>1. p \in Nat \X Nat
    OBVIOUS
  <2>2. p[1] < p[2]
    OBVIOUS
  <2> HIDE DEF p
  <2>3. p \in OpToRel(<, Nat)
    BY <2>1, <2>2, Zenon DEF OpToRel
  <2>4. p = <<y, x>>
    BY DEF p
  <2> QED
    BY <1>1, <2>3, <2>4, Zenon
<1> QED
  BY <1>2

\* The callback committed next is one of the pending ones.
LEMMA FirstIsPending ==
    ASSUME NEW K, K \subseteq Kinds, K # {}
    PROVE  First(K) \in K
<1> DEFINE I == {i \in DOMAIN Order : Order[i] \in K}
<1>1. I \subseteq Nat /\ I # {}
  BY GraphAssumption DEF Kinds
<1>2. PICK l \in I : \A i \in I : l <= i
  <2> HIDE DEF I
  <2> QED
    BY <1>1, HasLeast
<1>3. Order[l] \in K
  OBVIOUS
<1>4. \A i, m \in DOMAIN Order : Order[m] = Order[l] /\ Order[i] \in K => m <= i
  BY <1>2, GraphAssumption
<1> QED
  BY <1>3, <1>4 DEF First

\* There are as many kinds as the graph's order has places.
LEMMA KindsCounted == IsFiniteSet(Kinds) /\ Cardinality(Kinds) = Len(Order)
<1>1. Len(Order) \in Nat /\ DOMAIN Order = 1..Len(Order) /\ Order \in [1..Len(Order) -> Kinds]
  BY GraphAssumption
<1>2. Order \in Bijection(1..Len(Order), Kinds)
  <2>1. Order \in Injection(1..Len(Order), Kinds)
    BY <1>1, GraphAssumption, Fun_IsInj
  <2>2. \A k \in Kinds : \E i \in 1..Len(Order) : Order[i] = k
    BY <1>1 DEF Kinds
  <2>3. Order \in Surjection(1..Len(Order), Kinds)
    BY <1>1, <2>2, Fun_IsSurj
  <2> QED
    BY <2>1, <2>3 DEF Bijection
<1>3. ExistsBijection(1..Len(Order), Kinds)
  BY <1>2 DEF ExistsBijection
<1>4. IsFiniteSet(1..Len(Order)) /\ Cardinality(1..Len(Order)) = Len(Order)
  BY <1>1, FS_Interval
<1> QED
  BY <1>3, <1>4, FS_Bijection

\* The events of one type are finitely many.
LEMMA CountType ==
    ASSUME NEW s, s.events \in Seq(Events), NEW type
    PROVE  /\ Count(s, type) \in Nat
           /\ IsFiniteSet({i \in DOMAIN s.events : s.events[i].type = type})
<1> DEFINE I == {i \in DOMAIN s.events : s.events[i].type = type}
<1>1. I \in SUBSET (1..Len(s.events)) /\ Len(s.events) \in Nat
  OBVIOUS
<1>2. IsFiniteSet(1..Len(s.events))
  BY <1>1, FS_Interval
<1>3. IsFiniteSet(I)
  BY <1>1, <1>2, FS_Subset
<1> QED
  BY <1>3, FS_CardinalityType DEF Count

\* A journal after one more event.
LEMMA EventAppended ==
    ASSUME NEW s, NEW t, NEW e \in Events, s.events \in Seq(Events),
           t.events = Append(s.events, e)
    PROVE  /\ t.events \in Seq(Events) /\ Len(t.events) = Len(s.events) + 1
           /\ Len(s.events) \in Nat /\ DOMAIN s.events = 1..Len(s.events)
           /\ DOMAIN t.events = 1..(Len(s.events) + 1)
           /\ \A i \in DOMAIN s.events : i \in DOMAIN t.events /\ t.events[i] = s.events[i]
           /\ t.events[Len(s.events) + 1] = e
           /\ \A i \in DOMAIN t.events : i \in DOMAIN s.events \/ i = Len(s.events) + 1
           /\ Len(s.events) + 1 \in DOMAIN t.events /\ Len(s.events) + 1 \notin DOMAIN s.events
OBVIOUS

\* It holds the nodes it held, and the event's.
LEMMA NodeAppended ==
    ASSUME NEW s, NEW t, NEW e \in Events, s.events \in Seq(Events),
           t.events = Append(s.events, e), NEW n
    PROVE  Journaled(t, n) <=> (Journaled(s, n) \/ n = e.node)
<1>1. /\ \A i \in DOMAIN s.events : i \in DOMAIN t.events /\ t.events[i] = s.events[i]
      /\ t.events[Len(s.events) + 1] = e
      /\ \A i \in DOMAIN t.events : i \in DOMAIN s.events \/ i = Len(s.events) + 1
      /\ Len(s.events) + 1 \in DOMAIN t.events
  BY EventAppended
<1> QED
  BY <1>1 DEF Journaled

\* It counts one more event of the event's type.
LEMMA CountAppended ==
    ASSUME NEW s, NEW t, NEW e \in Events, s.events \in Seq(Events),
           t.events = Append(s.events, e), NEW type
    PROVE  /\ Count(s, type) \in Nat
           /\ e.type = type => Count(t, type) = Count(s, type) + 1
           /\ e.type # type => Count(t, type) = Count(s, type)
<1> DEFINE I == {i \in DOMAIN s.events : s.events[i].type = type}
           J == {i \in DOMAIN t.events : t.events[i].type = type}
<1>1. /\ \A i \in DOMAIN s.events : i \in DOMAIN t.events /\ t.events[i] = s.events[i]
      /\ t.events[Len(s.events) + 1] = e
      /\ \A i \in DOMAIN t.events : i \in DOMAIN s.events \/ i = Len(s.events) + 1
      /\ Len(s.events) + 1 \in DOMAIN t.events /\ Len(s.events) + 1 \notin DOMAIN s.events
  BY EventAppended
<1>2. IsFiniteSet(I) /\ Count(s, type) \in Nat
  BY CountType
<1>3. J = IF e.type = type THEN I \cup {Len(s.events) + 1} ELSE I
  BY <1>1
<1>4. Len(s.events) + 1 \notin I
  BY <1>1
<1>5. Count(s, type) = Cardinality(I) /\ Count(t, type) = Cardinality(J)
  BY DEF Count
<1> HIDE DEF I, J
<1> QED
  BY <1>2, <1>3, <1>4, <1>5, FS_AddElement

\* It shows one more resumption when the event is one.
LEMMA ResumptionAppended ==
    ASSUME NEW s, NEW t, NEW e \in Events, s.events \in Seq(Events),
           t.events = Append(s.events, e)
    PROVE  /\ e.type = "interrupt_resumed" =>
                Resumptions(t) = Resumptions(s) \cup {Len(s.events) + 1}
           /\ e.type # "interrupt_resumed" => Resumptions(t) = Resumptions(s)
           /\ \A i \in Resumptions(s) : t.events[i] = s.events[i] /\ i # Len(s.events) + 1
<1>1. /\ \A i \in DOMAIN s.events : i \in DOMAIN t.events /\ t.events[i] = s.events[i]
      /\ t.events[Len(s.events) + 1] = e
      /\ \A i \in DOMAIN t.events : i \in DOMAIN s.events \/ i = Len(s.events) + 1
      /\ Len(s.events) + 1 \in DOMAIN t.events /\ Len(s.events) + 1 \notin DOMAIN s.events
  BY EventAppended
<1> QED
  BY <1>1 DEF Resumptions

\* A one-part operation id is no numbered one.
LEMMA IdsDiffer ==
    ASSUME NEW a, NEW b, NEW c
    PROVE  <<a>> # <<b, c>>
<1>1. Len(<<a>>) = 1 /\ Len(<<b, c>>) = 2
  OBVIOUS
<1> QED
  BY <1>1

\* Event e, whose operation id is new, is journaled.
LEMMA LabelAppended ==
    ASSUME NEW s \in Snapshots, NEW t, NEW e \in Events, Labelled(s),
           t.events = Append(s.events, e), s.calls \subseteq t.calls,
           Fits(e, Len(s.events) + 1, t.calls),
           e.node \in OnceNodes => ~Journaled(s, e.node),
           e.node = "agent" => \E c : c \notin s.calls /\ e.op = <<"agent", c>>
    PROVE  Labelled(t)
<1>0. s.events \in Seq(Events)
  BY DEF Snapshots
<1>1. /\ DOMAIN s.events = 1..Len(s.events) /\ Len(s.events) \in Nat
      /\ \A i \in DOMAIN s.events : i \in DOMAIN t.events /\ t.events[i] = s.events[i]
      /\ t.events[Len(s.events) + 1] = e
      /\ \A i \in DOMAIN t.events : i \in DOMAIN s.events \/ i = Len(s.events) + 1
  BY <1>0, EventAppended
<1>2. \A i \in DOMAIN t.events : Fits(t.events[i], i, t.calls)
  BY <1>1 DEF Labelled, Fits
<1>3. ASSUME NEW i \in DOMAIN s.events
      PROVE  s.events[i].op # e.op
  <2>1. Fits(s.events[i], i, s.calls) /\ i \in Nat /\ i # Len(s.events) + 1
    BY <1>1 DEF Labelled
  <2>2. PICK f : f = s.events[i]
    OBVIOUS
  <2>3. OnceNodes \cap (GraphNodes \cup {"agent"}) = {} /\ "agent" \notin GraphNodes
    BY GraphAssumption DEF OnceNodes, GraphNodes
  <2>4. CASE e.node \in GraphNodes /\ e.op = <<e.node, Len(s.events) + 1>>
    BY <2>1, <2>2, <2>3, <2>4, IdsDiffer DEF Fits
  <2>5. CASE e.node \in OnceNodes /\ e.op = <<e.node>>
    <3>1. f.node # e.node
      BY <2>2, <2>5 DEF Journaled
    <3> QED
      BY <2>1, <2>2, <2>5, <3>1, IdsDiffer DEF Fits
  <2>6. CASE e.node = "agent"
    <3>1. PICK c : c \notin s.calls /\ e.op = <<"agent", c>>
      BY <2>6
    <3> QED
      BY <2>1, <2>2, <2>3, <3>1, IdsDiffer DEF Fits
  <2> QED
    BY <2>4, <2>5, <2>6 DEF Fits
<1>4. ASSUME NEW i \in DOMAIN t.events, NEW l \in DOMAIN t.events,
             t.events[i].op = t.events[l].op
      PROVE  i = l
  BY <1>1, <1>3, <1>4 DEF Labelled
<1> QED
  BY <1>2, <1>4 DEF Labelled

-----------------------------------------------------------------------------
(***************************************************************************)
(* Commits.                                                                *)
(***************************************************************************)
\* The journal of t is that of s with one more event.
Adds(s, t, e) ==
    /\ s \in Snapshots /\ t \in Snapshots /\ e \in Events
    /\ t.events = Append(s.events, e)

\* The parts of a snapshot.
LEMMA Parts ==
    ASSUME NEW s \in Snapshots
    PROVE  /\ s.rev \in Nat /\ s.events \in Seq(Events) /\ Len(s.events) \in Nat
           /\ s.phase \in Resumable \cup {"paused", "routed", "complete", "failed"}
           /\ s.probes \in ProbeMaps /\ s.repairs \in Nat /\ s.calls \in SUBSET Invocations
           /\ s.pending \in InterruptRequests \cup {None} /\ s.from \in Resumable \cup {None}
           /\ s.receipts \in Seq([key : InterruptIds \X Nat \X Keys, text : Texts])
           /\ s.route \in Routes \cup {None} /\ s.binding \in Bindings /\ s # None
BY NoneAssumption DEF Snapshots

\* Snapshot u with event e and a revision more.
Grows(u, t, e) == t = [u EXCEPT !.rev = @ + 1, !.events = Append(@, e)]

\* It is a snapshot.
LEMMA EventCommitted ==
    ASSUME NEW u \in Snapshots, NEW e \in Events, NEW t, Grows(u, t, e)
    PROVE  /\ t \in Snapshots /\ t.rev = u.rev + 1 /\ t.events = Append(u.events, e)
           /\ t.binding = u.binding /\ t.phase = u.phase /\ t.status = u.status
           /\ t.probes = u.probes /\ t.route = u.route /\ t.repairs = u.repairs
           /\ t.pending = u.pending /\ t.from = u.from /\ t.receipts = u.receipts
           /\ t.calls = u.calls
<1>1. Append(u.events, e) \in Seq(Events) /\ u.rev + 1 \in Nat
  BY Parts
<1> QED
  BY <1>1 DEF Snapshots, Grows

\* What _commit makes of the snapshot u.
LEMMA CommittedIs ==
    ASSUME NEW u \in Snapshots, NEW type, NEW node, NEW op, NEW detail,
           Event(type, node, op, detail) \in Events, NEW t, t = Committed(u, type, node, op, detail)
    PROVE  /\ t \in Snapshots /\ t.rev = u.rev + 1
           /\ t.events = Append(u.events, Event(type, node, op, detail))
           /\ t.binding = u.binding /\ t.phase = u.phase /\ t.status = u.status
           /\ t.probes = u.probes /\ t.route = u.route /\ t.repairs = u.repairs
           /\ t.pending = u.pending /\ t.from = u.from /\ t.receipts = u.receipts
           /\ t.calls = u.calls
<1>1. Append(u.events, Event(type, node, op, detail)) \in Seq(Events) /\ u.rev + 1 \in Nat
  BY Parts
<1> QED
  BY <1>1 DEF Committed, Snapshots

\* A numbered event of the graph's own nodes.
LEMMA NumberedEvent ==
    ASSUME NEW s, s.events \in Seq(Events), NEW node \in GraphNodes,
           NEW type \in {"run_started", "fanout_completed", "join_completed", "route_selected",
                         "route_failed_closed", "graph_failed", "interrupt_requested",
                         "interrupt_resumed"},
           NEW detail \in Details
    PROVE  /\ Event(type, node, Numbered(s, node), detail) \in Events
           /\ Event(type, node, Numbered(s, node), detail).node = node
           /\ Event(type, node, Numbered(s, node), detail).type = type
           /\ Event(type, node, Numbered(s, node), detail).op = <<node, Len(s.events) + 1>>
           /\ Event(type, node, Numbered(s, node), detail).detail = detail
BY DEF Event, Numbered, Events, Operations

\* Events that neither ask nor answer leave what was asked as it was.
LEMMA AskedStays ==
    ASSUME NEW s, NEW t, NEW e, Adds(s, t, e), Asked(s),
           e.type \notin {"interrupt_requested", "interrupt_resumed"},
           t.pending = s.pending, t.receipts = s.receipts
    PROVE  Asked(t)
<1>1. s.events \in Seq(Events) /\ e \in Events /\ t.events = Append(s.events, e)
  BY Parts DEF Adds
<1>2. /\ Count(t, "interrupt_requested") = Count(s, "interrupt_requested")
      /\ Count(t, "interrupt_resumed") = Count(s, "interrupt_resumed")
  BY SMTT(30), <1>1, CountAppended
<1>3. Resumptions(t) = Resumptions(s) /\ \A i \in Resumptions(s) : t.events[i] = s.events[i]
  BY <1>1, ResumptionAppended
<1> QED
  BY <1>2, <1>3 DEF Asked

\* A numbered event keeps the operation ids apart.
LEMMA NumberedFits ==
    ASSUME NEW s, NEW t, NEW e, Adds(s, t, e), Labelled(s), t.calls = s.calls,
           e.node \in GraphNodes, e.op = <<e.node, Len(s.events) + 1>>
    PROVE  Labelled(t)
<1>1. e.node \notin OnceNodes /\ e.node # "agent"
  BY GraphAssumption DEF OnceNodes, GraphNodes
<1>2. Fits(e, Len(s.events) + 1, t.calls)
  BY DEF Fits
<1> QED
  BY <1>1, <1>2, LabelAppended DEF Adds

\* What the journal holds after a commit.
LEMMA JournalAfter ==
    ASSUME NEW s, NEW t, NEW e, Adds(s, t, e)
    PROVE  \A n : Journaled(t, n) <=> (Journaled(s, n) \/ n = e.node)
<1>1. s.events \in Seq(Events) /\ e \in Events /\ t.events = Append(s.events, e)
  BY Parts DEF Adds
<1> QED
  BY <1>1, NodeAppended

\* A snapshot that is not paused is at its phase.
LEMMA StageIs ==
    ASSUME NEW s, s.phase # "paused"
    PROVE  Stage(s) = s.phase
BY DEF Stage

\* How a commit moves the run, for a reader of its snapshot.
Moves(s, t) ==
    \/ /\ t.probes = s.probes /\ t.from = s.from /\ t.repairs = s.repairs
       /\ \/ t.phase = s.phase
          \/ s.phase = "new" /\ t.phase = "validated"
          \/ s.phase = "validated" /\ t.phase = "probed" /\ DOMAIN s.probes = Kinds
          \/ s.phase = "probed" /\ t.phase = "joined"
          \/ s.phase \in {"validated", "joined", "planning"} /\ t.phase = "failed"
          \/ s.phase = "joined" /\ t.phase = "routed"
          \/ s.phase = "planning" /\ t.phase = "complete"
    \/ /\ s.phase = "validated" /\ t.phase = "validated"
       /\ t.from = s.from /\ t.repairs = s.repairs
       /\ \E k \in Kinds \ DOMAIN s.probes : DOMAIN t.probes = DOMAIN s.probes \cup {k}
    \/ /\ s.phase = "planning" /\ t.phase = "planning"
       /\ t.probes = s.probes /\ t.from = s.from
       /\ s.repairs < MaxRepairs /\ t.repairs = s.repairs + 1
    \/ /\ s.phase \in Resumable /\ t.phase = "paused" /\ t.from = s.phase
       /\ t.probes = s.probes /\ t.repairs = s.repairs
    \/ /\ s.phase = "paused" /\ s.from \in Resumable /\ t.phase = s.from /\ t.from = None
       /\ t.probes = s.probes /\ t.repairs = s.repairs

\* A commit that keeps the snapshot good.
Advances(s, t) == Good(t) /\ t.rev = s.rev + 1 /\ Moves(s, t)

\* The snapshot a run starts from.
LEMMA FreshGood ==
    ASSUME NEW b \in Bindings, NEW p \in {"new", "planning"}, NEW s, s = Snapshot(b, p)
    PROVE  /\ Good(s) /\ s.phase = p /\ s.rev = 0 /\ s.from = None /\ s.pending = None
           /\ DOMAIN s.probes = {} /\ s.repairs = 0 /\ s.binding = b
<1>1. /\ s.binding = b /\ s.rev = 0 /\ s.phase = p /\ s.status = "running" /\ s.probes = <<>>
      /\ s.route = None /\ s.repairs = 0 /\ s.pending = None /\ s.from = None
      /\ s.receipts = <<>> /\ s.calls = {} /\ s.events = <<>>
  BY DEF Snapshot
<1>2. <<>> \in ProbeMaps
  <2>1. <<>> \in [{} -> ProbeValues]
    OBVIOUS
  <2>2. {} \in SUBSET Kinds
    OBVIOUS
  <2> QED
    BY <2>1, <2>2 DEF ProbeMaps
<1>3. s \in Snapshots
  BY <1>2 DEF Snapshot, Snapshots, Resumable
<1>4. Shaped(s)
  BY <1>1 DEF Shaped, Resumable, MaxRepairs
<1>5. Labelled(s)
  BY <1>1 DEF Labelled
<1>6. \A n : ~Journaled(s, n)
  BY <1>1 DEF Journaled
<1>7. Placed(s)
  <2>1. Stage(s) = p
    BY <1>1 DEF Stage
  <2>2. DOMAIN s.probes = {}
    BY <1>1
  <2> QED
    BY <1>6, <2>1, <2>2 DEF Placed, Planned
<1>8. Asked(s)
  <2>1. \A type : Count(s, type) = 0
    <3> SUFFICES ASSUME NEW type PROVE Count(s, type) = 0
      OBVIOUS
    <3>1. {i \in DOMAIN s.events : s.events[i].type = type} = {}
      BY <1>1
    <3> QED
      BY <3>1, FS_EmptySet DEF Count
  <2>2. Resumptions(s) = {} /\ Len(s.receipts) = 0 /\ DOMAIN s.receipts = {}
    BY <1>1 DEF Resumptions
  <2> QED
    BY <1>1, <2>1, <2>2 DEF Asked
<1> QED
  BY <1>1, <1>3, <1>4, <1>5, <1>7, <1>8 DEF Good

\* t is the commit of an event of node on u, which is s but for its phase, its
\* status, its route and its repairs.
Commits(s, u, t, type, node, detail) ==
    /\ u \in Snapshots /\ node \in GraphNodes /\ detail \in Details
    /\ type \in {"run_started", "fanout_completed", "join_completed", "route_selected",
                 "route_failed_closed", "graph_failed"}
    /\ t = Committed(u, type, node, Numbered(u, node), detail)
    /\ u.events = s.events /\ u.calls = s.calls /\ u.rev = s.rev /\ u.probes = s.probes
    /\ u.pending = s.pending /\ u.from = s.from /\ u.receipts = s.receipts
    /\ u.repairs \in 0..MaxRepairs
    /\ u.phase # "paused"
    /\ u.status = IF u.phase \in Resumable THEN "running"
                  ELSE IF u.phase \in {"routed", "complete"} THEN "succeeded"
                  ELSE "failed"

Follows(s, u, t, node) ==
    /\ t \in Snapshots /\ Shaped(t) /\ Labelled(t) /\ Asked(t) /\ t.rev = s.rev + 1
    /\ \A n : Journaled(t, n) <=> (Journaled(s, n) \/ n = node)
    /\ DOMAIN t.probes = {k \in Kinds : Journaled(t, k)}
    /\ Stage(t) = u.phase /\ Stage(s) = s.phase
    /\ t.phase = u.phase /\ t.probes = s.probes /\ t.from = s.from
    /\ t.repairs = u.repairs

\* Such a commit disturbs only the run's place in the graph.
LEMMA NodeCommit ==
    ASSUME NEW s, Good(s), s.phase # "paused", NEW u, NEW t, NEW type, NEW node, NEW detail,
           Commits(s, u, t, type, node, detail)
    PROVE  Follows(s, u, t, node)
<1> USE DEF Commits
<1>1. PICK e : e = Event(type, node, Numbered(u, node), detail)
  OBVIOUS
<1>2. /\ s \in Snapshots /\ s.events \in Seq(Events)
      /\ Shaped(s) /\ Labelled(s) /\ Placed(s) /\ Asked(s)
  BY Parts DEF Good
<1>3. /\ e \in Events /\ e.node = node /\ e.type = type
      /\ e.op = <<node, Len(s.events) + 1>>
  BY <1>1, <1>2, NumberedEvent
<1>4. /\ t \in Snapshots /\ t.rev = s.rev + 1 /\ t.events = Append(s.events, e)
      /\ t.phase = u.phase /\ t.status = u.status /\ t.probes = s.probes
      /\ t.repairs = u.repairs /\ t.pending = s.pending /\ t.from = s.from
      /\ t.receipts = s.receipts /\ t.calls = s.calls
  BY <1>1, <1>3, CommittedIs
<1>5. Adds(s, t, e)
  BY <1>2, <1>3, <1>4 DEF Adds
<1>6. Labelled(t) /\ Asked(t)
  BY <1>2, <1>3, <1>4, <1>5, NumberedFits, AskedStays
<1>7. \A n : Journaled(t, n) <=> (Journaled(s, n) \/ n = node)
  BY <1>3, <1>5, JournalAfter
<1>8. DOMAIN t.probes = {k \in Kinds : Journaled(t, k)}
  <2>1. node \notin Kinds
    BY GraphAssumption
  <2> QED
    BY <1>2, <1>4, <1>7, <2>1 DEF Placed
<1>9. Stage(t) = u.phase /\ Stage(s) = s.phase
  BY <1>4, StageIs
<1>10. Shaped(t)
  <2>1. t.phase \in Resumable \cup {"routed", "complete", "failed"}
    BY <1>4, Parts
  <2> QED
    BY <1>2, <1>4, <2>1 DEF Shaped
<1> QED
  BY <1>4, <1>6, <1>7, <1>8, <1>9, <1>10 DEF Follows

\* _fail closes a run that is gathering.
LEMMA FailedGood ==
    ASSUME NEW s, Good(s), s.phase = "validated",
           NEW code \in {"catalog_probe_kind_mismatch", "catalog_join_incomplete"}
    PROVE  Advances(s, Failed(s, code)) /\ Failed(s, code).phase = "failed"
<1>1. PICK u, t : /\ u = [s EXCEPT !.phase = "failed", !.status = "failed", !.route = "FAIL_CLOSED"]
                  /\ t = Committed(u, "graph_failed", "catalog_graph",
                                   Numbered(u, "catalog_graph"), code)
  OBVIOUS
<1>2. s \in Snapshots /\ Shaped(s) /\ Placed(s) /\ s.events \in Seq(Events)
  BY Parts DEF Good
<1>3. /\ u \in Snapshots /\ u.phase = "failed" /\ u.status = "failed" /\ u.events = s.events
      /\ u.calls = s.calls /\ u.rev = s.rev /\ u.probes = s.probes /\ u.pending = s.pending
      /\ u.from = s.from /\ u.receipts = s.receipts /\ u.repairs = s.repairs
  BY <1>1, <1>2 DEF Snapshots, Routes
<1>4. t = Failed(s, code)
  BY <1>1, <1>3 DEF Failed, Numbered
<1>5. Follows(s, u, t, "catalog_graph")
  <2>1. code \in Details /\ "catalog_graph" \in GraphNodes
    BY DEF Details, GraphNodes
  <2>2. u.repairs \in 0..MaxRepairs /\ "failed" \notin Resumable
    BY <1>2, <1>3 DEF Shaped, Resumable
  <2>3. Commits(s, u, t, "graph_failed", "catalog_graph", code)
    BY <1>1, <1>3, <2>1, <2>2 DEF Commits
  <2> QED
    BY <2>3, NodeCommit
<1>6. Placed(t)
  BY <1>2, <1>3, <1>5 DEF Placed, Planned, Follows
<1> QED
  BY <1>3, <1>4, <1>5, <1>6 DEF Advances, Good, Moves, Follows

\* The first commit of a run.
LEMMA StartGood ==
    ASSUME NEW b \in Bindings, NEW s, s = Snapshot(b, "new"), NEW t,
           t = Committed(s, "run_started", "catalog_graph", Numbered(s, "catalog_graph"), None)
    PROVE  Advances(s, t) /\ t.phase = "new"
<1>1. Good(s) /\ s.phase = "new"
  BY FreshGood
<1>2. s \in Snapshots /\ Shaped(s) /\ Placed(s)
  BY <1>1 DEF Good
<1>3. Follows(s, s, t, "catalog_graph")
  <2>1. None \in Details /\ "catalog_graph" \in GraphNodes /\ "new" \in Resumable
    BY DEF Details, GraphNodes, Resumable
  <2>2. Commits(s, s, t, "run_started", "catalog_graph", None)
    BY <1>1, <1>2, <2>1 DEF Commits, Shaped
  <2> QED
    BY <1>1, <2>2, NodeCommit
<1>4. Placed(t)
  BY <1>1, <1>2, <1>3 DEF Placed, Planned, Follows
<1> QED
  BY <1>1, <1>3, <1>4 DEF Advances, Good, Moves, Follows

\* The fan-out is complete.
LEMMA CloseGood ==
    ASSUME NEW s, Good(s), s.phase = "validated", Pending(s) = {}, NEW u, NEW t,
           u = [s EXCEPT !.phase = "probed"],
           t = Committed(u, "fanout_completed", "catalog_fanout", Numbered(u, "catalog_fanout"), None)
    PROVE  Advances(s, t) /\ t.phase = "probed"
<1>1. s \in Snapshots /\ Shaped(s) /\ Placed(s)
  BY DEF Good
<1>2. /\ u \in Snapshots /\ u.phase = "probed" /\ u.status = s.status /\ u.events = s.events
      /\ u.calls = s.calls /\ u.rev = s.rev /\ u.probes = s.probes /\ u.pending = s.pending
      /\ u.from = s.from /\ u.receipts = s.receipts /\ u.repairs = s.repairs
  BY <1>1 DEF Snapshots, Resumable
<1>3. Follows(s, u, t, "catalog_fanout")
  <2>1. None \in Details /\ "catalog_fanout" \in GraphNodes /\ {"validated", "probed"} \subseteq Resumable
    BY DEF Details, GraphNodes, Resumable
  <2>2. Commits(s, u, t, "fanout_completed", "catalog_fanout", None)
    BY <1>1, <1>2, <2>1 DEF Commits, Shaped
  <2> QED
    BY <2>2, NodeCommit
<1>4. DOMAIN s.probes = Kinds
  BY <1>1 DEF Pending, Placed
<1>5. Placed(t)
  BY <1>1, <1>2, <1>3, <1>4 DEF Placed, Planned, Follows
<1> QED
  BY <1>2, <1>3, <1>4, <1>5 DEF Advances, Good, Moves, Follows

\* The join of a complete fan-out, which is the only one there is.
LEMMA JoinGood ==
    ASSUME NEW s, Good(s), s.phase = "probed", NEW u, NEW t,
           u = [s EXCEPT !.phase = "joined"],
           t = Committed(u, "join_completed", "catalog_join", Numbered(s, "catalog_join"), None)
    PROVE  Pending(s) = {} /\ Advances(s, t) /\ t.phase = "joined"
<1>1. s \in Snapshots /\ Shaped(s) /\ Placed(s)
  BY DEF Good
<1>2. /\ u \in Snapshots /\ u.phase = "joined" /\ u.status = s.status /\ u.events = s.events
      /\ u.calls = s.calls /\ u.rev = s.rev /\ u.probes = s.probes /\ u.pending = s.pending
      /\ u.from = s.from /\ u.receipts = s.receipts /\ u.repairs = s.repairs
  BY <1>1 DEF Snapshots, Resumable
<1>3. Follows(s, u, t, "catalog_join")
  <2>1. None \in Details /\ "catalog_join" \in GraphNodes /\ {"joined", "probed"} \subseteq Resumable
    BY DEF Details, GraphNodes, Resumable
  <2>2. Commits(s, u, t, "join_completed", "catalog_join", None)
    BY <1>1, <1>2, <2>1 DEF Commits, Shaped, Numbered
  <2> QED
    BY <2>2, NodeCommit
<1>4. ~Planned(s) /\ DOMAIN s.probes = Kinds
  BY <1>1, <1>3 DEF Placed, Follows
<1>5. Placed(t)
  BY <1>1, <1>2, <1>3, <1>4 DEF Placed, Planned, Follows
<1> QED
  BY <1>2, <1>3, <1>4, <1>5 DEF Advances, Good, Moves, Follows, Pending

\* The catalog's route is found, or the run fails closed.
LEMMA RouteGood ==
    ASSUME NEW s, Good(s), s.phase = "joined", NEW r \in Routes, NEW u, NEW t, NEW v,
           v = [s EXCEPT !.route = r],
           \/ /\ u = [v EXCEPT !.phase = "failed", !.status = "failed"]
              /\ t = Committed(u, "route_failed_closed", "route_catalog", Numbered(v, "route_catalog"), r)
           \/ /\ u = [v EXCEPT !.phase = "routed", !.status = "succeeded"]
              /\ t = Committed(u, "route_selected", "route_catalog", Numbered(v, "route_catalog"), r)
    PROVE  Advances(s, t) /\ t.phase \in {"failed", "routed"}
<1>1. s \in Snapshots /\ Shaped(s) /\ Placed(s)
  BY DEF Good
<1>2. /\ v \in Snapshots /\ v.events = s.events
      /\ v.calls = s.calls /\ v.rev = s.rev /\ v.probes = s.probes /\ v.pending = s.pending
      /\ v.from = s.from /\ v.receipts = s.receipts /\ v.repairs = s.repairs
  BY <1>1 DEF Snapshots
<1>3. /\ u \in Snapshots /\ u.events = s.events
      /\ \/ u.phase = "failed" /\ u.status = "failed"
         \/ u.phase = "routed" /\ u.status = "succeeded"
      /\ u.calls = s.calls /\ u.rev = s.rev /\ u.probes = s.probes /\ u.pending = s.pending
      /\ u.from = s.from /\ u.receipts = s.receipts /\ u.repairs = s.repairs
  <2>1. CASE u = [v EXCEPT !.phase = "failed", !.status = "failed"]
    BY ONLY <1>2, <2>1 DEF Snapshots
  <2>2. CASE u = [v EXCEPT !.phase = "routed", !.status = "succeeded"]
    BY ONLY <1>2, <2>2 DEF Snapshots
  <2> QED
    BY <2>1, <2>2
<1>4. Follows(s, u, t, "route_catalog")
  <2>1. /\ r \in Details /\ "route_catalog" \in GraphNodes
        /\ "failed" \notin Resumable /\ "routed" \notin Resumable
    BY DEF Details, GraphNodes, Resumable
  <2>2. PICK type \in {"route_failed_closed", "route_selected"} :
          t = Committed(u, type, "route_catalog", Numbered(u, "route_catalog"), r)
    BY <1>2, <1>3 DEF Numbered
  <2>3. Commits(s, u, t, type, "route_catalog", r)
    BY <1>1, <1>3, <2>1, <2>2 DEF Commits, Shaped
  <2> QED
    BY <2>3, NodeCommit
<1>5. Placed(t)
  BY <1>1, <1>3, <1>4 DEF Placed, Planned, Follows
<1> QED
  BY <1>3, <1>4, <1>5 DEF Advances, Good, Moves, Follows

\* A plan's route: another round of research, the end, or failure.
LEMMA PlanGood ==
    ASSUME NEW s, Good(s), s.phase = "planning", NEW r \in Routes, NEW u, NEW t,
           NEW type \in {"route_failed_closed", "route_selected"},
           \/ u = [s EXCEPT !.repairs = @ + 1] /\ s.repairs < MaxRepairs
           \/ u = [s EXCEPT !.phase = "complete", !.status = "succeeded"]
           \/ u = [s EXCEPT !.phase = "failed", !.status = "failed"],
           t = Committed(u, type, "route_plan", Numbered(s, "route_plan"), r)
    PROVE  Advances(s, t)
<1>1. s \in Snapshots /\ Shaped(s) /\ Placed(s) /\ s.repairs \in Nat /\ "planning" \in Resumable
  BY DEF Good, Snapshots, Resumable
<1>2. /\ u \in Snapshots /\ u.events = s.events
      /\ \/ /\ u.phase = "planning" /\ u.status = "running"
            /\ s.repairs < MaxRepairs /\ u.repairs = s.repairs + 1
         \/ u.phase = "complete" /\ u.status = "succeeded" /\ u.repairs = s.repairs
         \/ u.phase = "failed" /\ u.status = "failed" /\ u.repairs = s.repairs
      /\ u.calls = s.calls /\ u.rev = s.rev /\ u.probes = s.probes /\ u.pending = s.pending
      /\ u.from = s.from /\ u.receipts = s.receipts
  <2>1. CASE u = [s EXCEPT !.repairs = @ + 1] /\ s.repairs < MaxRepairs
    <3>1. s.status = "running" /\ s.repairs + 1 \in Nat
      BY <1>1 DEF Shaped
    <3> QED
      BY <1>1, <2>1, <3>1 DEF Snapshots
  <2>2. CASE u = [s EXCEPT !.phase = "complete", !.status = "succeeded"]
    BY <1>1, <2>2 DEF Snapshots
  <2>3. CASE u = [s EXCEPT !.phase = "failed", !.status = "failed"]
    BY <1>1, <2>3 DEF Snapshots
  <2> QED
    BY <2>1, <2>2, <2>3
<1>3. Follows(s, u, t, "route_plan")
  <2>1. /\ r \in Details /\ "route_plan" \in GraphNodes
        /\ "failed" \notin Resumable /\ "complete" \notin Resumable
    BY DEF Details, GraphNodes, Resumable
  <2>2. u.repairs \in 0..MaxRepairs
    BY <1>1, <1>2 DEF Shaped, MaxRepairs
  <2>3. Commits(s, u, t, type, "route_plan", r)
    BY <1>1, <1>2, <2>1, <2>2 DEF Commits, Shaped, Numbered
  <2> QED
    BY <2>3, NodeCommit
<1>4. Placed(t)
  BY <1>1, <1>2, <1>3 DEF Placed, Planned, Follows
<1> QED
  BY <1>2, <1>3, <1>4 DEF Advances, Good, Moves, Follows

\* The intent is validated, once.
LEMMA ValidateGood ==
    ASSUME NEW s, Good(s), s.phase = "new", NEW u, NEW t,
           u = [s EXCEPT !.phase = "validated"],
           t = Committed(u, "node_succeeded", "validate_intent", <<"validate_intent">>, None)
    PROVE  Advances(s, t) /\ t.phase = "validated"
<1>1. /\ s \in Snapshots /\ Shaped(s) /\ Labelled(s) /\ Placed(s) /\ Asked(s)
      /\ Stage(s) = "new" /\ {"new", "validated"} \subseteq Resumable
  BY DEF Good, Stage, Resumable
<1>2. /\ u \in Snapshots /\ u.phase = "validated" /\ u.status = s.status /\ u.events = s.events
      /\ u.calls = s.calls /\ u.rev = s.rev /\ u.probes = s.probes /\ u.pending = s.pending
      /\ u.from = s.from /\ u.receipts = s.receipts /\ u.repairs = s.repairs
  BY <1>1 DEF Snapshots, Resumable
<1>3. PICK e : e = Event("node_succeeded", "validate_intent", <<"validate_intent">>, None)
  OBVIOUS
<1>4. /\ e \in Events /\ e.node = "validate_intent" /\ e.op = <<"validate_intent">>
      /\ e.type = "node_succeeded"
  BY <1>3 DEF Event, Events, Operations, Details
<1>5. /\ t \in Snapshots /\ t.rev = s.rev + 1 /\ t.events = Append(s.events, e)
      /\ t.phase = "validated" /\ t.status = s.status /\ t.probes = s.probes
      /\ t.repairs = s.repairs /\ t.pending = s.pending /\ t.from = s.from
      /\ t.receipts = s.receipts /\ t.calls = s.calls
  <2>1. Grows(u, t, e)
    BY <1>3 DEF Committed, Grows
  <2>2. /\ t \in Snapshots /\ t.rev = u.rev + 1 /\ t.events = Append(u.events, e)
        /\ t.phase = u.phase /\ t.status = u.status
        /\ t.probes = u.probes /\ t.repairs = u.repairs
        /\ t.pending = u.pending /\ t.from = u.from /\ t.receipts = u.receipts
        /\ t.calls = u.calls
    <3>1. u \in Snapshots /\ e \in Events
      BY <1>2, <1>4
    <3> QED
      BY ONLY <2>1, <3>1, EventCommitted
  <2> QED
    BY <1>2, <2>2
<1>6. Adds(s, t, e)
  BY <1>1, <1>4, <1>5 DEF Adds
<1>7. ~Planned(s) /\ ~Journaled(s, "validate_intent")
  BY <1>1 DEF Placed
<1>8. Labelled(t)
  <2>1. Fits(e, Len(s.events) + 1, t.calls)
    BY <1>4 DEF Fits, OnceNodes
  <2> QED
    BY <1>1, <1>4, <1>5, <1>7, <2>1, LabelAppended
<1>9. Asked(t)
  BY <1>1, <1>4, <1>5, <1>6, AskedStays
<1>10. \A n : Journaled(t, n) <=> (Journaled(s, n) \/ n = "validate_intent")
  BY <1>4, <1>6, JournalAfter
<1>11. Placed(t)
  <2>1. Stage(t) = "validated" /\ "validate_intent" \notin Kinds
    BY <1>5, StageIs, GraphAssumption
  <2> QED
    BY <1>1, <1>5, <1>7, <1>10, <2>1 DEF Placed, Planned
<1>12. Shaped(t)
  BY <1>1, <1>5 DEF Shaped
<1> QED
  BY <1>5, <1>8, <1>9, <1>11, <1>12 DEF Advances, Good, Moves

\* The answer p of callback k is committed.
Learns(s, k, p, t) ==
    t = Committed([s EXCEPT !.probes = [l \in DOMAIN s.probes \cup {k} |->
                                           IF l = k THEN p ELSE s.probes[l]]],
                  "node_succeeded", k, <<k>>, None)

\* An answer is committed once for its callback.
LEMMA ProbeGood ==
    ASSUME NEW s, Good(s), s.phase = "validated", NEW k \in Kinds, k \notin DOMAIN s.probes,
           NEW p \in ProbeValues, p.kind = k, NEW t, Learns(s, k, p, t)
    PROVE  Advances(s, t) /\ t.phase = "validated" /\ DOMAIN t.probes = DOMAIN s.probes \cup {k}
<1>0. PICK f, u : /\ f = [l \in DOMAIN s.probes \cup {k} |-> IF l = k THEN p ELSE s.probes[l]]
                  /\ u = [s EXCEPT !.probes = f]
                  /\ t = Committed(u, "node_succeeded", k, <<k>>, None)
  BY DEF Learns
<1>1. /\ s \in Snapshots /\ Shaped(s) /\ Labelled(s) /\ Placed(s) /\ Asked(s)
      /\ Stage(s) = "validated" /\ "validated" \in Resumable /\ s.probes \in ProbeMaps
  BY Parts DEF Good, Stage, Resumable
<1>2. f \in ProbeMaps /\ DOMAIN f = DOMAIN s.probes \cup {k} /\ \A l \in DOMAIN f : f[l].kind = l
  <2>1. PICK K \in SUBSET Kinds : s.probes \in [K -> ProbeValues]
    BY <1>1 DEF ProbeMaps
  <2>2. K \cup {k} \in SUBSET Kinds /\ f \in [K \cup {k} -> ProbeValues]
    BY <1>0, <2>1
  <2>3. f \in ProbeMaps
    BY <2>2, Zenon DEF ProbeMaps
  <2> QED
    BY <1>0, <1>1, <2>3 DEF Shaped
<1>3. /\ u \in Snapshots /\ u.phase = "validated" /\ u.status = s.status /\ u.events = s.events
      /\ u.calls = s.calls /\ u.rev = s.rev /\ u.probes = f /\ u.pending = s.pending
      /\ u.from = s.from /\ u.receipts = s.receipts /\ u.repairs = s.repairs
  BY <1>0, <1>1, <1>2 DEF Snapshots
<1>4. PICK e : e = Event("node_succeeded", k, <<k>>, None)
  OBVIOUS
<1>5. e \in Events /\ e.node = k /\ e.op = <<k>> /\ e.type = "node_succeeded"
  BY <1>4 DEF Event, Events, Operations, Details
<1>6. /\ t \in Snapshots /\ t.rev = s.rev + 1 /\ t.events = Append(s.events, e)
      /\ t.phase = "validated" /\ t.status = s.status /\ t.probes = f
      /\ t.repairs = s.repairs /\ t.pending = s.pending /\ t.from = s.from
      /\ t.receipts = s.receipts /\ t.calls = s.calls
  <2>1. Grows(u, t, e)
    BY <1>0, <1>4 DEF Committed, Grows
  <2>2. /\ t \in Snapshots /\ t.rev = u.rev + 1 /\ t.events = Append(u.events, e)
        /\ t.phase = u.phase /\ t.status = u.status
        /\ t.probes = u.probes /\ t.repairs = u.repairs
        /\ t.pending = u.pending /\ t.from = u.from /\ t.receipts = u.receipts
        /\ t.calls = u.calls
    <3>1. u \in Snapshots /\ e \in Events
      BY <1>3, <1>5
    <3> QED
      BY ONLY <2>1, <3>1, EventCommitted
  <2> QED
    BY <1>3, <2>2
<1>7. Adds(s, t, e)
  BY <1>1, <1>5, <1>6 DEF Adds
<1>8. ~Planned(s) /\ ~Journaled(s, k)
  BY <1>1 DEF Placed
<1>9. Labelled(t)
  <2>1. Fits(e, Len(s.events) + 1, t.calls) /\ e.node # "agent"
    BY <1>5, GraphAssumption DEF Fits, OnceNodes
  <2> QED
    BY ONLY <1>1, <1>5, <1>6, <1>8, <2>1, LabelAppended
<1>10. Asked(t)
  BY ONLY <1>1, <1>5, <1>6, <1>7, AskedStays
<1>11. \A n : Journaled(t, n) <=> (Journaled(s, n) \/ n = k)
  BY ONLY <1>5, <1>7, JournalAfter
<1>12. Placed(t)
  <2>1. Stage(t) = "validated" /\ k \notin GraphNodes \cup {"validate_intent"}
    BY <1>6, StageIs, GraphAssumption
  <2>2. k # "validate_intent" /\ k # "catalog_fanout" /\ k # "route_plan"
    BY <2>1 DEF GraphNodes
  <2>3. DOMAIN t.probes = {l \in Kinds : Journaled(t, l)}
    <3>1. DOMAIN s.probes = {l \in Kinds : Journaled(s, l)}
      BY <1>1 DEF Placed
    <3>2. DOMAIN t.probes = DOMAIN s.probes \cup {k} /\ k \in Kinds
      BY <1>2, <1>6
    <3> QED
      BY ONLY <1>11, <3>1, <3>2
  <2> QED
    BY <1>1, <1>6, <1>8, <1>11, <2>1, <2>2, <2>3 DEF Placed, Planned
<1>13. Shaped(t)
  BY <1>1, <1>2, <1>6 DEF Shaped
<1> QED
  BY <1>2, <1>6, <1>9, <1>10, <1>12, <1>13 DEF Advances, Good, Moves

\* A model call is observed, once for its invocation.
LEMMA CallGood ==
    ASSUME NEW s, Good(s), Mutable(s), NEW i \in Invocations, i \notin s.calls, NEW u, NEW t,
           u = [s EXCEPT !.calls = @ \cup {i}],
           t = Committed(u, "model_call_observed", "agent", <<"agent", i>>, i)
    PROVE  Advances(s, t)
<1>1. /\ s \in Snapshots /\ Shaped(s) /\ Labelled(s) /\ Placed(s) /\ Asked(s)
      /\ Stage(s) = s.phase /\ s.phase \in Resumable /\ s.calls \in SUBSET Invocations
  BY Parts DEF Good, Stage, Mutable, Terminal
<1>2. /\ u \in Snapshots /\ u.phase = s.phase /\ u.status = s.status /\ u.events = s.events
      /\ u.calls = s.calls \cup {i} /\ u.rev = s.rev /\ u.probes = s.probes
      /\ u.pending = s.pending
      /\ u.from = s.from /\ u.receipts = s.receipts /\ u.repairs = s.repairs
  BY <1>1 DEF Snapshots
<1>3. PICK e : e = Event("model_call_observed", "agent", <<"agent", i>>, i)
  OBVIOUS
<1>4. e \in Events /\ e.node = "agent" /\ e.op = <<"agent", i>> /\ e.type = "model_call_observed"
  BY <1>3 DEF Event, Events, Operations, Details
<1>5. /\ t \in Snapshots /\ t.rev = s.rev + 1 /\ t.events = Append(s.events, e)
      /\ t.phase = s.phase /\ t.status = s.status /\ t.probes = s.probes
      /\ t.repairs = s.repairs /\ t.pending = s.pending /\ t.from = s.from
      /\ t.receipts = s.receipts /\ t.calls = s.calls \cup {i}
  <2>1. Grows(u, t, e)
    BY <1>3 DEF Committed, Grows
  <2>2. /\ t \in Snapshots /\ t.rev = u.rev + 1 /\ t.events = Append(u.events, e)
        /\ t.phase = u.phase /\ t.status = u.status
        /\ t.probes = u.probes /\ t.repairs = u.repairs
        /\ t.pending = u.pending /\ t.from = u.from /\ t.receipts = u.receipts
        /\ t.calls = u.calls
    <3>1. u \in Snapshots /\ e \in Events
      BY <1>2, <1>4
    <3> QED
      BY ONLY <2>1, <3>1, EventCommitted
  <2> QED
    BY <1>2, <2>2
<1>6. Adds(s, t, e)
  BY <1>1, <1>4, <1>5 DEF Adds
<1>7. Labelled(t)
  <2>1. Fits(e, Len(s.events) + 1, t.calls) /\ e.node \notin OnceNodes /\ s.calls \subseteq t.calls
    BY <1>4, <1>5, GraphAssumption DEF Fits, OnceNodes
  <2>2. \E c : c \notin s.calls /\ e.op = <<"agent", c>>
    BY <1>4
  <2> QED
    BY ONLY <1>1, <1>4, <1>5, <2>1, <2>2, LabelAppended
<1>8. Asked(t)
  BY ONLY <1>1, <1>4, <1>5, <1>6, AskedStays
<1>9. \A n : Journaled(t, n) <=> (Journaled(s, n) \/ n = "agent")
  BY ONLY <1>4, <1>6, JournalAfter
<1>10. Placed(t)
  <2>1. Stage(t) = s.phase /\ "agent" \notin Kinds
    BY <1>1, <1>5, StageIs, GraphAssumption DEF Resumable
  <2>2. DOMAIN t.probes = {l \in Kinds : Journaled(t, l)}
    BY <1>1, <1>5, <1>9, <2>1 DEF Placed
  <2> QED
    BY <1>1, <1>5, <1>9, <2>1, <2>2 DEF Placed, Planned
<1>11. Shaped(t)
  BY <1>1, <1>5 DEF Shaped
<1> QED
  BY <1>5, <1>7, <1>8, <1>10, <1>11 DEF Advances, Good, Moves

\* A pause may follow the route that led to it.
LEMMA PauseJournal ==
    ASSUME NEW E \in Seq(Events), NEW e \in Events, NEW r \in Events
    PROVE  /\ \A n : DOMAIN <<n>> = {1}
           /\ DOMAIN <<>> = {}
           /\ E \o <<>> \o <<e>> = Append(E, e)
           /\ E \o <<r>> \o <<e>> = Append(Append(E, r), e)
OBVIOUS

\* An interrupt is requested of a snapshot m that runs.
Requests(m, id, t) ==
    /\ m \in Snapshots /\ Shaped(m) /\ Labelled(m) /\ Asked(m)
    /\ m.phase \in Resumable
    /\ id \in InterruptIds /\ id.ordinal = 1 + Count(m, "interrupt_requested")
    /\ t = [m EXCEPT !.rev = @ + 1, !.phase = "paused", !.from = m.phase,
                     !.status = IF id.kind = "clarification" THEN "awaiting_input"
                                                             ELSE "awaiting_approval",
                     !.pending = [id |-> id, checkpoint |-> m.rev],
                     !.events = Append(@, Event("interrupt_requested", "request_input",
                                                Numbered(m, "request_input"), id))]

Pauses(m, t) ==
    /\ t \in Snapshots /\ Shaped(t) /\ Labelled(t) /\ Asked(t)
    /\ t.rev = m.rev + 1 /\ t.phase = "paused" /\ t.from = m.phase /\ Stage(t) = m.phase
    /\ t.probes = m.probes /\ t.repairs = m.repairs
    /\ \A n : Journaled(t, n) <=> (Journaled(m, n) \/ n = "request_input")

\* A request pauses the run where it is.
LEMMA RequestPauses ==
    ASSUME NEW m, NEW id, NEW t, Requests(m, id, t)
    PROVE  Pauses(m, t)
<1> USE DEF Requests
<1>1. PICK e : e = Event("interrupt_requested", "request_input", Numbered(m, "request_input"), id)
  OBVIOUS
<1>2. m.events \in Seq(Events) /\ m.rev \in Nat /\ m.rev + 1 \in Nat
  BY Parts
<1>3. /\ e \in Events /\ e.node = "request_input" /\ e.type = "interrupt_requested"
      /\ e.op = <<e.node, Len(m.events) + 1>> /\ e.node \in GraphNodes
  <2>1. id \in Details /\ "request_input" \in GraphNodes
    BY DEF Details, GraphNodes
  <2> QED
    BY <1>1, <1>2, <2>1, NumberedEvent
<1>4. /\ t \in Snapshots /\ t.rev = m.rev + 1 /\ t.phase = "paused" /\ t.from = m.phase
      /\ t.status = (IF id.kind = "clarification" THEN "awaiting_input" ELSE "awaiting_approval")
      /\ t.pending = [id |-> id, checkpoint |-> m.rev] /\ t.events = Append(m.events, e)
      /\ t.probes = m.probes /\ t.repairs = m.repairs /\ t.receipts = m.receipts
      /\ t.calls = m.calls
  <2>1. [id |-> id, checkpoint |-> m.rev] \in InterruptRequests /\ Append(m.events, e) \in Seq(Events)
    BY <1>2, <1>3 DEF InterruptRequests
  <2> QED
    BY <1>1, <1>2, <2>1 DEF Snapshots
<1>5. /\ t.pending # None /\ t.from # None /\ t.pending.id = id
      /\ m.pending = None /\ t.pending \in InterruptRequests
  <2>1. [id |-> id, checkpoint |-> m.rev] \in InterruptRequests
    BY <1>2 DEF InterruptRequests
  <2>2. m.pending = None
    BY DEF Shaped, Resumable
  <2> QED
    BY <1>4, <2>1, <2>2, NoneAssumption
<1>6. Adds(m, t, e)
  BY <1>2, <1>3, <1>4 DEF Adds
<1>7. Labelled(t)
  BY ONLY Labelled(m), <1>3, <1>4, <1>6, NumberedFits
<1>8. Asked(t)
  <2>0. /\ m.events \in Seq(Events) /\ e \in Events /\ t.events = Append(m.events, e)
        /\ e.type = "interrupt_requested"
    BY <1>2, <1>3, <1>4
  <2>1. /\ Count(t, "interrupt_requested") = Count(m, "interrupt_requested") + 1
        /\ Count(t, "interrupt_resumed") = Count(m, "interrupt_resumed")
        /\ Count(m, "interrupt_requested") \in Nat /\ Count(m, "interrupt_resumed") \in Nat
    <3>1. \A type : /\ Count(m, type) \in Nat
                    /\ e.type = type => Count(t, type) = Count(m, type) + 1
                    /\ e.type # type => Count(t, type) = Count(m, type)
      <4> TAKE type
      <4> QED
        BY ONLY ZenonT(60), <2>0, CountAppended
    <3> QED
      BY ONLY <2>0, <3>1
  <2>2. Resumptions(t) = Resumptions(m) /\ \A i \in Resumptions(m) : t.events[i] = m.events[i]
    BY ONLY <2>0, ResumptionAppended
  <2>3. /\ Asked(m) /\ id.ordinal = 1 + Count(m, "interrupt_requested")
        /\ t.pending # None /\ t.pending.id = id /\ m.pending = None /\ t.receipts = m.receipts
    BY <1>4, <1>5
  <2> QED
    BY ONLY <2>1, <2>2, <2>3 DEF Asked
<1>9. \A n : Journaled(t, n) <=> (Journaled(m, n) \/ n = "request_input")
  BY ONLY <1>3, <1>6, JournalAfter
<1>10. Shaped(t)
  BY <1>4, <1>5 DEF Shaped, Resumable
<1>11. Stage(t) = m.phase
  BY <1>4 DEF Stage
<1> QED
  BY <1>4, <1>7, <1>8, <1>9, <1>10, <1>11 DEF Pauses

\* The kinds of an interrupt, and a subject where it has one.
Interrupts(kind, subject) ==
    /\ kind \in {"clarification", "simulation_approval", "production_approval"}
    /\ subject \in Subjects \cup {None}

\* request_interrupt pauses a run that is not paused.
LEMMA InterruptGood ==
    ASSUME NEW s, Good(s), s.phase \in Resumable, NEW kind, NEW subject,
           Interrupts(kind, subject), NEW t, t = Paused(s, kind, subject, <<>>)
    PROVE  Advances(s, t)
<1>1. s \in Snapshots /\ s.events \in Seq(Events) /\ Len(s.events) \in Nat /\ Placed(s)
  BY Parts DEF Good
<1>2. PICK id : id = InterruptId(s, kind, subject)
  OBVIOUS
<1>3. id \in InterruptIds /\ id.ordinal = 1 + Count(s, "interrupt_requested") /\ id.kind = kind
  <2>1. Count(s, "interrupt_requested") \in Nat
    BY <1>1, CountType
  <2> QED
    BY <1>2, <2>1 DEF InterruptId, InterruptIds, Interrupts
<1>4. PICK e : e = Event("interrupt_requested", "request_input", Numbered(s, "request_input"), id)
  OBVIOUS
<1>5. e \in Events
  <2>1. id \in Details /\ "request_input" \in GraphNodes
    BY <1>3 DEF Details, GraphNodes
  <2> QED
    BY <1>1, <1>4, <2>1, NumberedEvent
<1>6. t = [s EXCEPT !.rev = @ + 1, !.phase = "paused", !.from = s.phase,
                    !.status = IF id.kind = "clarification" THEN "awaiting_input"
                                                            ELSE "awaiting_approval",
                    !.pending = [id |-> id, checkpoint |-> s.rev],
                    !.events = Append(@, e)]
  <2> DEFINE G == [i \in DOMAIN <<>> |->
                      Event("route_selected", <<>>[i], <<<<>>[i], Len(s.events) + i>>, "NEEDS_INPUT")]
  <2>1. G = <<>> /\ Len(<<>>) = 0
    OBVIOUS
  <2>2. e = Event("interrupt_requested", "request_input", <<"request_input", Len(s.events) + Len(<<>>) + 1>>, id)
    BY <1>1, <1>4, <2>1 DEF Numbered
  <2>3. s.events \o G \o << e >> = Append(s.events, e)
    <3> HIDE DEF G
    <3> QED
      BY <1>1, <1>5, <2>1, PauseJournal
  <2>4. t = [s EXCEPT !.rev = @ + 1, !.phase = "paused", !.from = s.phase,
                    !.status = IF kind = "clarification" THEN "awaiting_input"
                                                            ELSE "awaiting_approval",
                    !.pending = [id |-> id, checkpoint |-> s.rev],
                    !.events = s.events \o G \o << e >>]
    BY <1>2, <2>2, Zenon DEF Paused, InterruptRequest
  <2> HIDE DEF G
  <2> QED
    BY <1>3, <2>3, <2>4
<1>7. Requests(s, id, t)
  BY <1>3, <1>4, <1>6 DEF Requests, Good
<1>8. Pauses(s, t)
  BY ONLY <1>7, RequestPauses
<1>9. Stage(s) = s.phase
  BY DEF Stage, Resumable
<1>10. Placed(t)
  <2>1. "request_input" \notin Kinds
    BY GraphAssumption DEF GraphNodes
  <2>2. DOMAIN t.probes = {k \in Kinds : Journaled(t, k)}
    BY <1>1, <1>8, <2>1 DEF Placed, Pauses
  <2> QED
    BY <1>1, <1>8, <1>9, <2>2 DEF Placed, Planned, Pauses
<1> QED
  BY <1>8, <1>10 DEF Advances, Good, Moves, Pauses

\* The route is noted on the snapshot before its node is journaled.
LEMMA RouteNoted ==
    ASSUME NEW s, Good(s), NEW r \in Routes, NEW v, v = [s EXCEPT !.route = r]
    PROVE  /\ Good(v) /\ v.phase = s.phase /\ v.rev = s.rev /\ v.probes = s.probes
           /\ v.from = s.from /\ v.repairs = s.repairs
<1>1. s \in Snapshots
  BY DEF Good
<1>2. /\ v \in Snapshots /\ v.phase = s.phase /\ v.rev = s.rev /\ v.probes = s.probes
      /\ v.from = s.from /\ v.repairs = s.repairs /\ v.status = s.status /\ v.events = s.events
      /\ v.pending = s.pending /\ v.receipts = s.receipts /\ v.calls = s.calls
  BY <1>1 DEF Snapshots
<1>3. Shaped(v) /\ Labelled(v)
  BY <1>2 DEF Good, Shaped, Labelled
<1>4. Stage(v) = Stage(s) /\ \A n : Journaled(v, n) <=> Journaled(s, n)
  BY <1>2 DEF Stage, Journaled
<1>5. Placed(v)
  <2>1. DOMAIN v.probes = {k \in Kinds : Journaled(v, k)}
    BY <1>2, <1>4 DEF Good, Placed
  <2> QED
    BY <1>2, <1>4, <2>1 DEF Good, Placed, Planned
<1>6. Asked(v)
  <2>1. Resumptions(v) = Resumptions(s) /\ \A type : Count(v, type) = Count(s, type)
    BY <1>2 DEF Resumptions, Count
  <2> QED
    BY <1>2, <2>1 DEF Good, Asked
<1> QED
  BY <1>2, <1>3, <1>5, <1>6 DEF Good

\* A route that needs input pauses the run behind the routing node.
LEMMA RoutedPauseGood ==
    ASSUME NEW s, Good(s), NEW n, \/ s.phase = "joined" /\ n = "route_catalog"
                                  \/ s.phase = "planning" /\ n = "route_plan",
           NEW t, t = Paused(s, "clarification", None, <<n>>)
    PROVE  Advances(s, t)
<1>1. /\ s \in Snapshots /\ s.events \in Seq(Events) /\ Len(s.events) \in Nat /\ Placed(s)
      /\ Shaped(s) /\ Labelled(s) /\ Asked(s)
      /\ s.phase \in Resumable /\ n \in GraphNodes /\ "NEEDS_INPUT" \in Details
  BY Parts DEF Good, Resumable, GraphNodes, Details, Routes
<1>2. PICK id : id = InterruptId(s, "clarification", None)
  OBVIOUS
<1>3. id \in InterruptIds /\ id.ordinal = 1 + Count(s, "interrupt_requested") /\ id.kind = "clarification"
  <2>1. Count(s, "interrupt_requested") \in Nat
    BY <1>1, CountType
  <2> QED
    BY <1>2, <2>1 DEF InterruptId, InterruptIds
<1>4. PICK r : r = Event("route_selected", n, Numbered(s, n), "NEEDS_INPUT")
  OBVIOUS
<1>5. r \in Events /\ r.node = n /\ r.type = "route_selected" /\ r.op = <<r.node, Len(s.events) + 1>>
  BY <1>1, <1>4, NumberedEvent
<1>6. PICK m : m = [s EXCEPT !.events = Append(@, r)]
  OBVIOUS
<1>7. /\ m \in Snapshots /\ m.phase = s.phase /\ m.rev = s.rev /\ m.probes = s.probes
      /\ m.from = s.from /\ m.repairs = s.repairs /\ m.status = s.status
      /\ m.events = Append(s.events, r) /\ m.events \in Seq(Events)
      /\ m.pending = s.pending /\ m.receipts = s.receipts /\ m.calls = s.calls
  <2>1. Append(s.events, r) \in Seq(Events)
    BY <1>1, <1>5
  <2> QED
    BY <1>1, <1>6, <2>1 DEF Snapshots
<1>8. Adds(s, m, r)
  BY <1>1, <1>5, <1>7 DEF Adds
<1>9. Shaped(m) /\ Labelled(m) /\ Asked(m)
  <2>1. Shaped(m)
    BY <1>1, <1>7 DEF Shaped
  <2>2. Labelled(m)
    BY ONLY <1>1, <1>5, <1>7, <1>8, NumberedFits
  <2>3. Asked(m)
    BY ONLY <1>1, <1>5, <1>7, <1>8, AskedStays
  <2> QED
    BY <2>1, <2>2, <2>3
<1>10. \A x : Journaled(m, x) <=> (Journaled(s, x) \/ x = n)
  BY ONLY <1>5, <1>8, JournalAfter
<1>11. Count(m, "interrupt_requested") = Count(s, "interrupt_requested")
  <2>1. \A type : r.type # type => Count(m, type) = Count(s, type)
    <3> TAKE type
    <3>1. s.events \in Seq(Events) /\ r \in Events /\ m.events = Append(s.events, r)
      BY <1>1, <1>5, <1>7
    <3> QED
      BY ONLY <3>1, CountAppended
  <2> QED
    BY <1>5, <2>1
<1>12. PICK e : e = Event("interrupt_requested", "request_input", Numbered(m, "request_input"), id)
  OBVIOUS
<1>13. e \in Events
  <2>1. id \in Details /\ "request_input" \in GraphNodes
    BY <1>3 DEF Details, GraphNodes
  <2> QED
    BY ZenonT(60), <1>7, <1>12, <2>1, NumberedEvent
<1>14. t = [m EXCEPT !.rev = @ + 1, !.phase = "paused", !.from = m.phase,
                     !.status = IF id.kind = "clarification" THEN "awaiting_input"
                                                             ELSE "awaiting_approval",
                     !.pending = [id |-> id, checkpoint |-> m.rev],
                     !.events = Append(@, e)]
  <2> DEFINE G == [i \in DOMAIN <<n>> |->
                      Event("route_selected", <<n>>[i], <<<<n>>[i], Len(s.events) + i>>, "NEEDS_INPUT")]
  <2>1. G = <<r>> /\ Len(<<n>>) = 1
    BY <1>4 DEF Numbered
  <2>2. e = Event("interrupt_requested", "request_input", <<"request_input", Len(s.events) + Len(<<n>>) + 1>>, id)
    <3>1. Len(m.events) = Len(s.events) + 1
      BY <1>1, <1>5, <1>7
    <3> QED
      BY <1>1, <1>12, <2>1, <3>1 DEF Numbered
  <2>3. s.events \o G \o << e >> = Append(Append(s.events, r), e)
    <3> HIDE DEF G
    <3> QED
      BY <1>1, <1>5, <1>13, <2>1, PauseJournal
  <2>4. t = [s EXCEPT !.rev = @ + 1, !.phase = "paused", !.from = s.phase,
                    !.status = "awaiting_input",
                    !.pending = [id |-> id, checkpoint |-> s.rev],
                    !.events = s.events \o G \o << e >>]
    BY <1>2, <2>2, Zenon DEF Paused, InterruptRequest
  <2>5. t = [m EXCEPT !.rev = s.rev + 1, !.phase = "paused", !.from = s.phase,
                    !.status = "awaiting_input",
                    !.pending = [id |-> id, checkpoint |-> s.rev],
                    !.events = Append(Append(s.events, r), e)]
    <3> HIDE DEF G
    <3> QED
      BY <1>1, <1>6, <2>3, <2>4 DEF Snapshots
  <2> HIDE DEF G
  <2> QED
    BY <1>3, <1>7, <2>5
<1>15. Requests(m, id, t)
  BY <1>1, <1>3, <1>7, <1>9, <1>11, <1>12, <1>14 DEF Requests
<1>16. Pauses(m, t)
  BY ONLY <1>15, RequestPauses
<1>17. Stage(s) = s.phase
  BY DEF Stage, Resumable
<1>18. Placed(t)
  <2>1. "request_input" \notin Kinds /\ n \notin Kinds
    BY GraphAssumption DEF GraphNodes
  <2>2. DOMAIN t.probes = {k \in Kinds : Journaled(t, k)}
    <3>1. DOMAIN s.probes = {k \in Kinds : Journaled(s, k)} /\ t.probes = s.probes
      BY <1>1, <1>7, <1>16 DEF Placed, Pauses
    <3>2. \A x : Journaled(t, x) <=> (Journaled(s, x) \/ x = n \/ x = "request_input")
      BY <1>10, <1>16 DEF Pauses
    <3> QED
      BY ONLY <2>1, <3>1, <3>2
  <2> QED
    BY <1>1, <1>7, <1>10, <1>16, <1>17, <2>2 DEF Placed, Planned, Pauses
<1> QED
  BY <1>1, <1>7, <1>16, <1>18 DEF Advances, Good, Moves, Pauses

\* One more receipt, of a new key, keeps the keys apart.
LEMMA ReceiptAppended ==
    ASSUME NEW S, NEW rs \in Seq(S), NEW r \in S, NEW qs, qs = Append(rs, r),
           \A i, l \in DOMAIN rs : rs[i].key = rs[l].key => i = l,
           \A i \in DOMAIN rs : rs[i].key # r.key
    PROVE  /\ qs \in Seq(S) /\ Len(qs) = Len(rs) + 1 /\ Len(rs) \in Nat
           /\ \A i, l \in DOMAIN qs : qs[i].key = qs[l].key => i = l
<1>1. /\ Len(rs) \in Nat /\ DOMAIN rs = 1..Len(rs) /\ DOMAIN qs = 1..(Len(rs) + 1)
      /\ \A i \in DOMAIN rs : qs[i] = rs[i]
      /\ qs[Len(rs) + 1] = r /\ qs \in Seq(S) /\ Len(qs) = Len(rs) + 1
  OBVIOUS
<1>2. \A i \in DOMAIN qs : i \in DOMAIN rs \/ i = Len(rs) + 1
  BY <1>1
<1> QED
  BY <1>1, <1>2

\* An answer resumes the run where it was paused, once.
LEMMA ResumeGood ==
    ASSUME NEW s, Good(s), NEW v, v.key \in Keys, v.text \in Texts, Answerable(s, v),
           NEW t, t = Resumed(s, v)
    PROVE  Advances(s, t)
<1>1. /\ s \in Snapshots /\ s.events \in Seq(Events) /\ Len(s.events) \in Nat /\ s.rev \in Nat
      /\ Shaped(s) /\ Labelled(s) /\ Placed(s) /\ Asked(s)
  BY Parts DEF Good
<1>2. /\ s.pending # None /\ s.pending \in InterruptRequests /\ s.pending.id \in InterruptIds
      /\ s.pending.checkpoint \in Nat /\ s.from \in Resumable /\ s.phase = "paused"
      /\ v.id = s.pending.id /\ v.checkpoint = s.pending.checkpoint
      /\ Stage(s) = s.from
  BY <1>1, Parts DEF Answerable, Shaped, InterruptRequests, Stage
<1>3. PICK r : r = [key |-> Receipt(v), text |-> v.text]
  OBVIOUS
<1>4. r \in [key : InterruptIds \X Nat \X Keys, text : Texts] /\ r.key \notin Consumed(s)
  BY <1>2, <1>3 DEF Receipt, Answerable
<1>5. PICK qs : qs = Append(s.receipts, r)
  OBVIOUS
<1>6. /\ qs \in Seq([key : InterruptIds \X Nat \X Keys, text : Texts])
      /\ Len(qs) = Len(s.receipts) + 1 /\ Len(s.receipts) \in Nat
      /\ \A i, l \in DOMAIN qs : qs[i].key = qs[l].key => i = l
  <2>1. s.receipts \in Seq([key : InterruptIds \X Nat \X Keys, text : Texts])
    BY <1>1, Parts
  <2>2. \A i, l \in DOMAIN s.receipts : s.receipts[i].key = s.receipts[l].key => i = l
    BY <1>1 DEF Asked
  <2>3. \A i \in DOMAIN s.receipts : s.receipts[i].key # r.key
    BY <1>4 DEF Consumed
  <2> QED
    BY ONLY <1>4, <1>5, <2>1, <2>2, <2>3, ReceiptAppended
<1>7. PICK u : u = [s EXCEPT !.phase = s.from, !.status = "running", !.pending = None,
                             !.from = None, !.receipts = qs]
  OBVIOUS
<1>8. /\ u \in Snapshots /\ u.phase = s.from /\ u.status = "running" /\ u.pending = None
      /\ u.from = None /\ u.receipts = qs /\ u.rev = s.rev /\ u.probes = s.probes
      /\ u.repairs = s.repairs /\ u.events = s.events /\ u.calls = s.calls
  BY <1>1, <1>2, <1>6, <1>7 DEF Snapshots
<1>9. PICK e : e = Event("interrupt_resumed", "request_input", Numbered(s, "request_input"), s.pending.id)
  OBVIOUS
<1>10. /\ e \in Events /\ e.node = "request_input" /\ e.type = "interrupt_resumed"
       /\ e.op = <<e.node, Len(s.events) + 1>> /\ e.node \in GraphNodes /\ e.detail = s.pending.id
  <2>1. s.pending.id \in Details /\ "request_input" \in GraphNodes
    BY <1>2 DEF Details, GraphNodes
  <2> QED
    BY <1>1, <1>9, <2>1, NumberedEvent
<1>11. /\ t \in Snapshots /\ t.rev = s.rev + 1 /\ t.events = Append(s.events, e)
       /\ t.phase = s.from /\ t.status = "running" /\ t.probes = s.probes
       /\ t.repairs = s.repairs /\ t.pending = None /\ t.from = None
       /\ t.receipts = qs /\ t.calls = s.calls
  <2>1. Grows(u, t, e)
    BY <1>3, <1>5, <1>7, <1>9, Zenon DEF Committed, Grows, Resumed
  <2>2. /\ t \in Snapshots /\ t.rev = u.rev + 1 /\ t.events = Append(u.events, e)
        /\ t.phase = u.phase /\ t.status = u.status
        /\ t.probes = u.probes /\ t.repairs = u.repairs
        /\ t.pending = u.pending /\ t.from = u.from /\ t.receipts = u.receipts
        /\ t.calls = u.calls
    <3>1. u \in Snapshots /\ e \in Events
      BY <1>8, <1>10
    <3> QED
      BY ONLY <2>1, <3>1, EventCommitted
  <2> QED
    BY <1>8, <2>2
<1>12. Adds(s, t, e)
  BY <1>1, <1>10, <1>11 DEF Adds
<1>13. Labelled(t)
  BY ONLY <1>1, <1>10, <1>11, <1>12, NumberedFits
<1>14. Asked(t)
  <2>0. /\ s.events \in Seq(Events) /\ e \in Events /\ t.events = Append(s.events, e)
        /\ e.type = "interrupt_resumed"
    BY <1>1, <1>10, <1>11
  <2>1. /\ Count(t, "interrupt_requested") = Count(s, "interrupt_requested")
        /\ Count(t, "interrupt_resumed") = Count(s, "interrupt_resumed") + 1
        /\ Count(s, "interrupt_requested") \in Nat /\ Count(s, "interrupt_resumed") \in Nat
    <3>1. \A type : /\ Count(s, type) \in Nat
                    /\ e.type = type => Count(t, type) = Count(s, type) + 1
                    /\ e.type # type => Count(t, type) = Count(s, type)
      <4> TAKE type
      <4> QED
        BY ONLY ZenonT(60), <2>0, CountAppended
    <3> QED
      BY ONLY <2>0, <3>1
  <2>2. /\ Resumptions(t) = Resumptions(s) \cup {Len(s.events) + 1}
        /\ \A i \in Resumptions(s) : t.events[i] = s.events[i] /\ i # Len(s.events) + 1
    BY ONLY <2>0, ResumptionAppended
  <2>3. t.events[Len(s.events) + 1] = e
    BY <2>0
  <2>4. /\ Count(s, "interrupt_requested") = Count(s, "interrupt_resumed") + 1
        /\ s.pending.id.ordinal = Count(s, "interrupt_requested")
        /\ Len(s.receipts) = Count(s, "interrupt_resumed")
        /\ \A i \in Resumptions(s) :
              /\ s.events[i].detail \in InterruptIds
              /\ s.events[i].detail.ordinal <= Count(s, "interrupt_resumed")
        /\ \A i, l \in Resumptions(s) : s.events[i].detail = s.events[l].detail => i = l
    BY <1>1, <1>2 DEF Asked
  <2>5. \A i \in Resumptions(s) : s.events[i].detail.ordinal \in Nat
    BY <2>4 DEF InterruptIds
  <2>6. \A i \in Resumptions(t) : /\ t.events[i].detail \in InterruptIds
                                  /\ t.events[i].detail.ordinal <= Count(t, "interrupt_resumed")
    BY <1>2, <1>10, <2>1, <2>2, <2>3, <2>4, <2>5
  <2>7. \A i, l \in Resumptions(t) : t.events[i].detail = t.events[l].detail => i = l
    <3>1. \A i \in Resumptions(s) : t.events[i].detail # e.detail
      BY <1>10, <2>1, <2>2, <2>4, <2>5
    <3>2. \A i, l \in Resumptions(s) : t.events[i].detail = t.events[l].detail => i = l
      BY <2>2, <2>4
    <3> QED
      BY ONLY <2>2, <2>3, <3>1, <3>2
  <2>8. /\ t.pending = None /\ Len(t.receipts) = Count(t, "interrupt_resumed")
        /\ Count(t, "interrupt_requested") = Count(t, "interrupt_resumed") + 0
        /\ \A i, l \in DOMAIN t.receipts : t.receipts[i].key = t.receipts[l].key => i = l
    BY <1>6, <1>11, <2>1, <2>4
  <2> QED
    BY ONLY <2>6, <2>7, <2>8 DEF Asked
<1>15. \A n : Journaled(t, n) <=> (Journaled(s, n) \/ n = "request_input")
  BY ONLY <1>10, <1>12, JournalAfter
<1>16. Shaped(t)
  BY <1>1, <1>2, <1>11 DEF Shaped, Resumable
<1>17. Placed(t)
  <2>1. Stage(t) = Stage(s)
    BY <1>2, <1>11 DEF Stage, Resumable
  <2>2. "request_input" \notin Kinds
    BY GraphAssumption DEF GraphNodes
  <2>3. DOMAIN t.probes = {k \in Kinds : Journaled(t, k)}
    BY <1>1, <1>11, <1>15, <2>2 DEF Placed
  <2> QED
    BY <1>1, <1>11, <1>15, <2>1, <2>3 DEF Placed, Planned
<1> QED
  BY <1>2, <1>11, <1>13, <1>14, <1>16, <1>17 DEF Advances, Good, Moves

-----------------------------------------------------------------------------
(***************************************************************************)
(* Steps.                                                                  *)
(***************************************************************************)
\* What a reader of the store may see of a step.
Walks ==
    \/ store' = store
    \/ store # None /\ store' # None /\ Good(store) /\ Good(store') /\ Moves(store, store')
    \/ /\ store = None /\ store' # None /\ store'.phase = "new" /\ store'.from = None
       /\ DOMAIN store'.probes = {} /\ store'.repairs = 0

\* Driver d may go on with job j after it wrote t.
Goes(d, j, t) ==
    /\ j \in Jobs
    /\ Advances(job[d].state, t)
    /\ job[d].state.phase # "complete"
    /\ job[d].expect = None => t.phase = "new"
    /\ Mutable(t) /\ j.found # None =>
         /\ t.phase = "validated" /\ Pending(t) \subseteq DOMAIN j.found
         /\ \A k \in DOMAIN j.found : j.found[k] \in Answers[k]

\* A compare-and-set of a commit keeps the invariant: only a driver that holds
\* the stored snapshot succeeds.
LEMMA WriteKeeps ==
    ASSUME IndInv, NEW d \in Drivers, job[d] # None, NEW j, NEW t, Goes(d, j, t), Write(d, j, t)
    PROVE  IndInv' /\ Walks
<1>1. /\ job[d] \in Jobs /\ Held(d) /\ Good(t) /\ t.rev = job[d].state.rev + 1
      /\ t \in Snapshots /\ t.rev \in Nat /\ t # None /\ j \in Jobs /\ Moves(job[d].state, t)
      /\ job[d].state \in Snapshots /\ job[d].state.rev \in Nat /\ job \in [Drivers -> Jobs \cup {None}]
  BY Parts DEF IndInv, Goes, Advances, Good, Jobs
<1>2. /\ store' = t /\ job' = [job EXCEPT ![d] = Continued(j, t)] /\ handoff' = handoff
      /\ job[d].expect = Revision
  BY DEF Write, Stale
<1>3. Continued(j, t) \in Jobs \cup {None}
  BY <1>1 DEF Continued, Jobs
<1>4. job' \in [Drivers -> Jobs \cup {None}] /\ job'[d] = Continued(j, t)
  BY <1>1, <1>2, <1>3
<1>5. store # None => /\ job[d].state = store /\ job[d].expect # None
                      /\ store.rev \in Nat /\ t.rev = store.rev + 1
  BY <1>1, <1>2, NoneAssumption, Parts DEF Revision, Held, IndInv, Good
<1>6. store = None => job[d].expect = None
  BY <1>2 DEF Revision
<1>7. ASSUME NEW f \in Drivers, job'[f] # None
      PROVE  Held(f)'
  <2>1. CASE f = d
    <3>1. /\ Mutable(t) /\ job'[f] = [j EXCEPT !.state = t, !.expect = t.rev]
      BY <1>4, <1>7, <2>1 DEF Continued
    <3>2. job'[f].state = t /\ job'[f].expect = t.rev /\ job'[f].found = j.found
      BY <1>1, <3>1 DEF Jobs
    <3>3. t.rev # None
      BY <1>1, NoneAssumption
    <3> QED
      BY <1>1, <1>2, <3>1, <3>2, <3>3 DEF Held, Covers, Goes
  <2>2. CASE f # d
    <3>1. job'[f] = job[f] /\ Held(f) /\ job[f] \in Jobs
      BY <1>1, <1>2, <1>7, <2>2 DEF IndInv
    <3>2. CASE job[f].expect = None
      BY <1>2, <3>1, <3>2 DEF Held, Covers
    <3>3. CASE job[f].expect # None
      <4>1. store # None /\ job[f].expect <= store.rev /\ job[f].expect \in Nat
        BY <3>1, <3>3 DEF Held, Jobs
      <4> QED
        BY <1>1, <1>2, <1>5, <3>1, <3>3, <4>1 DEF Held, Covers
    <3> QED
      BY <3>2, <3>3
  <2> QED
    BY <2>1, <2>2
<1>8. Handed'
  <2>1. handoff = None
    BY <1>5, <1>6, <1>2 DEF IndInv, Handed, Goes
  <2> QED
    BY <1>2, <2>1 DEF Handed
<1>9. IndInv'
  BY <1>1, <1>2, <1>4, <1>7, <1>8 DEF IndInv
<1>10. Walks
  <2>1. CASE store # None
    BY <1>1, <1>2, <1>5, <2>1 DEF Walks, IndInv
  <2>2. CASE store = None
    <3>1. t.phase = "new"
      BY <1>6, <2>2 DEF Goes
    <3>2. PICK b \in Bindings : job[d].state = Snapshot(b, "new")
      BY <1>1, <1>6, <2>2 DEF Held
    <3>3. /\ job[d].state.phase = "new" /\ job[d].state.from = None
          /\ DOMAIN job[d].state.probes = {} /\ job[d].state.repairs = 0
      BY <3>2, FreshGood
    <3>4. t.from = None /\ DOMAIN t.probes = {} /\ t.repairs = 0
      BY <1>1, <3>1, <3>3 DEF Moves
    <3> QED
      BY <1>1, <1>2, <2>2, <3>1, <3>4 DEF Walks
  <2> QED
    BY <2>1, <2>2
<1> QED
  BY <1>9, <1>10

\* So does a method that loads once and writes once.
LEMMA ReplaceKeeps ==
    ASSUME IndInv, store # None, store.phase # "complete", NEW t, Advances(store, t), Replace(t)
    PROVE  IndInv' /\ Walks
<1>1. /\ Good(store) /\ Good(t) /\ t.rev = store.rev + 1 /\ t \in Snapshots /\ t # None
      /\ store \in Snapshots /\ store.rev \in Nat /\ Moves(store, t) /\ handoff = None
  BY Parts DEF IndInv, Advances, Good, Handed
<1>2. store' = t /\ job' = job /\ handoff' = handoff
  BY DEF Replace
<1>3. ASSUME NEW f \in Drivers, job[f] # None
      PROVE  Held(f)'
  <2>1. Held(f) /\ job[f] \in Jobs
    BY <1>3 DEF IndInv
  <2>2. CASE job[f].expect = None
    BY <1>2, <2>1, <2>2 DEF Held, Covers
  <2>3. CASE job[f].expect # None
    <3>1. job[f].expect <= store.rev /\ job[f].expect \in Nat
      BY <2>1, <2>3 DEF Held, Jobs
    <3> QED
      BY <1>1, <1>2, <2>1, <2>3, <3>1 DEF Held, Covers
  <2> QED
    BY <2>2, <2>3
<1>4. IndInv'
  BY <1>1, <1>2, <1>3 DEF IndInv, Handed
<1> QED
  BY <1>1, <1>2, <1>4 DEF Walks

\* The facts about the snapshot a driver works on.
LEMMA JobParts ==
    ASSUME IndInv, NEW d \in Drivers, job[d] # None
    PROVE  /\ job[d] \in Jobs /\ Held(d) /\ Good(job[d].state) /\ job[d].state \in Snapshots
           /\ job[d].found # None =>
                /\ job[d].state.phase = "validated"
                /\ Pending(job[d].state) \subseteq DOMAIN job[d].found
                /\ \A k \in DOMAIN job[d].found : job[d].found[k] \in Answers[k]
BY DEF IndInv, Held, Good, Covers

\* The steps of run, one commit each: starting the run keeps the invariant.
LEMMA StartKeeps ==
    ASSUME IndInv, NEW d \in Drivers, Start(d)
    PROVE  IndInv' /\ Walks
<1>1. job[d] # None /\ job[d].expect = None
  BY DEF Start
<1>2. PICK s, t : /\ s = job[d].state
                  /\ t = Committed(s, "run_started", "catalog_graph", Numbered(s, "catalog_graph"), None)
  OBVIOUS
<1>3. Write(d, job[d], t)
  BY <1>2 DEF Start
<1>4. job[d] \in Jobs /\ \E b \in Bindings : s = Snapshot(b, "new") /\ job[d].found = None
  BY <1>1, <1>2, JobParts DEF Held
<1>5. Advances(s, t) /\ t.phase = "new" /\ s.phase = "new"
  BY <1>2, <1>4, StartGood, FreshGood
<1>6. Goes(d, job[d], t)
  BY <1>2, <1>4, <1>5 DEF Goes
<1> QED
  BY ONLY IndInv, d \in Drivers, <1>1, <1>3, <1>6, WriteKeeps

\* Validating the intent keeps the invariant.
LEMMA ValidateKeeps ==
    ASSUME IndInv, NEW d \in Drivers, ValidateIntent(d)
    PROVE  IndInv' /\ Walks
<1>1. job[d] # None /\ job[d].expect # None /\ job[d].state.phase = "new"
  BY DEF ValidateIntent, At
<1>2. PICK s, u, t : /\ s = job[d].state /\ u = [s EXCEPT !.phase = "validated"]
                     /\ t = Committed(u, "node_succeeded", "validate_intent", <<"validate_intent">>, None)
  OBVIOUS
<1>3. Write(d, job[d], t)
  BY <1>2 DEF ValidateIntent
<1>4. job[d] \in Jobs /\ Good(s) /\ job[d].found = None
  BY <1>1, <1>2, JobParts
<1>5. Advances(s, t)
  BY <1>1, <1>2, <1>4, ValidateGood
<1>6. Goes(d, job[d], t)
  BY <1>1, <1>2, <1>4, <1>5 DEF Goes
<1> QED
  BY ONLY IndInv, d \in Drivers, <1>1, <1>3, <1>6, WriteKeeps

\* Committing an answer, or closing the run on one of another kind, keeps it.
LEMMA CommitKeeps ==
    ASSUME IndInv, NEW d \in Drivers, CommitProbe(d)
    PROVE  IndInv' /\ Walks
<1>1. /\ job[d] # None /\ job[d].expect # None /\ job[d].state.phase = "validated"
      /\ job[d].found # None /\ Pending(job[d].state) # {}
  BY DEF CommitProbe, At
<1>2. PICK s, k, p, t : /\ s = job[d].state /\ k = First(Pending(s)) /\ p = job[d].found[k]
                        /\ Learns(s, k, p, t)
  BY DEF Learns
<1>3. /\ p.kind # k => Write(d, job[d], Failed(s, "catalog_probe_kind_mismatch"))
      /\ p.kind = k => Write(d, job[d], t)
  BY <1>2 DEF CommitProbe, Learns
<1>4. /\ job[d] \in Jobs /\ Good(s) /\ Pending(s) \subseteq DOMAIN job[d].found
      /\ \A l \in DOMAIN job[d].found : job[d].found[l] \in Answers[l]
  BY <1>1, <1>2, JobParts
<1>5. k \in Pending(s) /\ k \in Kinds /\ k \notin DOMAIN s.probes
  <2>1. Pending(s) \subseteq Kinds /\ Pending(s) # {}
    BY <1>1, <1>2 DEF Pending
  <2> QED
    BY <1>2, <2>1, FirstIsPending DEF Pending
<1>6. p \in ProbeValues
  BY <1>2, <1>4, <1>5 DEF ProbeValues
<1>7. CASE p.kind # k
  <2>1. Advances(s, Failed(s, "catalog_probe_kind_mismatch"))
        /\ Failed(s, "catalog_probe_kind_mismatch").phase = "failed"
    BY <1>1, <1>2, <1>4, FailedGood
  <2>2. Goes(d, job[d], Failed(s, "catalog_probe_kind_mismatch"))
    BY <1>1, <1>2, <1>4, <2>1 DEF Goes, Mutable, Terminal
  <2> QED
    BY ONLY IndInv, d \in Drivers, <1>1, <1>3, <1>7, <2>2, WriteKeeps
<1>8. CASE p.kind = k
  <2>1. Advances(s, t) /\ t.phase = "validated" /\ DOMAIN t.probes = DOMAIN s.probes \cup {k}
    <3>1. s.phase = "validated"
      BY <1>1, <1>2
    <3>2. Learns(s, k, p, t)
      BY <1>2
    <3> QED
      BY ONLY <1>4, <1>5, <1>6, <1>8, <3>1, <3>2, ProbeGood
  <2>2. Pending(t) \subseteq DOMAIN job[d].found
    BY <1>4, <2>1 DEF Pending
  <2>3. Goes(d, job[d], t)
    BY <1>1, <1>2, <1>4, <2>1, <2>2 DEF Goes
  <2> QED
    BY ONLY IndInv, d \in Drivers, <1>1, <1>3, <1>8, <2>3, WriteKeeps
<1> QED
  BY <1>7, <1>8

\* Closing the fan-out keeps it.
LEMMA CloseKeeps ==
    ASSUME IndInv, NEW d \in Drivers, CloseFanout(d)
    PROVE  IndInv' /\ Walks
<1>1. /\ job[d] # None /\ job[d].expect # None /\ job[d].state.phase = "validated"
      /\ Pending(job[d].state) = {}
  BY DEF CloseFanout, At
<1>2. PICK s, u, t, j :
        /\ s = job[d].state /\ u = [s EXCEPT !.phase = "probed"]
        /\ t = Committed(u, "fanout_completed", "catalog_fanout", Numbered(u, "catalog_fanout"), None)
        /\ j = [job[d] EXCEPT !.found = None]
  OBVIOUS
<1>3. Write(d, j, t)
  BY <1>2 DEF CloseFanout
<1>4. job[d] \in Jobs /\ Good(s)
  BY <1>1, <1>2, JobParts
<1>5. Advances(s, t)
  BY <1>1, <1>2, <1>4, CloseGood
<1>6. j \in Jobs /\ j.found = None
  BY <1>2, <1>4 DEF Jobs
<1>7. Goes(d, j, t)
  BY <1>1, <1>2, <1>5, <1>6 DEF Goes
<1> QED
  BY ONLY IndInv, d \in Drivers, <1>1, <1>3, <1>7, WriteKeeps

\* The join keeps it, and never finds the fan-out incomplete.
LEMMA JoinKeeps ==
    ASSUME IndInv, NEW d \in Drivers, Join(d)
    PROVE  IndInv' /\ Walks
<1>1. job[d] # None /\ job[d].expect # None /\ job[d].state.phase = "probed"
  BY DEF Join, At
<1>2. PICK s, u, t :
        /\ s = job[d].state /\ u = [s EXCEPT !.phase = "joined"]
        /\ t = Committed(u, "join_completed", "catalog_join", Numbered(s, "catalog_join"), None)
  OBVIOUS
<1>3. job[d] \in Jobs /\ Good(s) /\ job[d].found = None
  BY <1>1, <1>2, JobParts
<1>4. Advances(s, t) /\ Pending(s) = {}
  BY <1>1, <1>2, <1>3, JoinGood
<1>5. Write(d, job[d], t)
  BY <1>2, <1>4 DEF Join
<1>6. Goes(d, job[d], t)
  BY <1>1, <1>2, <1>3, <1>4 DEF Goes
<1> QED
  BY ONLY IndInv, d \in Drivers, <1>1, <1>5, <1>6, WriteKeeps

\* What the two routing functions return.
LEMMA RouteTypes ==
    /\ \A s : RouteCatalog(s) \in Routes
    /\ \A v, n : RoutePlan(v, n) \in Routes
BY DEF RouteCatalog, RoutePlan, Routes

\* How the route of the catalog, or of a plan, ends or pauses a run.
RouteWrites(s, r, t) ==
    LET v == [s EXCEPT !.route = r]
    IN  \/ r = "NEEDS_INPUT" /\ t = Paused(v, "clarification", None, <<"route_catalog">>)
        \/ t = Committed([v EXCEPT !.phase = "failed", !.status = "failed"],
                         "route_failed_closed", "route_catalog", Numbered(v, "route_catalog"), r)
        \/ t = Committed([v EXCEPT !.phase = "routed", !.status = "succeeded"],
                         "route_selected", "route_catalog", Numbered(v, "route_catalog"), r)

\* Each of them advances a joined run.
LEMMA RouteAdvances ==
    ASSUME NEW s, Good(s), s.phase = "joined", NEW r \in Routes, NEW t, RouteWrites(s, r, t)
    PROVE  Advances(s, t)
<1>1. PICK v : v = [s EXCEPT !.route = r]
  OBVIOUS
<1>2. CASE t = Paused(v, "clarification", None, <<"route_catalog">>)
  <2>1. /\ Good(v) /\ v.phase = s.phase /\ v.rev = s.rev /\ v.probes = s.probes
        /\ v.from = s.from /\ v.repairs = s.repairs
    BY <1>1, RouteNoted
  <2>2. Advances(v, t)
    BY <1>2, <2>1, RoutedPauseGood
  <2> QED
    BY <2>1, <2>2 DEF Advances, Moves
<1>3. CASE t = Committed([v EXCEPT !.phase = "failed", !.status = "failed"],
                         "route_failed_closed", "route_catalog", Numbered(v, "route_catalog"), r)
  BY <1>1, <1>3, RouteGood
<1>4. CASE t = Committed([v EXCEPT !.phase = "routed", !.status = "succeeded"],
                         "route_selected", "route_catalog", Numbered(v, "route_catalog"), r)
  BY <1>1, <1>4, RouteGood
<1> QED
  BY <1>1, <1>2, <1>3, <1>4 DEF RouteWrites

\* Routing the catalog keeps the invariant.
LEMMA RouteKeeps ==
    ASSUME IndInv, NEW d \in Drivers, Route(d)
    PROVE  IndInv' /\ Walks
<1>1. job[d] # None /\ job[d].expect # None /\ job[d].state.phase = "joined"
  BY DEF Route, At
<1>2. PICK s, r : s = job[d].state /\ r = RouteCatalog(s)
  OBVIOUS
<1>3. job[d] \in Jobs /\ Good(s) /\ job[d].found = None /\ r \in Routes
  BY <1>1, <1>2, JobParts, RouteTypes
<1>4. PICK t : RouteWrites(s, r, t) /\ Write(d, job[d], t)
  BY <1>2 DEF Route, RouteWrites
<1>5. Advances(s, t)
  BY <1>1, <1>2, <1>3, <1>4, RouteAdvances
<1>6. Goes(d, job[d], t)
  BY <1>1, <1>2, <1>3, <1>5 DEF Goes
<1> QED
  BY ONLY IndInv, d \in Drivers, <1>1, <1>4, <1>6, WriteKeeps

\* A step that leaves the store and the handoff alone keeps what they say of
\* each other; what is left to show is the job it changes.
LEMMA JobKeeps ==
    ASSUME IndInv, NEW d \in Drivers, NEW j \in Jobs \cup {None},
           job' = [job EXCEPT ![d] = j], UNCHANGED <<store, handoff>>, j # None => Held(d)'
    PROVE  IndInv' /\ Walks
<1>1. job \in [Drivers -> Jobs \cup {None}]
  BY DEF IndInv
<1>2. job' \in [Drivers -> Jobs \cup {None}] /\ job'[d] = j
      /\ \A f \in Drivers : f # d => job'[f] = job[f]
  BY <1>1
<1>3. ASSUME NEW f \in Drivers, job'[f] # None
      PROVE  Held(f)'
  BY <1>2, <1>3 DEF IndInv, Held, Covers
<1> QED
  BY <1>2, <1>3 DEF IndInv, Handed, Walks

\* A driver loads the run, or makes up a fresh one.
LEMMA RunKeeps ==
    ASSUME IndInv, NEW d \in Drivers, NEW b \in Bindings, Run(d, b)
    PROVE  IndInv' /\ Walks
<1>1. PICK s, j : /\ s = (IF store = None THEN Snapshot(b, "new") ELSE store)
                  /\ j = [state |-> s, expect |-> Revision, found |-> None]
  OBVIOUS
<1>2. job' = [job EXCEPT ![d] = j] /\ UNCHANGED <<store, handoff>>
  BY <1>1 DEF Run
<1>3. Good(s) /\ s \in Snapshots
  BY <1>1, FreshGood DEF IndInv, Good
<1>4. Revision \in Nat \cup {None} /\ (Revision = None <=> store = None)
  BY Parts, NoneAssumption DEF Revision, IndInv, Good
<1>5. j \in Jobs
  BY <1>1, <1>3, <1>4 DEF Jobs
<1>6. job'[d] = j
  BY <1>2 DEF IndInv
<1>7. Held(d)'
  <2>1. j.state = s /\ j.expect = Revision /\ j.found = None
    BY <1>1
  <2>2. CASE store = None
    BY <1>1, <1>2, <1>3, <1>4, <1>6, <2>1, <2>2 DEF Held, Covers
  <2>3. CASE store # None
    <3>1. s = store /\ Revision = s.rev /\ s.rev \in Nat
      BY <1>1, <1>3, <2>3, Parts DEF Revision
    <3> QED
      BY <1>2, <1>3, <1>4, <1>6, <2>1, <2>3, <3>1 DEF Held, Covers
  <2> QED
    BY <2>2, <2>3
<1> QED
  BY ONLY IndInv, d \in Drivers, <1>2, <1>5, <1>7, JobKeeps

\* The task group has answered.
LEMMA GatherKeeps ==
    ASSUME IndInv, NEW d \in Drivers, Gather(d)
    PROVE  IndInv' /\ Walks
<1>1. job[d] # None /\ job[d].expect # None /\ job[d].state.phase = "validated"
  BY DEF Gather, At
<1>2. PICK g \in [Pending(job[d].state) -> UNION {Answers[k] : k \in Kinds}] :
        /\ \A k \in DOMAIN g : g[k] \in Answers[k]
        /\ job' = [job EXCEPT ![d].found = g]
  BY DEF Gather
<1>3. UNCHANGED <<store, handoff>>
  BY DEF Gather
<1>4. PICK j : j = [job[d] EXCEPT !.found = g]
  OBVIOUS
<1>5. job[d] \in Jobs /\ Held(d) /\ job \in [Drivers -> Jobs \cup {None}]
  BY <1>1, JobParts DEF IndInv
<1>6. g \in ProbeMaps
  <2>1. Pending(job[d].state) \in SUBSET Kinds
    BY DEF Pending
  <2> QED
    BY <1>2, <2>1 DEF ProbeMaps, ProbeValues
<1>7. j \in Jobs /\ j.state = job[d].state /\ j.expect = job[d].expect /\ j.found = g
  BY <1>4, <1>5, <1>6 DEF Jobs
<1>8. job' = [job EXCEPT ![d] = j] /\ job'[d] = j
  BY <1>2, <1>4, <1>5
<1>9. Held(d)'
  BY <1>1, <1>2, <1>3, <1>5, <1>7, <1>8 DEF Held, Covers
<1> QED
  BY ONLY IndInv, d \in Drivers, <1>3, <1>7, <1>8, <1>9, JobKeeps

\* A driver loses the race, or dies.
LEMMA DropKeeps ==
    ASSUME IndInv, NEW d \in Drivers, Conflict(d) \/ Crash(d)
    PROVE  IndInv' /\ Walks
<1>1. job' = [job EXCEPT ![d] = None] /\ UNCHANGED <<store, handoff>>
  BY DEF Conflict, Crash
<1> QED
  BY <1>1, JobKeeps

\* The methods of the clients: asking for an interrupt keeps the invariant.
LEMMA InterruptKeeps ==
    ASSUME IndInv, RequestInterrupt
    PROVE  IndInv' /\ Walks
<1>1. store # None /\ store.phase \in Resumable /\ Good(store) /\ store.phase # "complete"
  BY DEF RequestInterrupt, Checkpointable, IndInv, Resumable
<1>2. PICK kind, subject : Interrupts(kind, subject) /\ Replace(Paused(store, kind, subject, <<>>))
  <2>1. CASE Replace(Paused(store, "clarification", None, <<>>))
    BY <2>1 DEF Interrupts
  <2>2. CASE \E k \in {"simulation_approval", "production_approval"}, x \in Subjects :
               Replace(Paused(store, k, x, <<>>))
    BY <2>2 DEF Interrupts
  <2> QED
    BY <2>1, <2>2 DEF RequestInterrupt
<1>3. PICK t : t = Paused(store, kind, subject, <<>>)
  OBVIOUS
<1>4. Advances(store, t)
  BY <1>1, <1>2, <1>3, InterruptGood
<1>5. Replace(t)
  BY <1>2, <1>3
<1> QED
  BY ONLY IndInv, <1>1, <1>4, <1>5, ReplaceKeeps

\* An observed model call keeps the invariant.
LEMMA CallKeeps ==
    ASSUME IndInv, RecordModelCall
    PROVE  IndInv' /\ Walks
<1>1. store # None /\ Mutable(store) /\ Good(store) /\ store.phase # "complete"
  BY DEF RecordModelCall, IndInv, Mutable, Terminal
<1>2. PICK i \in Invocations \ store.calls :
        Replace(Committed([store EXCEPT !.calls = @ \cup {i}], "model_call_observed", "agent",
                          <<"agent", i>>, i))
  BY DEF RecordModelCall
<1>3. PICK u, t : /\ u = [store EXCEPT !.calls = @ \cup {i}]
                  /\ t = Committed(u, "model_call_observed", "agent", <<"agent", i>>, i)
  OBVIOUS
<1>4. Advances(store, t)
  BY <1>1, <1>3, CallGood
<1>5. Replace(t)
  BY <1>2, <1>3
<1> QED
  BY ONLY IndInv, <1>1, <1>4, <1>5, ReplaceKeeps

\* An answer to the open interrupt keeps it.
LEMMA ResumeKeeps ==
    ASSUME IndInv, Resume
    PROVE  IndInv' /\ Walks
<1>1. store # None /\ Good(store)
  BY DEF Resume, IndInv
<1>2. PICK v \in ResumeInputs : Answerable(store, v) /\ Replace(Resumed(store, v))
  BY DEF Resume
<1>3. v.key \in Keys /\ v.text \in Texts
  BY DEF ResumeInputs
<1>4. store.phase # "complete"
  BY <1>2 DEF Answerable, Terminal
<1>5. PICK t : t = Resumed(store, v)
  OBVIOUS
<1>6. Advances(store, t)
  BY <1>1, <1>2, <1>3, <1>5, ResumeGood
<1>7. Replace(t)
  BY <1>2, <1>5
<1> QED
  BY ONLY IndInv, <1>1, <1>4, <1>6, <1>7, ReplaceKeeps

\* A plan that needs research has rounds left.
LEMMA PlanKeeps ==
    ASSUME IndInv, ApplyPlanRoute
    PROVE  IndInv' /\ Walks
<1>1. store # None /\ store.phase = "planning" /\ Good(store) /\ store.phase # "complete"
  BY DEF ApplyPlanRoute, IndInv
<1>2. PICK v \in PlanInputs : Replace(PlanRouted(store, RoutePlan(v, store.repairs)))
  BY DEF ApplyPlanRoute
<1>3. PICK r : r = RoutePlan(v, store.repairs)
  OBVIOUS
<1>4. r \in Routes /\ (r = "NEEDS_RESEARCH" => store.repairs < MaxRepairs)
  BY <1>3, RouteTypes DEF RoutePlan
<1>5. PICK t : t = PlanRouted(store, r)
  OBVIOUS
<1>6. Advances(store, t)
  <2>1. CASE r = "NEEDS_INPUT"
    <3>1. t = Paused(store, "clarification", None, <<"route_plan">>)
      BY <1>5, <2>1 DEF PlanRouted
    <3> QED
      BY <1>1, <3>1, RoutedPauseGood
  <2>2. CASE r = "NEEDS_RESEARCH"
    <3>1. t = Committed([store EXCEPT !.repairs = @ + 1], "route_selected", "route_plan",
                        Numbered(store, "route_plan"), r)
      BY <1>5, <2>2 DEF PlanRouted
    <3> QED
      BY <1>1, <1>4, <2>2, <3>1, PlanGood
  <2>3. CASE r = "READY"
    <3>1. t = Committed([store EXCEPT !.phase = "complete", !.status = "succeeded"],
                        "route_selected", "route_plan", Numbered(store, "route_plan"), r)
      BY <1>5, <2>3 DEF PlanRouted
    <3> QED
      BY <1>1, <1>4, <3>1, PlanGood
  <2>4. CASE r \notin {"NEEDS_INPUT", "NEEDS_RESEARCH", "READY"}
    <3>1. t = Committed([store EXCEPT !.phase = "failed", !.status = "failed"],
                        "route_failed_closed", "route_plan", Numbered(store, "route_plan"), r)
      BY <1>5, <2>4 DEF PlanRouted
    <3> QED
      BY <1>1, <1>4, <3>1, PlanGood
  <2> QED
    BY <2>1, <2>2, <2>3, <2>4
<1>7. Replace(t)
  BY <1>2, <1>3, <1>5
<1> QED
  BY ONLY IndInv, <1>1, <1>6, <1>7, ReplaceKeeps

\* The plan is handed over with the run's journal.
LEMMA HandoffKeeps ==
    ASSUME IndInv, Handoff
    PROVE  IndInv' /\ Walks
<1>1. /\ store # None /\ store.phase = "complete" /\ UNCHANGED <<store, job>>
      /\ handoff'.journal = store.events
  BY DEF Handoff
<1>2. \A d \in Drivers : Held(d) => Held(d)'
  BY <1>1 DEF Held, Covers
<1> QED
  BY <1>1, <1>2 DEF IndInv, Handed, Walks

-----------------------------------------------------------------------------
\* The invariant holds at the start.
LEMMA InitInv == Init => IndInv
<1> SUFFICES ASSUME Init PROVE IndInv
  OBVIOUS
<1>1. \A b \in Bindings : Good(Snapshot(b, "planning"))
  BY FreshGood
<1> QED
  BY <1>1 DEF Init, IndInv, Handed

\* Every step keeps the invariant and is one a reader of the store may see.
LEMMA StepInv == IndInv /\ [Next]_vars => IndInv' /\ Walks
<1> SUFFICES ASSUME IndInv, [Next]_vars PROVE IndInv' /\ Walks
  OBVIOUS
<1>1. CASE UNCHANGED vars
  <2>1. \A d \in Drivers : Held(d) => Held(d)'
    BY <1>1 DEF vars, Held, Covers
  <2> QED
    BY <1>1, <2>1 DEF vars, IndInv, Handed, Walks
<1>2. CASE Next
  <2>1. CASE \E d \in Drivers : Drive(d) \/ Crash(d)
    <3>1. PICK d \in Drivers : Drive(d) \/ Crash(d)
      BY <2>1
    <3> QED
      BY <3>1, RunKeeps, StartKeeps, ValidateKeeps, GatherKeeps, CommitKeeps, CloseKeeps,
         JoinKeeps, RouteKeeps, DropKeeps DEF Drive, RunStep
  <2> QED
    BY <1>2, <2>1, InterruptKeeps, PlanKeeps, CallKeeps, ResumeKeeps, HandoffKeeps DEF Next
<1> QED
  BY <1>1, <1>2

\* The inductive invariant holds in every reachable state.
THEOREM Invariance == Spec => []IndInv
<1>1. IndInv /\ [Next]_vars => IndInv'
  BY StepInv
<1> QED
  BY InitInv, <1>1, PTL DEF Spec

\* Every snapshot a process holds or stores is one the constructor accepts, and
\* the journal of the stored one tells its phase, probes, pauses and receipts.
THEOREM JournalIsSound == Spec => []JournalSound
<1>1. ASSUME NEW s, Good(s)
      PROVE  Sound(s)
  <2>1. s \in Snapshots /\ s.rev \in Nat /\ s.probes \in ProbeMaps
    BY <1>1, Parts DEF Good
  <2>2. DOMAIN s.probes \subseteq Kinds /\ \A k \in DOMAIN s.probes : s.probes[k] \in ProbeValues
    BY <2>1 DEF ProbeMaps
  <2> QED
    BY <1>1, <2>1, <2>2 DEF Good, Shaped, Labelled, Asked, Sound
<1>2. IndInv => TypeOK
  BY <1>1 DEF IndInv, TypeOK, Held
<1>3. IndInv => JournalTells
  <2> SUFFICES ASSUME IndInv PROVE JournalTells
    OBVIOUS
  <2>1. store # None => Placed(store) /\ Asked(store)
    BY DEF IndInv, Good
  <2>2. ASSUME store # None, ~Planned(store)
        PROVE  /\ Journaled(store, "validate_intent") = (Stage(store) # "new")
               /\ Stage(store) = "validated" => ~Journaled(store, "catalog_fanout")
               /\ Stage(store) \in {"probed", "joined", "routed"} => DOMAIN store.probes = Kinds
               /\ Stage(store) \in {"joined", "routed"} => Journaled(store, "catalog_join")
               /\ DOMAIN store.probes = {k \in Kinds : Journaled(store, k)}
    <3>1. Journaled(store, "validate_intent") \in BOOLEAN
      BY DEF Journaled
    <3>2. /\ Journaled(store, "validate_intent") <=> Stage(store) # "new"
          /\ Stage(store) \in {"new", "validated"} => ~Journaled(store, "catalog_fanout")
          /\ Stage(store) \in {"probed", "joined", "routed"} => DOMAIN store.probes = Kinds
          /\ Stage(store) \in {"joined", "routed"} => Journaled(store, "catalog_join")
          /\ DOMAIN store.probes = {k \in Kinds : Journaled(store, k)}
      BY <2>1, <2>2 DEF Placed
    <3> QED
      BY ONLY <3>1, <3>2
  <2>3. store # None =>
         /\ Count(store, "interrupt_requested") =
              Count(store, "interrupt_resumed") + (IF store.pending = None THEN 0 ELSE 1)
         /\ Len(store.receipts) = Count(store, "interrupt_resumed")
         /\ \A i, l \in Resumptions(store) :
               store.events[i].detail = store.events[l].detail => i = l
    BY <2>1, Zenon DEF Asked
  <2>4. handoff # None => store.phase = "complete" /\ store.events = handoff.journal
    BY DEF IndInv, Handed
  <2> QED
    BY <2>2, <2>3, <2>4, Zenon DEF JournalTells
<1>4. IndInv => JournalSound
  BY <1>2, <1>3 DEF JournalSound
<1> QED
  BY Invariance, <1>4, PTL

\* How many facts a run has learned, before and after a step.
LEMMA LearnedCount ==
    ASSUME NEW s, Good(s)
    PROVE  /\ IsFiniteSet(DOMAIN s.probes)
           /\ Cardinality(DOMAIN s.probes) \in Nat /\ Cardinality(DOMAIN s.probes) <= Len(Order)
           /\ DOMAIN s.probes \subseteq Kinds
           /\ Cardinality(DOMAIN s.probes) = Len(Order) <=> DOMAIN s.probes = Kinds
<1>1. DOMAIN s.probes \subseteq Kinds
  BY DEF Good, Placed
<1> QED
  BY <1>1, KindsCounted, FS_Subset, FS_CardinalityType

\* Seen through the store, every step is a step of the sequential walk.
LEMMA FlowStep ==
    ASSUME IndInv, IndInv', Walks
    PROVE  [Flow!Next]_<<IF store = None THEN "absent" ELSE store.phase,
                         IF store = None THEN 0 ELSE Cardinality(DOMAIN store.probes),
                         IF store = None \/ store.from = None THEN "none" ELSE store.from,
                         IF store = None THEN 0 ELSE store.repairs>>
<1> USE DEF Flow!Next, Flow!Go, Flow!Learn, Flow!Gathered, Flow!Repair, Flow!Pause, Flow!Resume,
            Flow!Resumable
<1>1. CASE store' = store
  BY <1>1
<1>2. CASE /\ store = None /\ store' # None /\ store'.phase = "new" /\ store'.from = None
           /\ DOMAIN store'.probes = {} /\ store'.repairs = 0
  BY <1>2, FS_EmptySet
<1>3. CASE store # None /\ store' # None /\ Good(store) /\ Good(store') /\ Moves(store, store')
  <2>1. /\ \A x \in {store, store'} : (x.phase = "paused") <=> (x.from # None)
        /\ store.phase \in Resumable => store.from = None
        /\ store.from # None => store.from \in Resumable
    BY <1>3, Parts DEF Good, Shaped, Resumable
  <2>2. CASE /\ store'.probes = store.probes /\ store'.from = store.from
             /\ store'.repairs = store.repairs
             /\ \/ store'.phase = store.phase
                \/ store.phase = "new" /\ store'.phase = "validated"
                \/ /\ store.phase = "validated" /\ store'.phase = "probed"
                   /\ DOMAIN store.probes = Kinds
                \/ store.phase = "probed" /\ store'.phase = "joined"
                \/ /\ store.phase \in {"validated", "joined", "planning"}
                   /\ store'.phase = "failed"
                \/ store.phase = "joined" /\ store'.phase = "routed"
                \/ store.phase = "planning" /\ store'.phase = "complete"
    <3>1. CASE store'.phase = store.phase
      BY <1>3, <2>2, <3>1
    <3>2. CASE \/ store.phase = "new" /\ store'.phase = "validated"
               \/ store.phase = "probed" /\ store'.phase = "joined"
               \/ store.phase \in {"validated", "joined", "planning"} /\ store'.phase = "failed"
               \/ store.phase = "joined" /\ store'.phase = "routed"
               \/ store.phase = "planning" /\ store'.phase = "complete"
      BY <1>3, <2>2, <3>2
    <3>3. CASE store.phase = "validated" /\ store'.phase = "probed" /\ DOMAIN store.probes = Kinds
      BY <1>3, <2>2, <3>3, KindsCounted
    <3> QED
      BY <2>2, <3>1, <3>2, <3>3
  <2>3. CASE /\ store.phase = "validated" /\ store'.phase = "validated"
             /\ store'.from = store.from /\ store'.repairs = store.repairs
             /\ \E k \in Kinds \ DOMAIN store.probes :
                   DOMAIN store'.probes = DOMAIN store.probes \cup {k}
    <3>1. Cardinality(DOMAIN store'.probes) = Cardinality(DOMAIN store.probes) + 1
      BY <1>3, <2>3, LearnedCount, FS_AddElement
    <3>2. Cardinality(DOMAIN store.probes) < Len(Order)
      <4>1. Cardinality(DOMAIN store.probes) # Len(Order) /\ Len(Order) \in Nat
        BY <1>3, <2>3, LearnedCount, GraphAssumption
      <4> QED
        BY <1>3, <4>1, LearnedCount
    <3> QED
      BY <1>3, <2>3, <3>1, <3>2
  <2>4. CASE /\ store.phase = "planning" /\ store'.phase = "planning"
             /\ store'.probes = store.probes /\ store'.from = store.from
             /\ store.repairs < MaxRepairs /\ store'.repairs = store.repairs + 1
    BY <1>3, <2>4
  <2>5. CASE /\ store.phase \in Resumable /\ store'.phase = "paused" /\ store'.from = store.phase
             /\ store'.probes = store.probes /\ store'.repairs = store.repairs
    BY <1>3, <2>1, <2>5, NoneAssumption DEF Resumable
  <2>6. CASE /\ store.phase = "paused" /\ store.from \in Resumable /\ store'.phase = store.from
             /\ store'.from = None
             /\ store'.probes = store.probes /\ store'.repairs = store.repairs
    BY <1>3, <2>1, <2>6, NoneAssumption DEF Resumable
  <2> QED
    BY <1>3, <2>2, <2>3, <2>4, <2>5, <2>6 DEF Moves
<1> QED
  BY <1>1, <1>2, <1>3 DEF Walks

\* The kernel implements the sequential walk of CatalogFlow.
THEOREM ImplementsFlow == Spec => FlowSpec
<1>1. Init => Flow!Init
  BY FS_EmptySet DEF Init, Flow!Init, Snapshot
<1>2. IndInv /\ IndInv' /\ [Next]_vars =>
        [Flow!Next]_<<IF store = None THEN "absent" ELSE store.phase,
                      IF store = None THEN 0 ELSE Cardinality(DOMAIN store.probes),
                      IF store = None \/ store.from = None THEN "none" ELSE store.from,
                      IF store = None THEN 0 ELSE store.repairs>>
  BY StepInv, FlowStep
<1> QED
  BY <1>1, <1>2, Invariance, PTL DEF Spec, FlowSpec, Flow!Spec
=============================================================================
