-------------------------- MODULE TrustSpineProofs --------------------------
(***************************************************************************)
(* Theorems about TrustSpine for every set of payloads and answers, every  *)
(* budget and any number of crashes.                                       *)
(***************************************************************************)
EXTENDS TrustSpine, FiniteSetTheorems, SequenceTheorems, WellFoundedInduction, TLAPS

PreSeal  == PureNodes \cup {"prisma_repair"} \cup Stages
PostSeal == EffectNodes \cup {"finalise"}

\* Where the process is agrees with what the checkpoint says.
Control ==
    /\ pc # "idle" => ckpt # None /\ payload \in Payloads
    /\ pc \in PostSeal => Sealed
    /\ pc \in PreSeal => ~Sealed
    /\ Sealed => ckpt.seal \in Seals

\* What a repair answered is a payload, in memory and in the store, and what
\* a node raised is a failure code.
Repairs ==
    /\ step \in {"failed", "failphase"} => val \in Codes
    /\ pc = "prisma_repair" => attempt \in 1..MaxRepairs
    /\ pc = "prisma_repair" /\ step \in {"output", "success", "phase"} => val \in Payloads
    /\ \A i \in DOMAIN records :
          records[i].key.node = "prisma_repair" /\ records[i].status = "succeeded"
            => records[i].out \in Payloads

\* The decisions the run is about, and what has been done on their strength.
Consent ==
    /\ pc = "production" \/ (pc = "simulation" /\ step = "phase")
         => approvals # <<>> /\ approvals[1].proposal = payload
    /\ pc \in PostSeal => payload = ckpt.seal.proposal
    /\ Sealed =>
         /\ Len(approvals) = 2
         /\ ckpt.seal.simulation = approvals[1] /\ ckpt.seal.production = approvals[2]
         /\ \A k \in 1..2 : approvals[k].proposal = ckpt.seal.proposal
    /\ effects # {} => Sealed
    /\ \A e \in effects : e.key.node = "flow_dispatch" => e.key.in = ckpt.seal.proposal

IndInv == TypeOK /\ Control /\ Repairs /\ Consent

-----------------------------------------------------------------------------
(***************************************************************************)
(* Lemmas about the operators of the model.                                *)
(***************************************************************************)
\* First(I), which finds "the first record such that", is the least of I.
LEMMA FirstIsLeast ==
    ASSUME NEW I, I \subseteq Nat, I # {}
    PROVE  First(I) \in I /\ \A j \in I : First(I) <= j
<1>1. PICK x \in I : \A y \in I : ~ (<<y, x>> \in OpToRel(<, Nat))
  BY NatLessThanWellFounded, WFMin
<1>2. \A y \in I : ~ (y < x)
  <2> SUFFICES ASSUME NEW y \in I, y < x PROVE FALSE
    OBVIOUS
  <2> DEFINE p == <<y, x>>
  <2>1. p \in Nat \X Nat
    OBVIOUS
  <2>2. p[1] < p[2]
    OBVIOUS
  <2> HIDE DEF p
  <2>3. p \in OpToRel(<, Nat)
    BY <2>1, <2>2, Zenon DEF OpToRel
  <2>4. p = <<y, x>>
    BY DEF p
  <2> QED
    BY <1>1, <2>3, <2>4, Zenon
<1>3. \A y \in I : x <= y
  BY <1>2
<1> QED
  BY <1>3 DEF First

\* A position found by First is a natural number, 0 when there is none.
LEMMA FirstIsNat ==
    ASSUME NEW I, I \subseteq Nat
    PROVE  First(I) \in Nat
<1>1. CASE I = {}
  BY <1>1 DEF First
<1>2. CASE I # {}
  BY <1>2, FirstIsLeast, Zenon
<1> QED
  BY <1>1, <1>2

\* The records of a node and a status are finitely many positions.
LEMMA RecordsOfFinite ==
    ASSUME records \in Seq(Records), NEW n, NEW s
    PROVE  /\ RecordsOf(n, s) \subseteq Nat
           /\ IsFiniteSet(RecordsOf(n, s))
           /\ Cardinality(RecordsOf(n, s)) \in Nat
<1>1. RecordsOf(n, s) \in SUBSET (1..Len(records)) /\ Len(records) \in Nat
  BY DEF RecordsOf
<1>2. IsFiniteSet(1..Len(records))
  BY <1>1, FS_Interval
<1>3. IsFiniteSet(RecordsOf(n, s))
  BY <1>1, <1>2, FS_Subset
<1> QED
  BY <1>1, <1>3, FS_CardinalityType

\* Chain positions and the count of charged calls are natural numbers.
LEMMA CountTypes ==
    ASSUME TypeOK
    PROVE  ModelCalls \in Nat /\ ChainLength \in Nat /\ LedgerChain \in Nat
<1> DEFINE L == RecordsOf("ledger_reconcile", "succeeded")
           V == RecordsOf("vale_verify", "succeeded")
<1>1. ModelCalls \in Nat
  BY RecordsOfFinite DEF TypeOK, ModelCalls
<1>2. Len(records) \in Nat /\ Len(approvals) \in Nat
  BY DEF TypeOK
<1>3. First(L) \in Nat /\ First(V) \in Nat
  <2>1. L \subseteq Nat /\ V \subseteq Nat
    BY RecordsOfFinite DEF TypeOK
  <2> HIDE DEF L, V
  <2> QED
    BY <2>1, FirstIsNat, Zenon
<1> QED
  BY <1>1, <1>2, <1>3 DEF ChainLength, LedgerChain, ChainAt, ValeIndex

\* The key of the node being driven is a key.
LEMMA KeyType ==
    ASSUME TypeOK, Control, Repairs, NEW n \in Nodes, pc = n
    PROVE  KeyOf(n) \in Keys
<1>1. payload \in Values /\ ckpt \in Ckpts
  BY DEF TypeOK, Control, Values, Nodes, PureNodes, EffectNodes
<1>2. n \in EffectNodes => ckpt.seal.production.pred \in Nat
  BY <1>1 DEF Control, PostSeal, Seals, Approvals
<1>3. /\ <<"flow_dispatch", 0>> \in Slots
      /\ <<"ledger_reconcile", 0>> \in Slots
  BY DEF Slots, EffectNodes
<1>4. /\ ckpt.state[<<"flow_dispatch", 0>>] \in Values
      /\ ckpt.state[<<"ledger_reconcile", 0>>] \in Values
  BY <1>1, <1>3 DEF Ckpts
<1>5. attempt \in 0..MaxRepairs /\ 0 \in 0..MaxRepairs
  BY BudgetAssumption DEF TypeOK
<1>6. LedgerChain \in Nat
  BY CountTypes
<1> QED
  BY <1>1, <1>2, <1>4, <1>5, <1>6 DEF KeyOf, Keys, EffectNodes

\* Appending to the journal keeps it a journal.
LEMMA AppendType ==
    ASSUME TypeOK, Control, Repairs, NEW n \in Nodes, pc = n,
           NEW s \in {"started", "succeeded", "failed"}, NEW o \in Values,
           AppendRecord(n, s, o)
    PROVE  records' \in Seq(Records)
<1>1. [key |-> KeyOf(n), status |-> s, out |-> o, pred |-> ChainLength] \in Records
  BY KeyType, CountTypes DEF Records
<1> QED
  BY <1>1 DEF AppendRecord, TypeOK

\* Appending to a sequence of one element.
LEMMA SecondAppended ==
    ASSUME NEW S, NEW q \in Seq(S), NEW x \in S, Len(q) = 1
    PROVE  /\ Append(q, x) \in Seq(S) /\ Len(Append(q, x)) = 2
           /\ Append(q, x)[1] = q[1] /\ Append(q, x)[2] = x
<1>1. Append(q, x) \in Seq(S) /\ Len(Append(q, x)) = 2
  OBVIOUS
<1>2. Append(q, x)[1] = q[1]
  OBVIOUS
<1>3. Append(q, x)[Len(q) + 1] = x
  BY AppendProperties
<1> QED
  BY <1>1, <1>2, <1>3

\* execute has been left, by an exception or a crash.
Left ==
    /\ pc' = "idle" /\ step' = "enter" /\ outcome' \in Outcomes
    /\ attempt' = 0 /\ payload' = None /\ val' = None

\* Leaving execute with a code is what Left says of the next state.
LEMMA LeaveLeft ==
    ASSUME NEW code \in Outcomes, Leave(code)
    PROVE  Left
BY DEF Leave, Left, Goto

\* What Journal._write stores is a checkpoint of the given phase with the seal
\* it had; when it refuses, the checkpoint stays and execute is left.
LEMMA AdvanceType ==
    ASSUME TypeOK, ckpt # None, NEW phase \in Phases, NEW state \in [Slots -> Values],
           NEW cont, Advance(phase, state, cont)
    PROVE  /\ ckpt' \in Ckpts
           /\ ckpt'.seal = ckpt.seal /\ ckpt'.phase >= ckpt.phase
           /\ \/ cont /\ ckpt'.phase = phase
              \/ Left /\ ckpt' = ckpt
<1>1. ckpt \in Ckpts
  BY DEF TypeOK
<1>2. CASE AdvanceRefusal(phase) = "ok"
  <2>1. phase >= ckpt.phase
    BY <1>1, <1>2 DEF AdvanceRefusal, Ckpts, Phases
  <2>2. /\ ckpt' = [ckpt EXCEPT !.phase = phase, !.chain = ChainLength,
                                !.sequence = Len(records),
                                !.model_calls = ModelCalls, !.state = state]
        /\ cont
    BY <1>2 DEF Advance
  <2>3. Len(records) \in Nat
    BY DEF TypeOK
  <2> QED
    BY <1>1, <2>1, <2>2, <2>3, CountTypes DEF Ckpts
<1>3. CASE AdvanceRefusal(phase) # "ok"
  <2>1. AdvanceRefusal(phase) \in {"STATE_CORRUPTION", "POST_APPROVAL_MODEL_CALL", "ok"}
    BY DEF AdvanceRefusal
  <2>2. UNCHANGED ckpt /\ Leave(AdvanceRefusal(phase))
    BY <1>3 DEF Advance
  <2>3. AdvanceRefusal(phase) \in Outcomes
    BY <1>3, <2>1 DEF Outcomes
  <2> QED
    BY <1>1, <2>2, <2>3, LeaveLeft DEF Ckpts, Phases
<1> QED
  BY <1>2, <1>3

\* The same of Journal.ensure_phase, which may have nothing to write.
LEMMA EnsureType ==
    ASSUME TypeOK, ckpt # None, NEW phase \in Phases, NEW cont, EnsurePhase(phase, cont)
    PROVE  /\ ckpt' \in Ckpts
           /\ ckpt'.seal = ckpt.seal /\ ckpt'.phase >= ckpt.phase
           /\ \/ cont /\ ckpt'.phase \in {ckpt.phase, phase}
              \/ Left /\ ckpt' = ckpt
<1>1. ckpt \in Ckpts /\ ckpt.state \in [Slots -> Values]
  BY DEF TypeOK, Ckpts
<1>2. CASE ckpt.phase < phase
  BY <1>1, <1>2, AdvanceType DEF EnsurePhase
<1>3. CASE ~(ckpt.phase < phase)
  BY <1>1, <1>3 DEF EnsurePhase, Ckpts, Phases
<1> QED
  BY <1>2, <1>3

\* Leaving execute keeps the invariant, whether or not a write that changes
\* neither seal nor sealedness came with it.
LEMMA LeftKeeps ==
    ASSUME IndInv, Left,
           \/ ckpt' = ckpt
           \/ /\ ckpt # None /\ ckpt' \in Ckpts /\ ckpt'.seal = ckpt.seal
              /\ ckpt'.phase = ckpt.phase,
           UNCHANGED <<records, approvals, result, effects, entered>>,
           asked' \in [Stages -> Questions \cup {None}],
           UNCHANGED <<decided, budget>>, crashes' \in 0..MaxCrashes
    PROVE  IndInv'
<1> USE DEF IndInv, Left
<1>1. TypeOK'
  BY BudgetAssumption DEF TypeOK, Steps, Values
<1>2. /\ Sealed' = Sealed
      /\ Sealed => ckpt'.seal = ckpt.seal
  BY NoneAssumption DEF Sealed, TypeOK
<1>3. Control'
  BY <1>2 DEF Control, PreSeal, PostSeal, PureNodes, EffectNodes, Stages
<1>4. Repairs'
  BY DEF Repairs
<1>5. Consent'
  BY <1>2 DEF Consent, PostSeal, EffectNodes
<1> QED
  BY <1>1, <1>3, <1>4, <1>5

-----------------------------------------------------------------------------
(***************************************************************************)
(* Each operation preserves the invariant.                                 *)
(***************************************************************************)
\* A run starts with an empty store and no process: the invariant holds.
LEMMA InitInv == Init => IndInv
<1> SUFFICES ASSUME Init PROVE IndInv
  OBVIOUS
<1>1. TypeOK
  BY BudgetAssumption DEF Init, TypeOK, Stages, Steps, Values
<1>2. ~Sealed
  BY DEF Init, Sealed
<1> QED
  BY <1>1, <1>2 DEF Init, IndInv, Control, Repairs, Consent, PreSeal, PostSeal, PureNodes,
     EffectNodes, Stages

\* A node driver at work: the process has a checkpoint and a payload.
LEMMA NodeFacts ==
    ASSUME IndInv, NEW n \in Nodes \cup Stages, pc = n
    PROVE  /\ ckpt # None /\ ckpt \in Ckpts /\ payload \in Payloads
           /\ ckpt.phase \in Phases /\ ckpt.state \in [Slots -> Values]
           /\ n \in EffectNodes \/ n \in PreSeal
           /\ n \in EffectNodes => Sealed /\ n \notin PreSeal
           /\ n \in PreSeal => ~Sealed
BY DEF IndInv, TypeOK, Control, Ckpts, Nodes, PureNodes, EffectNodes, Stages, PreSeal, PostSeal

\* Steps that write nothing durable: the process moves on within a node.
LEMMA QuietKeeps ==
    ASSUME IndInv, NEW n \in Nodes, pc = n, NEW s \in {"invoke", "output", "success", "failed"},
           Continue(s), val' \in Values,
           n = "prisma_repair" /\ s \in {"output", "success"} => val' \in Payloads,
           s = "failed" => val' \in Codes,
           UNCHANGED <<records, approvals, ckpt, result, asked, decided, budget, crashes>>,
           effects' \subseteq [key : Keys, answer : Answers], entered' \in Nat,
           \A e \in effects' : e \in effects \/ (e.key.node = n /\ n \in EffectNodes),
           \A e \in effects' : e \in effects \/ (n = "flow_dispatch" => e.key.in = payload)
    PROVE  IndInv'
<1> USE DEF IndInv, Continue, Goto
<1>0. pc' = n /\ step' = s /\ Sealed' = Sealed
  BY DEF Sealed
<1>1. TypeOK'
  BY DEF TypeOK, Steps
<1>2. Control'
  BY <1>0 DEF Control
<1>3. Repairs'
  BY <1>0 DEF Repairs
<1>4. Consent'
  BY <1>0, NodeFacts DEF Consent, PostSeal, Nodes, PureNodes, EffectNodes, Control
<1> QED
  BY <1>1, <1>2, <1>3, <1>4

\* Steps that append to the journal.
LEMMA AppendKeeps ==
    ASSUME IndInv, NEW n \in Nodes, pc = n, NEW s \in {"intent", "phase", "failphase"},
           NEW st \in {"started", "succeeded", "failed"}, NEW o \in Values,
           AppendRecord(n, st, o), Continue(s), UNCHANGED val,
           n = "prisma_repair" /\ st = "succeeded" => o \in Payloads,
           n = "prisma_repair" /\ s = "phase" => val \in Payloads,
           s = "failphase" => val \in Codes,
           UNCHANGED <<approvals, ckpt, result, world, crashes>>
    PROVE  IndInv'
<1> USE DEF IndInv, Continue, Goto, world
<1>0. pc' = n /\ step' = s /\ Sealed' = Sealed
  BY DEF Sealed
<1>1. TypeOK'
  BY AppendType DEF TypeOK, Steps
<1>2. Control'
  BY <1>0 DEF Control
<1>3. Repairs'
  <2> DEFINE r == [key |-> KeyOf(n), status |-> st, out |-> o, pred |-> ChainLength]
  <2>1. records \in Seq(Records) /\ records' = Append(records, r)
    BY DEF TypeOK, AppendRecord
  <2>2. r.key.node = n /\ r.status = st /\ r.out = o
    BY DEF KeyOf
  <2> HIDE DEF r
  <2>3. \A i \in DOMAIN records' :
           \/ i \in DOMAIN records /\ records'[i] = records[i]
           \/ records'[i] = r
    BY <2>1
  <2> QED
    BY <1>0, <2>2, <2>3 DEF Repairs
<1>4. Consent'
  BY <1>0 DEF Consent, Nodes, PureNodes, EffectNodes
<1> QED
  BY <1>1, <1>2, <1>3, <1>4

\* Steps that write the checkpoint and go on.
LEMMA WriteKeeps ==
    ASSUME IndInv, NEW n \in Nodes \cup Stages, pc = n,
           ckpt' \in Ckpts, ckpt'.seal = ckpt.seal, Sealed' = Sealed,
           UNCHANGED <<records, approvals, result, world, crashes, outcome>>,
           pc' \in Nodes \cup Stages \cup {"finalise"}, step' \in Steps,
           attempt' \in 0..MaxRepairs, payload' \in Payloads, val' \in Values,
           n \in EffectNodes => pc' \in PostSeal /\ payload' = payload,
           n \in PreSeal => pc' \in PreSeal,
           pc' = "prisma_repair" => attempt' \in 1..MaxRepairs,
           pc' = "prisma_repair" /\ step' \in {"output", "success", "phase"} => val' \in Payloads,
           step' \notin {"failed", "failphase"},
           pc' = "production" \/ (pc' = "simulation" /\ step' = "phase")
             => approvals # <<>> /\ approvals[1].proposal = payload'
    PROVE  IndInv'
<1> USE DEF IndInv, world
<1>0. /\ ckpt \in Ckpts /\ ckpt # None /\ ckpt' # None
      /\ n \in EffectNodes \/ n \in PreSeal
      /\ n \in EffectNodes => Sealed
      /\ n \in PreSeal => ~Sealed
      /\ n \in EffectNodes => n \notin PreSeal
      /\ \A m \in PreSeal : m \notin PostSeal /\ m # "idle"
      /\ "finalise" \notin PreSeal
  BY NodeFacts, NoneAssumption DEF PreSeal, PostSeal, PureNodes, EffectNodes, Stages
<1>1. TypeOK'
  BY DEF TypeOK
<1>2. Control'
  BY <1>0 DEF Control
<1>3. Repairs'
  BY DEF Repairs
<1>4. Consent'
  <2>1. pc' \in PostSeal => n \in EffectNodes /\ pc \in PostSeal
    BY <1>0 DEF PostSeal
  <2> QED
    BY <1>0, <2>1 DEF Consent
<1> QED
  BY <1>1, <1>2, <1>3, <1>4

\* A node that raises leads to a repair, or out of execute.
LEMMA RaiseKeeps ==
    ASSUME IndInv, NEW n \in Nodes, pc = n, NEW code \in Codes, RaiseFrom(n, code),
           ckpt' \in Ckpts, ckpt'.seal = ckpt.seal, ckpt'.phase = ckpt.phase,
           UNCHANGED <<records, approvals, result, world, crashes>>
    PROVE  IndInv'
<1> USE DEF IndInv
<1>0. ckpt # None /\ ckpt' # None /\ Sealed' = Sealed /\ payload \in Payloads
  BY NodeFacts, NoneAssumption DEF Sealed
<1>1. CASE n = "prisma_validate" /\ attempt + 1 <= MaxRepairs
  <2>1. /\ pc' = "prisma_repair" /\ step' = "enter" /\ attempt' = attempt + 1
        /\ val' = None /\ UNCHANGED <<payload, outcome>>
    BY <1>1 DEF RaiseFrom, Goto
  <2>2. attempt' \in 1..MaxRepairs
    BY <1>1, <2>1, BudgetAssumption DEF TypeOK
  <2>3. /\ pc' \in Nodes \cup Stages \cup {"finalise"} /\ step' \in Steps /\ val' \in Values
        /\ n \notin EffectNodes /\ pc' \in PreSeal
    BY <1>1, <2>1 DEF Nodes, Steps, Values, PreSeal, EffectNodes
  <2> QED
    BY <1>0, <2>1, <2>2, <2>3, WriteKeeps
<1>2. CASE ~(n = "prisma_validate" /\ attempt + 1 <= MaxRepairs)
  <2>1. Left
    BY <1>2, LeaveLeft DEF RaiseFrom, Outcomes, Codes
  <2> QED
    BY <1>0, <2>1, LeftKeeps DEF world, TypeOK
<1> QED
  BY <1>1, <1>2

\* _pure_node answering from a terminal record keeps the invariant.
LEMMA ReplayPureKeeps ==
    ASSUME IndInv, NEW n \in Nodes, ReplayPure(n)
    PROVE  IndInv'
<1> USE DEF IndInv
<1>0. /\ pc = n /\ n \in PureNodes /\ payload \in Payloads /\ ckpt # None /\ ckpt \in Ckpts
      /\ ~Sealed /\ PhaseOf[n] \in Phases /\ PhaseOf[n] < Sealing
      /\ UNCHANGED <<records, approvals, result, world, crashes>>
  BY NodeFacts DEF ReplayPure, PureNodes, PreSeal, PhaseOf, Phases, Sealing
<1>1. PICK o \in Compute(n) :
          LET r == Terminal(KeyOf(n)) IN
          CASE r.status = "succeeded" /\ o = payload /\ o = r.out ->
                 EnsurePhase(PhaseOf[n], Proceed(n, o))
            [] o # payload /\ (r.status = "failed" => o = r.out) ->
                 UNCHANGED ckpt /\ RaiseFrom(n, o)
            [] OTHER -> UNCHANGED ckpt /\ Leave("RESULT_CORRUPTION")
  BY DEF ReplayPure
<1>2. o # payload => o \in Codes
  BY <1>0, <1>1 DEF Compute, Refusal, Codes, PureNodes
<1>3. \/ EnsurePhase(PhaseOf[n], Proceed(n, o))
      \/ UNCHANGED ckpt /\ o \in Codes /\ RaiseFrom(n, o)
      \/ UNCHANGED ckpt /\ Leave("RESULT_CORRUPTION")
  BY <1>1, <1>2
<1>4. CASE EnsurePhase(PhaseOf[n], Proceed(n, o))
  <2>1. /\ ckpt' \in Ckpts /\ ckpt'.seal = ckpt.seal
        /\ \/ Proceed(n, o) /\ ckpt'.phase \in {ckpt.phase, PhaseOf[n]}
           \/ Left /\ ckpt' = ckpt
    BY <1>0, <1>4, EnsureType
  <2>2. CASE Left /\ ckpt' = ckpt
    BY <1>0, <2>2, LeftKeeps DEF world, TypeOK
  <2>3. CASE Proceed(n, o) /\ ckpt'.phase \in {ckpt.phase, PhaseOf[n]}
    <3>1. Sealed' = Sealed
      BY <1>0, <2>1, <2>3, NoneAssumption DEF Sealed, Ckpts, Phases, Sealing, PhaseOf, PureNodes
    <3>2. /\ pc' \in {"deterministic_policy", "vale_verify", "simulation"} /\ step' = "enter"
          /\ payload' = payload /\ val' = None /\ UNCHANGED <<attempt, outcome>>
      BY <1>0, <2>3 DEF Proceed, Goto, NextOf, PureNodes
    <3>3. /\ pc' \in PreSeal /\ pc' \in Nodes \cup Stages \cup {"finalise"}
          /\ step' \in Steps /\ val' \in Values /\ n \notin EffectNodes
          /\ attempt' \in 0..MaxRepairs
      BY <1>0, <3>2 DEF PreSeal, PureNodes, EffectNodes, Stages, Nodes, Steps, Values, TypeOK
    <3> QED
      BY <1>0, <2>1, <3>1, <3>2, <3>3, WriteKeeps
  <2> QED
    BY <2>1, <2>2, <2>3
<1>5. CASE UNCHANGED ckpt /\ o \in Codes /\ RaiseFrom(n, o)
  BY <1>0, <1>5, RaiseKeeps
<1>6. CASE UNCHANGED ckpt /\ Leave("RESULT_CORRUPTION")
  <2>1. Left
    BY <1>6, LeaveLeft DEF Outcomes
  <2> QED
    BY <1>0, <1>6, <2>1, LeftKeeps DEF world, TypeOK
<1> QED
  BY <1>3, <1>4, <1>5, <1>6

\* _effect_node answering from a terminal record keeps the invariant.
LEMMA ReplayEffectKeeps ==
    ASSUME IndInv, NEW n \in Nodes, ReplayEffect(n)
    PROVE  IndInv'
<1> USE DEF IndInv
<1> DEFINE r      == Terminal(KeyOf(n))
           stored == ckpt.state[SlotOf(n)]
           phase  == IF n = "prisma_repair" THEN ckpt.phase ELSE PhaseOf[n]
<1>0. /\ pc = n /\ payload \in Payloads /\ ckpt # None /\ ckpt \in Ckpts
      /\ ckpt.phase \in Phases
      /\ (n = "prisma_repair" /\ ~Sealed) \/ (n \in EffectNodes /\ Sealed)
      /\ UNCHANGED <<records, approvals, result, world, crashes>>
  BY NodeFacts DEF ReplayEffect, Nodes, PreSeal
<1>1. phase \in Phases
  BY <1>0 DEF PhaseOf, Phases, EffectNodes
<1>2. \/ r.status = "succeeded" /\ stored = r.out /\ EnsurePhase(phase, Proceed(n, stored))
      \/ /\ UNCHANGED ckpt
         /\ \E c \in {"NODE_FAILED", "STATE_CORRUPTION", "RESULT_CORRUPTION"} : Leave(c)
  BY DEF ReplayEffect
<1>3. CASE /\ UNCHANGED ckpt
           /\ \E c \in {"NODE_FAILED", "STATE_CORRUPTION", "RESULT_CORRUPTION"} : Leave(c)
  <2>1. Left
    BY <1>3, LeaveLeft DEF Outcomes
  <2> QED
    BY <1>0, <1>3, <2>1, LeftKeeps DEF world, TypeOK
<1>4. CASE r.status = "succeeded" /\ stored = r.out /\ EnsurePhase(phase, Proceed(n, stored))
  <2>1. /\ ckpt' \in Ckpts /\ ckpt'.seal = ckpt.seal /\ ckpt'.phase >= ckpt.phase
        /\ \/ Proceed(n, stored) /\ ckpt'.phase \in {ckpt.phase, phase}
           \/ Left /\ ckpt' = ckpt
    BY <1>0, <1>1, <1>4, EnsureType
  <2>2. CASE Left /\ ckpt' = ckpt
    BY <1>0, <2>2, LeftKeeps DEF world, TypeOK
  <2>3. CASE Proceed(n, stored) /\ ckpt'.phase \in {ckpt.phase, phase}
    <3>1. Sealed' = Sealed
      BY <1>0, <2>1, <2>3, NoneAssumption DEF Sealed, Ckpts, Phases, Sealing, PhaseOf, EffectNodes
    <3>2. CASE n = "prisma_repair"
      <4>1. stored \in Payloads
        <5>1. Terminals(KeyOf(n)) # {} /\ Terminals(KeyOf(n)) \subseteq Nat
          BY <1>0 DEF ReplayEffect, Terminals, TypeOK
        <5>2. First(Terminals(KeyOf(n))) \in Terminals(KeyOf(n))
          BY <5>1, FirstIsLeast, Zenon
        <5>3. /\ First(Terminals(KeyOf(n))) \in DOMAIN records
              /\ r.key = KeyOf(n)
          BY <5>2 DEF Terminals, Terminal
        <5>4. r.key.node = "prisma_repair"
          BY <3>2, <5>3 DEF KeyOf
        <5> QED
          BY <1>4, <5>3, <5>4 DEF Repairs, Terminal
      <4>2. /\ pc' = "prisma_validate" /\ step' = "enter"
            /\ payload' = stored /\ val' = None /\ UNCHANGED <<attempt, outcome>>
        BY <2>3, <3>2 DEF Proceed, Goto, NextOf
      <4>3. /\ pc' \in PreSeal /\ pc' \in Nodes \cup Stages \cup {"finalise"}
            /\ step' \in Steps /\ val' \in Values /\ n \notin EffectNodes
            /\ attempt' \in 0..MaxRepairs
        BY <3>2, <4>2 DEF PreSeal, PureNodes, EffectNodes, Stages, Nodes, Steps, Values, TypeOK
      <4> QED
        BY <1>0, <2>1, <3>1, <4>1, <4>2, <4>3, WriteKeeps
    <3>3. CASE n \in EffectNodes
      <4>1. /\ pc' \in {"ledger_reconcile", "forge_certify", "finalise"} /\ step' = "enter"
            /\ payload' = payload /\ val' = None /\ UNCHANGED <<attempt, outcome>>
        BY <2>3, <3>3 DEF Proceed, Goto, NextOf, EffectNodes
      <4>2. /\ pc' \in PostSeal /\ pc' \in Nodes \cup Stages \cup {"finalise"}
            /\ step' \in Steps /\ val' \in Values /\ n \notin PreSeal
            /\ attempt' \in 0..MaxRepairs
        BY <3>3, <4>1 DEF PreSeal, PostSeal, PureNodes, EffectNodes, Stages, Nodes, Steps,
                          Values, TypeOK
      <4> QED
        BY <1>0, <2>1, <3>1, <4>1, <4>2, WriteKeeps
    <3> QED
      BY <1>0, <3>2, <3>3
  <2> QED
    BY <2>1, <2>2, <2>3
<1> QED
  BY <1>2, <1>3, <1>4

\* Journal.begin, the invocation of a node, and its terminal record.
LEMMA DriveKeeps ==
    ASSUME IndInv, NEW n \in Nodes,
           \/ ReuseIntent(n) \/ Begin(n) \/ BeginCheckpoint(n)
           \/ InvokePure(n) \/ InvokePort(n) \/ Succeed(n) \/ Fail(n)
    PROVE  IndInv'
<1> USE DEF IndInv
<1>0. pc = n
  BY DEF ReuseIntent, Begin, BeginCheckpoint, InvokePure, InvokePort, Succeed, Fail
<1>a. /\ payload \in Payloads /\ payload \in Values /\ ckpt # None /\ ckpt \in Ckpts
      /\ val \in Values /\ ckpt.phase \in Phases /\ ckpt.state \in [Slots -> Values]
  BY <1>0, NodeFacts DEF Values, TypeOK
<1>1. CASE ReuseIntent(n)
  BY <1>0, <1>a, <1>1, QuietKeeps DEF ReuseIntent, store, world, TypeOK
<1>2. CASE Begin(n)
  <2>1. None \in Values
    BY DEF Values
  <2> QED
    BY <1>0, <1>2, <2>1, AppendKeeps DEF Begin
<1>3. CASE BeginCheckpoint(n)
  <2>1. /\ ckpt' \in Ckpts /\ ckpt'.seal = ckpt.seal
        /\ ckpt'.phase = ckpt.phase
        /\ \/ Continue("invoke") /\ UNCHANGED val
           \/ Left /\ ckpt' = ckpt
    <3>1. Advance(ckpt.phase, ckpt.state, Continue("invoke") /\ UNCHANGED val)
      BY <1>3 DEF BeginCheckpoint
    <3> QED
      BY <1>a, <3>1, AdvanceType
  <2>2. UNCHANGED <<records, approvals, result, world, crashes>>
    BY <1>3 DEF BeginCheckpoint
  <2>3. CASE Left /\ ckpt' = ckpt
    BY <2>2, <2>3, LeftKeeps DEF world, TypeOK
  <2>4. CASE Continue("invoke") /\ UNCHANGED val
    <3>1. Sealed' = Sealed
      BY <1>a, <2>1, NoneAssumption DEF Sealed
    <3>2. pc' = n /\ step' = "invoke" /\ UNCHANGED <<attempt, payload, outcome, val>>
      BY <1>0, <2>4 DEF Continue, Goto
    <3>3. /\ n \in EffectNodes => n \in PostSeal
          /\ step' \in Steps /\ n \in Nodes \cup Stages /\ attempt \in 0..MaxRepairs
          /\ n \notin Stages
      BY <3>2 DEF PostSeal, Steps, TypeOK, Nodes, Stages, PureNodes, EffectNodes
    <3>4. pc = "prisma_repair" => attempt \in 1..MaxRepairs
      BY DEF Repairs
    <3> QED
      BY <1>0, <1>a, <2>1, <2>2, <3>1, <3>2, <3>3, <3>4, WriteKeeps DEF Stages
  <2> QED
    BY <2>1, <2>3, <2>4
<1>4. CASE InvokePure(n)
  <2>1. PICK o \in Compute(n) : /\ val' = o
                                /\ Continue(IF o = payload THEN AfterInvoke(n) ELSE "failed")
    BY <1>4 DEF InvokePure
  <2>2. n \in PureNodes /\ n # "prisma_repair" /\ n \notin EffectNodes
    BY <1>4 DEF InvokePure, PureNodes, EffectNodes
  <2>3. o # payload => o \in Codes
    BY <2>1, <2>2 DEF Compute, Refusal, Codes, PureNodes
  <2>4. val' \in Values
    BY <1>a, <2>1, <2>3 DEF Values
  <2>5. UNCHANGED <<records, approvals, ckpt, result, asked, decided, budget, crashes, effects, entered>>
    BY <1>4 DEF InvokePure, store, world
  <2> QED
    BY <1>0, <2>1, <2>2, <2>3, <2>4, <2>5, QuietKeeps DEF AfterInvoke, TypeOK
<1>5. CASE InvokePort(n)
  <2>1. n \in EffectNodes /\ n # "prisma_repair"
    BY <1>5 DEF InvokePort, EffectNodes
  <2>2. PortAnswers(n) \subseteq Answers
    BY DEF PortAnswers, TypeOK
  <2>3. UNCHANGED <<records, approvals, ckpt, result, asked, decided, budget, crashes, entered>>
    BY <1>5 DEF InvokePort, store
  <2>4. "ADAPTER_FAILURE" \in Codes /\ Codes \subseteq Values /\ Answers \subseteq Values
    BY DEF Codes, Values
  <2>5. /\ val' \in Values
        /\ \/ Continue("output")
           \/ Continue("failed") /\ val' \in Codes
    BY <1>5, <2>2, <2>4 DEF InvokePort
  <2>6. \/ effects' = effects
        \/ \E a \in Answers : effects' = effects \cup {[key |-> KeyOf(n), answer |-> a]}
    BY <1>5, <2>2 DEF InvokePort
  <2>7. KeyOf(n) \in Keys /\ KeyOf(n).node = n /\ (n = "flow_dispatch" => KeyOf(n).in = payload)
    BY <1>0, KeyType DEF KeyOf
  <2>8. /\ effects' \subseteq [key : Keys, answer : Answers]
        /\ \A e \in effects' : e \in effects \/ e.key = KeyOf(n)
    BY <2>6, <2>7 DEF TypeOK
  <2> QED
    BY <1>0, <2>1, <2>3, <2>5, <2>7, <2>8, QuietKeeps DEF TypeOK
<1>6. CASE Succeed(n)
  BY <1>0, <1>a, <1>6, AppendKeeps DEF Succeed, Repairs
<1>7. CASE Fail(n)
  BY <1>0, <1>a, <1>7, AppendKeeps DEF Fail, Repairs
<1> QED
  BY <1>1, <1>2, <1>3, <1>4, <1>5, <1>6, <1>7

\* The durable output and the checkpoint writes after a terminal record.
LEMMA RecordKeeps ==
    ASSUME IndInv, NEW n \in Nodes, Output(n) \/ SucceedCheckpoint(n) \/ FailCheckpoint(n)
    PROVE  IndInv'
<1> USE DEF IndInv
<1>0. pc = n /\ UNCHANGED <<records, approvals, result, world, crashes>>
  BY DEF Output, SucceedCheckpoint, FailCheckpoint
<1>a. /\ payload \in Payloads /\ ckpt # None /\ ckpt \in Ckpts
      /\ val \in Values /\ ckpt.phase \in Phases /\ ckpt.state \in [Slots -> Values]
      /\ n \in EffectNodes \/ n \in PreSeal
      /\ n \in EffectNodes => Sealed /\ n \notin PreSeal
      /\ n \in PreSeal => ~Sealed
      /\ attempt \in 0..MaxRepairs /\ n \notin Stages /\ n \in Nodes \cup Stages
      /\ n \in EffectNodes => n \in PostSeal
  BY <1>0, NodeFacts DEF TypeOK, Nodes, Stages, PureNodes, EffectNodes, PostSeal
<1>1. CASE Output(n)
  <2> DEFINE st == [ckpt.state EXCEPT ![SlotOf(n)] = val]
  <2>1. \/ UNCHANGED ckpt /\ Leave("IDEMPOTENCY_CONFLICT")
        \/ Advance(ckpt.phase, st, Continue("success") /\ UNCHANGED val)
    BY <1>1 DEF Output
  <2>2. st \in [Slots -> Values]
    BY <1>a
  <2>3. CASE UNCHANGED ckpt /\ Leave("IDEMPOTENCY_CONFLICT")
    <3>1. Left
      BY <2>3, LeaveLeft DEF Outcomes
    <3> QED
      BY <1>0, <2>3, <3>1, LeftKeeps DEF world, TypeOK
  <2>4. CASE Advance(ckpt.phase, st, Continue("success") /\ UNCHANGED val)
    <3> HIDE DEF st
    <3>1. /\ ckpt' \in Ckpts /\ ckpt'.seal = ckpt.seal
          /\ ckpt'.phase = ckpt.phase
          /\ \/ Continue("success") /\ UNCHANGED val
             \/ Left /\ ckpt' = ckpt
      BY <1>a, <2>2, <2>4, AdvanceType
    <3>2. CASE Left /\ ckpt' = ckpt
      BY <1>0, <3>2, LeftKeeps DEF world, TypeOK
    <3>3. CASE Continue("success") /\ UNCHANGED val
      <4>1. Sealed' = Sealed
        BY <1>a, <3>1, NoneAssumption DEF Sealed
      <4>2. /\ pc' = n /\ step' = "success" /\ UNCHANGED <<attempt, payload, outcome, val>>
            /\ step' \in Steps
        BY <1>0, <3>3 DEF Continue, Goto, Steps
      <4>3. pc = "prisma_repair" => attempt \in 1..MaxRepairs /\ val \in Payloads
        BY <1>1 DEF Repairs, Output
      <4> QED
        BY <1>0, <1>a, <3>1, <4>1, <4>2, <4>3, WriteKeeps DEF Stages
    <3> QED
      BY <3>1, <3>2, <3>3
  <2> QED
    BY <2>1, <2>3, <2>4
<1>2. CASE SucceedCheckpoint(n)
  <2> DEFINE phase == IF n = "prisma_repair" THEN ckpt.phase ELSE PhaseOf[n]
  <2>1. /\ phase \in Phases
        /\ n \in EffectNodes => phase >= Sealing
        /\ n \in PureNodes => phase < Sealing
    BY <1>a DEF PhaseOf, Phases, Nodes, PureNodes, EffectNodes, Sealing
  <2>2. Advance(phase, ckpt.state, Proceed(n, val))
    BY <1>2 DEF SucceedCheckpoint
  <2> HIDE DEF phase
  <2>3. /\ ckpt' \in Ckpts /\ ckpt'.seal = ckpt.seal
        /\ \/ Proceed(n, val) /\ ckpt'.phase = phase
           \/ Left /\ ckpt' = ckpt
    BY <1>a, <2>1, <2>2, AdvanceType
  <2>4. CASE Left /\ ckpt' = ckpt
    BY <1>0, <2>4, LeftKeeps DEF world, TypeOK
  <2>5. CASE Proceed(n, val) /\ ckpt'.phase = phase
    <3>1. Sealed' = Sealed
      BY <1>a, <2>1, <2>3, <2>5, NoneAssumption
         DEF phase, Sealed, Sealing, PhaseOf, Phases, Ckpts, Nodes, PreSeal
    <3>2. /\ pc' = NextOf[n] /\ step' = "enter"
          /\ payload' = IF n = "prisma_repair" THEN val ELSE payload
          /\ val' = None /\ UNCHANGED <<attempt, outcome>>
          /\ step' \in Steps /\ val' \in Values
      BY <2>5 DEF Proceed, Goto, Steps, Values
    <3>3. /\ n \in EffectNodes => pc' \in PostSeal
          /\ n \in PreSeal => pc' \in PreSeal
          /\ pc' \in Nodes \cup Stages \cup {"finalise"}
          /\ pc' \notin {"prisma_repair", "production"}
      BY <1>a, <3>2 DEF NextOf, PreSeal, PostSeal, EffectNodes, PureNodes, Nodes, Stages
    <3>4. n = "prisma_repair" => val \in Payloads
      BY <1>0, <1>2 DEF Repairs, SucceedCheckpoint
    <3>5. payload' \in Payloads /\ (n \in EffectNodes => payload' = payload)
      BY <1>a, <3>2, <3>4 DEF EffectNodes
    <3> QED
      BY <1>0, <1>a, <2>3, <3>1, <3>2, <3>3, <3>5, WriteKeeps
  <2> QED
    BY <2>3, <2>4, <2>5
<1>3. CASE FailCheckpoint(n)
  <2>1. Advance(ckpt.phase, ckpt.state, RaiseFrom(n, val)) /\ val \in Codes
    BY <1>3 DEF FailCheckpoint, Repairs
  <2>2. /\ ckpt' \in Ckpts /\ ckpt'.seal = ckpt.seal /\ ckpt'.phase = ckpt.phase
        /\ RaiseFrom(n, val) \/ (Left /\ ckpt' = ckpt)
    BY <1>a, <2>1, AdvanceType
  <2>3. CASE Left /\ ckpt' = ckpt
    BY <1>0, <2>3, LeftKeeps DEF world, TypeOK
  <2>4. CASE RaiseFrom(n, val)
    BY <1>0, <2>1, <2>2, <2>4, RaiseKeeps
  <2> QED
    BY <2>2, <2>3, <2>4
<1> QED
  BY <1>1, <1>2, <1>3

\* The refusals of prisma_repair and the call of the model adapter.
LEMMA RepairKeeps ==
    ASSUME IndInv, RepairRefused \/ ModelBudgetRefused \/ InvokeRepair
    PROVE  IndInv'
<1> USE DEF IndInv
<1>1. CASE RepairRefused \/ ModelBudgetRefused
  <2>1. Left
    BY <1>1, LeaveLeft DEF RepairRefused, ModelBudgetRefused, Outcomes
  <2> QED
    BY <1>1, <2>1, LeftKeeps DEF RepairRefused, ModelBudgetRefused, store, world, TypeOK
<1>2. CASE InvokeRepair
  <2>1. "prisma_repair" \in Nodes /\ "prisma_repair" = pc
    BY <1>2 DEF Nodes, InvokeRepair
  <2>2. UNCHANGED <<records, approvals, ckpt, result, asked, decided, budget, crashes, effects>>
    BY <1>2 DEF InvokeRepair, store
  <2>3. PICK o \in Payloads \cup {"ADAPTER_FAILURE"} :
          /\ val' = o
          /\ Continue(IF o \in Payloads THEN "output" ELSE "failed")
    BY <1>2 DEF InvokeRepair
  <2>4. entered' \in Nat
    BY <1>2 DEF InvokeRepair, TypeOK
  <2>5. val' \in Values /\ (o \notin Payloads => o \in Codes)
    BY <2>3 DEF Values, Codes
  <2> QED
    BY <2>1, <2>2, <2>3, <2>4, <2>5, QuietKeeps DEF TypeOK
<1> QED
  BY <1>1, <1>2

\* The approval boundaries.
LEMMA BoundaryKeeps ==
    ASSUME IndInv, Boundary
    PROVE  IndInv'
<1> USE DEF IndInv
<1>1. ASSUME NEW s \in Stages, ApprovalMissing(s)
      PROVE  IndInv'
  <2>1. Left /\ UNCHANGED <<records, approvals, ckpt, result, effects, entered, decided, budget, crashes>>
    BY <1>1, LeaveLeft DEF ApprovalMissing, Outcomes, store
  <2>2. Question \in Questions
    BY <1>1, NodeFacts, CountTypes DEF ApprovalMissing, Question, Questions
  <2>3. asked' \in [Stages -> Questions \cup {None}]
    BY <1>1, <2>2 DEF ApprovalMissing, TypeOK
  <2> QED
    BY <2>1, <2>3, LeftKeeps DEF TypeOK
<1>2. ASSUME NEW s \in Stages, ApprovalRefused(s)
      PROVE  IndInv'
  <2>1. VerifyApproval(s) \in Outcomes
    BY <1>2 DEF ApprovalRefused, VerifyApproval, Outcomes
  <2>2. Left /\ UNCHANGED <<store, world, crashes>>
    BY <1>2, <2>1, LeaveLeft DEF ApprovalRefused
  <2> QED
    BY <2>2, LeftKeeps DEF store, world, TypeOK
<1>3. CASE ApproveSimulation
  <2>1. /\ pc = "simulation" /\ approvals = <<>> /\ payload \in Payloads /\ ~Sealed
        /\ ChainLength \in Nat
    BY <1>3, NodeFacts, CountTypes DEF ApproveSimulation, Stages, PreSeal
  <2>2. /\ pc' = pc /\ step' = "phase"
        /\ UNCHANGED <<attempt, payload, outcome, val, records, ckpt, result, world, crashes>>
    BY <1>3 DEF ApproveSimulation, Continue, Goto
  <2>3. ApprovalRecord(pc) \in Approvals /\ ApprovalRecord(pc).proposal = payload
    BY <2>1 DEF ApprovalRecord, Approvals, Stages
  <2>4. approvals' \in Seq(Approvals) /\ approvals' # <<>> /\ approvals'[1].proposal = payload
    BY <1>3, <2>1, <2>3 DEF ApproveSimulation
  <2>5. TypeOK'
    BY <2>2, <2>4 DEF TypeOK, world, Steps
  <2>6. ~Sealed' /\ Control'
    BY <2>1, <2>2 DEF Sealed, Control
  <2>7. Repairs'
    BY <2>1, <2>2 DEF Repairs
  <2>8. Consent'
    BY <2>1, <2>2, <2>4, <2>6 DEF Consent, world, PostSeal, EffectNodes
  <2> QED
    BY <2>5, <2>6, <2>7, <2>8
<1>4. CASE SimulationCheckpoint \/ ReplaySimulation
  <2>1. /\ pc = "simulation" /\ ckpt # None /\ ckpt \in Ckpts /\ payload \in Payloads
        /\ ~Sealed /\ PhaseOf[pc] = 4 /\ 4 \in Phases /\ ckpt.state \in [Slots -> Values]
        /\ UNCHANGED <<records, approvals, result, world, crashes>>
    BY <1>4, NodeFacts DEF SimulationCheckpoint, ReplaySimulation, Stages, PreSeal, PhaseOf, Phases
  <2>2. \/ UNCHANGED ckpt /\ Leave("APPROVAL_MISMATCH")
        \/ /\ Advance(PhaseOf[pc], ckpt.state, Proceed(pc, None))
           /\ approvals # <<>> /\ approvals[1].proposal = payload
        \/ /\ EnsurePhase(PhaseOf[pc], Proceed(pc, None))
           /\ approvals # <<>> /\ approvals[1].proposal = payload
    BY <1>4 DEF SimulationCheckpoint, ReplaySimulation, Consent
  <2>3. CASE UNCHANGED ckpt /\ Leave("APPROVAL_MISMATCH")
    <3>1. Left
      BY <2>3, LeaveLeft DEF Outcomes
    <3> QED
      BY <2>1, <2>3, <3>1, LeftKeeps DEF world, TypeOK
  <2>4. CASE ~(UNCHANGED ckpt /\ Leave("APPROVAL_MISMATCH"))
    <3>1. /\ ckpt' \in Ckpts /\ ckpt'.seal = ckpt.seal
          /\ approvals # <<>> /\ approvals[1].proposal = payload
          /\ \/ Proceed(pc, None) /\ ckpt'.phase \in {ckpt.phase, 4}
             \/ Left /\ ckpt' = ckpt
      BY <2>1, <2>2, <2>4, AdvanceType, EnsureType
    <3>2. CASE Left /\ ckpt' = ckpt
      BY <2>1, <3>2, LeftKeeps DEF world, TypeOK
    <3>3. CASE Proceed(pc, None) /\ ckpt'.phase \in {ckpt.phase, 4}
      <4>1. Sealed' = Sealed
        BY <2>1, <3>1, <3>3, NoneAssumption DEF Sealed, Sealing, PhaseOf, Ckpts, Phases
      <4>2. /\ pc' = "production" /\ step' = "enter" /\ payload' = payload /\ val' = None
            /\ UNCHANGED <<attempt, outcome>> /\ attempt \in 0..MaxRepairs
        BY <2>1, <3>3 DEF Proceed, Goto, NextOf, TypeOK
      <4>3. /\ pc \in Nodes \cup Stages /\ pc \notin EffectNodes
            /\ pc' \in Nodes \cup Stages \cup {"finalise"} /\ pc' \in PreSeal
            /\ step' \in Steps /\ val' \in Values
        BY <2>1, <4>2 DEF Stages, EffectNodes, PreSeal, Steps, Values
      <4> QED
        BY <2>1, <3>1, <4>1, <4>2, <4>3, WriteKeeps
    <3> QED
      BY <3>1, <3>2, <3>3
  <2> QED
    BY <2>3, <2>4
<1>5. CASE Seal
  <2>1. /\ pc = "production" /\ ckpt # None /\ ckpt \in Ckpts /\ payload \in Payloads
        /\ ~Sealed /\ ChainLength \in Nat /\ ModelCalls \in Nat /\ Len(records) \in Nat
        /\ approvals # <<>> /\ approvals[1].proposal = payload /\ approvals \in Seq(Approvals)
        /\ UNCHANGED <<records, result, world, crashes>>
    BY <1>5, NodeFacts, CountTypes DEF Seal, Stages, PreSeal, Consent, TypeOK
  <2>2. CASE Len(approvals) # 1
    <3>1. UNCHANGED <<approvals, ckpt>> /\ Left
      BY <1>5, <2>2, LeaveLeft DEF Seal, Outcomes
    <3> QED
      BY <2>1, <3>1, LeftKeeps DEF world, TypeOK
  <2>3. CASE Len(approvals) = 1
    <3> DEFINE rec == ApprovalRecord(pc)
    <3>1. rec \in Approvals /\ rec.proposal = payload /\ approvals[1] \in Approvals
      <4>1. rec \in Approvals /\ rec.proposal = payload
        BY <2>1 DEF ApprovalRecord, Approvals, Stages
      <4>2. 1 \in 1..Len(approvals)
        BY <2>3
      <4> QED
        BY <2>1, <4>1, <4>2
    <3>2. /\ approvals' = Append(approvals, rec)
          /\ ckpt' = [phase |-> Sealing, chain |-> ChainLength + 1,
                      sequence |-> Len(records), model_calls |-> ModelCalls,
                      model_calls_at_seal |-> ModelCalls,
                      seal |-> [proposal   |-> payload,
                                simulation |-> approvals[1],
                                production |-> rec],
                      state |-> ckpt.state]
          /\ pc' = "flow_dispatch" /\ step' = "enter"
          /\ UNCHANGED <<attempt, payload, val, outcome>>
      BY <1>5, <2>3 DEF Seal, Goto
    <3> HIDE DEF rec
    <3>3. /\ approvals' \in Seq(Approvals) /\ Len(approvals') = 2
          /\ approvals'[1] = approvals[1] /\ approvals'[2] = rec
      <4>1. /\ Append(approvals, rec) \in Seq(Approvals)
            /\ Len(Append(approvals, rec)) = 2
            /\ Append(approvals, rec)[1] = approvals[1]
            /\ Append(approvals, rec)[2] = rec
        BY <2>1, <2>3, <3>1, SecondAppended
      <4> QED
        BY <3>2, <4>1
    <3>4. ckpt' \in Ckpts
      BY <2>1, <3>1, <3>2 DEF Ckpts, Seals, Sealing, Phases, PhaseOf
    <3>5. ckpt' # None /\ Sealed' /\ ckpt'.seal \in Seals /\ ckpt'.seal.proposal = payload
          /\ ckpt'.seal.simulation = approvals[1] /\ ckpt'.seal.production = rec
      BY <2>1, <3>1, <3>2, <3>4, NoneAssumption DEF Sealed, Sealing, PhaseOf, Seals
    <3>6. TypeOK'
      BY <2>1, <3>2, <3>3, <3>4 DEF TypeOK, world, Steps, Nodes, EffectNodes
    <3>7. Control'
      BY <2>1, <3>2, <3>5 DEF Control, PreSeal, PureNodes, Stages
    <3>8. Repairs'
      BY <2>1, <3>2 DEF Repairs
    <3>9. Consent'
      <4>1. effects' = {}
        BY <2>1 DEF Consent, world
      <4> QED
        BY <2>1, <3>1, <3>2, <3>3, <3>5, <4>1 DEF Consent
    <3> QED
      BY <3>6, <3>7, <3>8, <3>9
  <2> QED
    BY <2>2, <2>3
<1> QED
  BY <1>1, <1>2, <1>3, <1>4, <1>5 DEF Boundary

\* execute from its start to the journal's first node, and its end.
LEMMA ExecuteKeeps ==
    ASSUME IndInv, ReturnFinished \/ Execute \/ Finalise \/ Return
    PROVE  IndInv'
<1> USE DEF IndInv
<1>1. CASE ReturnFinished \/ Return
  <2>1. Left /\ UNCHANGED <<store, world, crashes>>
    BY <1>1, LeaveLeft DEF ReturnFinished, Return, Outcomes
  <2> QED
    BY <2>1, LeftKeeps DEF store, world, TypeOK
<1>2. CASE Execute
  <2>0. UNCHANGED <<records, approvals, result, world, crashes>>
    BY <1>2 DEF Execute
  <2>1. \/ UNCHANGED ckpt /\ Leave("CHAIN_CORRUPTION")
        \/ UNCHANGED ckpt /\ Leave("STATE_CORRUPTION")
        \/ ckpt = None /\ ckpt' = FreshCheckpoint /\ Enter
        \/ /\ ckpt # None
           /\ Advance(ckpt.phase, ckpt.state,
                      IF Sealed /\ ~RevalidateSealed THEN Leave("STATE_CORRUPTION")
                                                     ELSE Enter)
    BY <1>2 DEF Execute
  <2>2. CASE \/ UNCHANGED ckpt /\ Leave("CHAIN_CORRUPTION")
             \/ UNCHANGED ckpt /\ Leave("STATE_CORRUPTION")
    <3>1. Left
      BY <2>2, LeaveLeft DEF Outcomes
    <3> QED
      BY <2>0, <2>2, <3>1, LeftKeeps DEF world, TypeOK
  <2>3. ASSUME Enter, ckpt' \in Ckpts,
               \/ ckpt # None /\ ckpt'.seal = ckpt.seal /\ ckpt'.phase = ckpt.phase
               \/ ckpt = None /\ ckpt'.phase = 0
        PROVE  IndInv'
    <3>1. ckpt' # None /\ Sealed' = Sealed /\ (Sealed => ckpt'.seal = ckpt.seal)
      BY <2>3, NoneAssumption DEF Sealed, Sealing, PhaseOf
    <3>2. /\ step' = "enter" /\ attempt' = 0 /\ val' = None /\ outcome' = None
          /\ \/ Sealed /\ pc' = "flow_dispatch" /\ payload' = ckpt.seal.proposal
             \/ ~Sealed /\ pc' = "prisma_validate" /\ payload' = PlanPayload
      BY <2>3 DEF Enter, Goto
    <3>3. Sealed => ckpt.seal \in Seals /\ ckpt.seal.proposal \in Payloads
      BY DEF Control, Seals
    <3>4. payload' \in Payloads
      BY <3>2, <3>3, PayloadAssumption
    <3>5. TypeOK'
      BY <2>0, <2>3, <3>2, <3>4, BudgetAssumption
         DEF TypeOK, world, Steps, Values, Nodes, PureNodes, EffectNodes
    <3>6. Control'
      BY <3>1, <3>2, <3>3, <3>4 DEF Control, PreSeal, PostSeal, PureNodes, EffectNodes, Stages
    <3>7. Repairs'
      BY <2>0, <3>2 DEF Repairs
    <3>8. Consent'
      BY <2>0, <3>1, <3>2 DEF Consent, world, PostSeal, EffectNodes
    <3> QED
      BY <3>5, <3>6, <3>7, <3>8
  <2>4. CASE ckpt = None /\ ckpt' = FreshCheckpoint /\ Enter
    <3>1. ckpt' \in Ckpts /\ ckpt'.phase = 0
      BY <2>4 DEF FreshCheckpoint, Ckpts, Phases, Values
    <3> QED
      BY <2>3, <2>4, <3>1
  <2>5. CASE /\ ckpt # None
             /\ Advance(ckpt.phase, ckpt.state,
                        IF Sealed /\ ~RevalidateSealed THEN Leave("STATE_CORRUPTION")
                                                       ELSE Enter)
    <3>1. ckpt.phase \in Phases /\ ckpt.state \in [Slots -> Values]
      BY <2>5 DEF TypeOK, Ckpts
    <3>2. /\ ckpt' \in Ckpts /\ ckpt'.seal = ckpt.seal /\ ckpt'.phase = ckpt.phase
          /\ \/ IF Sealed /\ ~RevalidateSealed THEN Leave("STATE_CORRUPTION") ELSE Enter
             \/ Left
      BY <2>5, <3>1, AdvanceType
    <3>3. Left \/ Enter
      BY <3>2, LeaveLeft DEF Outcomes
    <3>4. CASE Left
      BY <2>0, <2>5, <3>2, <3>4, LeftKeeps DEF world, TypeOK
    <3>5. CASE Enter
      BY <2>3, <2>5, <3>2, <3>5
    <3> QED
      BY <3>3, <3>4, <3>5
  <2> QED
    BY <2>1, <2>2, <2>4, <2>5
<1>3. CASE Finalise
  <2>0. /\ pc = "finalise" /\ step = "enter" /\ ckpt # None /\ ckpt \in Ckpts
        /\ Sealed /\ ckpt.seal \in Seals
        /\ UNCHANGED <<records, approvals, ckpt, world, crashes>>
    BY <1>3 DEF Finalise, Control, PostSeal, TypeOK
  <2>1. \/ UNCHANGED result /\ Leave("POST_APPROVAL_MODEL_CALL")
        \/ UNCHANGED result /\ Leave("CHAIN_CORRUPTION")
        \/ /\ result' = [proposal        |-> ckpt.seal.proposal,
                         certificate     |-> ckpt.state[<<"forge_certify", 0>>],
                         trace           |-> Len(records),
                         repair_attempts |-> ModelCalls]
           /\ Continue("return") /\ UNCHANGED val
    BY <1>3 DEF Finalise
  <2>2. CASE \/ UNCHANGED result /\ Leave("POST_APPROVAL_MODEL_CALL")
             \/ UNCHANGED result /\ Leave("CHAIN_CORRUPTION")
    <3>1. Left
      BY <2>2, LeaveLeft DEF Outcomes
    <3> QED
      BY <2>0, <2>2, <3>1, LeftKeeps DEF world, TypeOK
  <2>3. CASE /\ result' = [proposal        |-> ckpt.seal.proposal,
                           certificate     |-> ckpt.state[<<"forge_certify", 0>>],
                           trace           |-> Len(records),
                           repair_attempts |-> ModelCalls]
             /\ Continue("return") /\ UNCHANGED val
    <3>1. ckpt.state[<<"forge_certify", 0>>] \in Values
      <4>1. <<"forge_certify", 0>> \in Slots
        BY DEF Slots, EffectNodes
      <4> QED
        BY <2>0, <4>1 DEF Ckpts
    <3>2. result' \in Results
      BY <2>0, <2>3, <3>1, CountTypes DEF Results, Seals, TypeOK
    <3>3. pc' = pc /\ step' = "return" /\ UNCHANGED <<attempt, payload, outcome, val>>
      BY <2>3 DEF Continue, Goto
    <3>4. Sealed' = Sealed
      BY <2>0 DEF Sealed
    <3>5. TypeOK'
      BY <2>0, <3>2, <3>3 DEF TypeOK, world, Steps
    <3>6. Control' /\ Repairs' /\ Consent'
      BY <2>0, <3>3, <3>4 DEF Control, Repairs, Consent, world
    <3> QED
      BY <3>5, <3>6
  <2> QED
    BY <2>1, <2>2, <2>3
<1> QED
  BY <1>1, <1>2, <1>3

\* Every step of execute, and a crash between two of them, keeps the invariant.
LEMMA StepInv == IndInv /\ [Next]_vars => IndInv'
<1> SUFFICES ASSUME IndInv, [Next]_vars PROVE IndInv'
  OBVIOUS
<1>1. CASE Worker
  <2>1. ASSUME NEW n \in Nodes, Node(n) PROVE IndInv'
    BY <2>1, ReplayPureKeeps, ReplayEffectKeeps, DriveKeeps, RecordKeeps DEF Node
  <2> QED
    BY <1>1, <2>1, RepairKeeps, BoundaryKeeps, ExecuteKeeps DEF Worker
<1>2. ASSUME NEW s \in Stages, Decide(s)
      PROVE  IndInv'
  <2>1. UNCHANGED <<records, approvals, ckpt, result, effects, entered, asked, budget, pc, step,
                    attempt, payload, val, outcome, crashes>>
    BY <1>2 DEF Decide, store, volatile
  <2>2. decided' \in [Stages -> [question : Questions, decision : {"approve", "reject"}]
                                 \cup {None}]
    BY <1>2 DEF Decide, IndInv, TypeOK
  <2>3. TypeOK' /\ Sealed' = Sealed
    BY <2>1, <2>2 DEF IndInv, TypeOK, Sealed
  <2> QED
    BY <2>1, <2>3 DEF IndInv, Control, Repairs, Consent
<1>3. CASE Crash
  <2>1. Left /\ UNCHANGED <<store, world>>
    BY <1>3, LeaveLeft DEF Crash, Outcomes
  <2>2. crashes' \in 0..MaxCrashes
    BY <1>3, BudgetAssumption DEF Crash, IndInv, TypeOK
  <2> QED
    BY <2>1, <2>2, LeftKeeps DEF store, world, IndInv, TypeOK
<1>4. CASE UNCHANGED vars
  BY <1>4 DEF vars, IndInv, TypeOK, Control, Repairs, Consent, Sealed
<1> QED
  BY <1>1, <1>2, <1>3, <1>4 DEF Next

-----------------------------------------------------------------------------
(***************************************************************************)
(* Theorems.                                                               *)
(***************************************************************************)
\* The inductive invariant holds in every state of every run.
LEMMA Invariance == Spec => []IndInv
BY InitInv, StepInv, PTL DEF Spec

\* Every variable of a run of TrustSpineRuntime.execute stays in its domain.
THEOREM TypeCorrect == Spec => []TypeOK
<1>1. IndInv => TypeOK
  BY DEF IndInv
<1> QED
  BY <1>1, Invariance, PTL

\* No port is ever asked for an effect unless the run was sealed with both
\* approvals of the very proposal that is dispatched.
THEOREM EffectsAreAuthorised == Spec => []EffectsAuthorised
<1>1. IndInv => EffectsAuthorised
  BY DEF IndInv, Consent, EffectsAuthorised
<1> QED
  BY <1>1, Invariance, PTL

\* What a step may do to a sealed run.
SealKept ==
    /\ Sealed' /\ ckpt'.seal = ckpt.seal /\ ckpt'.phase >= ckpt.phase
    /\ entered' = entered /\ ModelCalls' = ModelCalls

\* A step that writes a sealed checkpoint only by Advance keeps the seal.
LEMMA WriteKeepsSeal ==
    ASSUME IndInv, Sealed,
           \/ ckpt' = ckpt
           \/ ckpt' \in Ckpts /\ ckpt'.seal = ckpt.seal /\ ckpt'.phase >= ckpt.phase,
           UNCHANGED <<records, entered>>
    PROVE  SealKept
<1>1. ckpt # None /\ ckpt \in Ckpts /\ ckpt.phase \in Phases
  BY DEF Sealed, IndInv, TypeOK, Ckpts
<1>2. ModelCalls' = ModelCalls
  BY DEF ModelCalls, RecordsOf
<1>3. ckpt' # None /\ ckpt'.phase >= ckpt.phase /\ ckpt'.phase \in Phases
  BY <1>1, NoneAssumption DEF Phases, Ckpts
<1> QED
  BY <1>1, <1>2, <1>3 DEF SealKept, Sealed, Phases, Sealing, PhaseOf

\* A step that journals an effect node charges no model call.
LEMMA AppendKeepsSeal ==
    ASSUME IndInv, Sealed, NEW n \in EffectNodes, NEW st, NEW o, AppendRecord(n, st, o),
           UNCHANGED <<ckpt, entered>>
    PROVE  SealKept
<1> DEFINE r == [key |-> KeyOf(n), status |-> st, out |-> o, pred |-> ChainLength]
<1>1. records \in Seq(Records) /\ records' = Append(records, r)
  BY DEF IndInv, TypeOK, AppendRecord
<1>2. r.key.node # "prisma_repair"
  BY DEF KeyOf, EffectNodes
<1> HIDE DEF r
<1>3. /\ DOMAIN records' = 1..(Len(records) + 1) /\ DOMAIN records = 1..Len(records)
      /\ Len(records) \in Nat
      /\ \A i \in DOMAIN records : records'[i] = records[i]
  BY <1>1
<1>4. \A i \in DOMAIN records' : i \in DOMAIN records \/ records'[i] = r
  BY <1>1
<1>5. RecordsOf("prisma_repair", "started")' = RecordsOf("prisma_repair", "started")
  BY <1>2, <1>3, <1>4 DEF RecordsOf
<1>6. ckpt \in Ckpts
  BY DEF Sealed, IndInv, TypeOK
<1> QED
  BY <1>5, <1>6 DEF SealKept, Sealed, ModelCalls, Phases, Ckpts

\* Every step taken on a sealed run keeps its seal, phase and model count.
LEMMA StepKeepsSeal == IndInv /\ Sealed /\ [Next]_vars => SealKept
<1> SUFFICES ASSUME IndInv, Sealed, [Next]_vars PROVE SealKept
  OBVIOUS
<1>0. /\ pc \notin PreSeal
      /\ ckpt # None /\ ckpt \in Ckpts /\ ckpt.phase \in Phases
      /\ ckpt.state \in [Slots -> Values]
  BY DEF IndInv, Control, Sealed, TypeOK, Ckpts
<1>1. ASSUME NEW n \in Nodes, Node(n)
      PROVE  SealKept
  <2>0. n \in EffectNodes /\ n \notin PureNodes /\ n # "prisma_repair"
    <3>1. pc = n
      BY <1>1 DEF Node, ReplayPure, ReplayEffect, ReuseIntent, Begin, BeginCheckpoint, InvokePure,
         InvokePort, Output, Succeed, SucceedCheckpoint, Fail, FailCheckpoint
    <3> QED
      BY <1>0, <3>1 DEF PreSeal, Nodes
  <2>1. PhaseOf[n] \in Phases
    BY <2>0 DEF EffectNodes, PhaseOf, Phases
  <2>2. CASE ReplayEffect(n)
    <3>1. \/ UNCHANGED ckpt
          \/ EnsurePhase(PhaseOf[n], Proceed(n, ckpt.state[SlotOf(n)]))
      BY <2>0, <2>2 DEF ReplayEffect
    <3>2. \/ ckpt' = ckpt
          \/ ckpt' \in Ckpts /\ ckpt'.seal = ckpt.seal /\ ckpt'.phase >= ckpt.phase
      BY <1>0, <2>1, <3>1, EnsureType DEF IndInv
    <3> QED
      BY <2>2, <3>2, WriteKeepsSeal DEF ReplayEffect, world
  <2>3. CASE BeginCheckpoint(n) \/ SucceedCheckpoint(n) \/ FailCheckpoint(n)
    <3>1. \E ph \in {ckpt.phase, PhaseOf[n]} :
            \/ Advance(ph, ckpt.state, Continue("invoke") /\ UNCHANGED val)
            \/ Advance(ph, ckpt.state, Proceed(n, val))
            \/ Advance(ph, ckpt.state, RaiseFrom(n, val))
      BY <2>0, <2>3 DEF BeginCheckpoint, SucceedCheckpoint, FailCheckpoint
    <3>2. ckpt' \in Ckpts /\ ckpt'.seal = ckpt.seal /\ ckpt'.phase >= ckpt.phase
      BY <1>0, <2>1, <3>1, AdvanceType DEF IndInv
    <3> QED
      BY <2>3, <3>2, WriteKeepsSeal DEF BeginCheckpoint, SucceedCheckpoint, FailCheckpoint, world
  <2>4. CASE Output(n)
    <3> DEFINE st == [ckpt.state EXCEPT ![SlotOf(n)] = val]
    <3>1. UNCHANGED ckpt \/ Advance(ckpt.phase, st, Continue("success") /\ UNCHANGED val)
      BY <2>4 DEF Output
    <3>2. st \in [Slots -> Values]
      BY <1>0 DEF IndInv, TypeOK
    <3> HIDE DEF st
    <3>3. \/ ckpt' = ckpt
          \/ ckpt' \in Ckpts /\ ckpt'.seal = ckpt.seal /\ ckpt'.phase >= ckpt.phase
      BY <1>0, <3>1, <3>2, AdvanceType DEF IndInv
    <3> QED
      BY <2>4, <3>3, WriteKeepsSeal DEF Output, world
  <2>5. CASE ReuseIntent(n) \/ InvokePort(n)
    BY <2>5, WriteKeepsSeal DEF ReuseIntent, InvokePort, store, world
  <2>6. CASE Begin(n) \/ Succeed(n) \/ Fail(n)
    BY <2>0, <2>6, AppendKeepsSeal DEF Begin, Succeed, Fail, world
  <2> QED
    BY <1>1, <2>0, <2>2, <2>3, <2>4, <2>5, <2>6 DEF Node, ReplayPure, InvokePure
<1>2. CASE Execute
  <2>1. \/ UNCHANGED ckpt
        \/ Advance(ckpt.phase, ckpt.state,
                   IF Sealed /\ ~RevalidateSealed THEN Leave("STATE_CORRUPTION") ELSE Enter)
    BY <1>0, <1>2 DEF Execute
  <2>2. \/ ckpt' = ckpt
        \/ ckpt' \in Ckpts /\ ckpt'.seal = ckpt.seal /\ ckpt'.phase >= ckpt.phase
    BY <1>0, <2>1, AdvanceType DEF IndInv
  <2> QED
    BY <1>2, <2>2, WriteKeepsSeal DEF Execute, world
<1>3. CASE ReturnFinished \/ Finalise \/ Return \/ Crash \/ UNCHANGED vars
  BY <1>3, WriteKeepsSeal DEF ReturnFinished, Finalise, Return, Crash, vars, store, world
<1>4. CASE \E s \in Stages : Decide(s)
  BY <1>4, WriteKeepsSeal DEF Decide, store
<1>5. ~(RepairRefused \/ ModelBudgetRefused \/ InvokeRepair \/ Boundary)
  BY <1>0 DEF RepairRefused, ModelBudgetRefused, InvokeRepair, Boundary, ApprovalMissing,
     ApprovalRefused, ApproveSimulation, SimulationCheckpoint, ReplaySimulation, Seal,
     PreSeal, Stages
<1> QED
  BY <1>1, <1>2, <1>3, <1>4, <1>5 DEF Next, Worker

\* Once a run has crossed the production boundary its seal is never lifted or
\* exchanged, its phase never falls, and the model is neither entered nor
\* charged again.
THEOREM SealIsIrreversible == Spec => SealIrreversible
<1>1. IndInv /\ [Next]_vars =>
        [Sealed => /\ Sealed' /\ ckpt'.seal = ckpt.seal /\ ckpt'.phase >= ckpt.phase
                   /\ entered' = entered /\ ModelCalls' = ModelCalls]_vars
  BY StepKeepsSeal DEF SealKept
<1> QED
  BY <1>1, Invariance, PTL DEF Spec, SealIrreversible

-----------------------------------------------------------------------------
(***************************************************************************)
(* The journal.  Its records are one path: each opens the key that its     *)
(* predecessor leads to, closes the key its predecessor opened, or charges *)
(* another entry of the same repair.  The keys of the path rise in rank,   *)
(* so no key comes back, and every node but validation and repair has one. *)
(***************************************************************************)
\* The key of a run's first node.
FirstKey == [node |-> "prisma_validate", attempt |-> 0, in |-> PlanPayload, at |-> 0]

\* How far along the pipeline a key is; there are at most three repairs.
Rank(k) ==
    CASE k.node = "prisma_validate"      -> 2 * k.attempt
      [] k.node = "prisma_repair"        -> 2 * k.attempt - 1
      [] k.node = "deterministic_policy" -> 10
      [] k.node = "vale_verify"          -> 11
      [] k.node = "flow_dispatch"        -> 12
      [] k.node = "ledger_reconcile"     -> 13
      [] k.node = "forge_certify"        -> 14

\* Record r is one of node n with status s; a terminal record ends its key.
Is(r, n, s) == r.key.node = n /\ r.status = s
Ends(r)     == r.status # "started"

\* After terminal record r the run has a next node.
Leads(r) ==
    \/ r.status = "succeeded" /\ r.key.node # "forge_certify"
    \/ Is(r, "prisma_validate", "failed") /\ r.key.attempt < MaxRepairs

Key(n, a, in, at) == [node |-> n, attempt |-> a, in |-> in, at |-> at]

\* The key of the node that follows terminal record r, the journal's i-th.  Two
\* approvals separate the verdict from everything after it in the chain.
NextKey(r, i) ==
    IF r.status = "failed" THEN Key("prisma_repair", r.key.attempt + 1, r.key.in, 0)
    ELSE CASE r.key.node = "prisma_validate"      -> Key("deterministic_policy", 0, r.key.in, 0)
           [] r.key.node = "prisma_repair"        -> Key("prisma_validate", r.key.attempt, r.out, 0)
           [] r.key.node = "deterministic_policy" -> Key("vale_verify", 0, r.key.in, 0)
           [] r.key.node = "vale_verify"          -> Key("flow_dispatch", 0, r.key.in, i + 1)
           [] r.key.node = "flow_dispatch"        -> Key("ledger_reconcile", 0, r.out, r.key.at)
           [] r.key.node = "ledger_reconcile"     -> Key("forge_certify", 0, r.out, i + 2)

\* k is the key that journal R leads to next.
Frontier(R, k) ==
    \/ R = <<>> /\ k = FirstKey
    \/ R # <<>> /\ Ends(R[Len(R)]) /\ Leads(R[Len(R)]) /\ k = NextKey(R[Len(R)], Len(R))

\* k is a key of journal R, or the next one.
OnPath(R, k) == Frontier(R, k) \/ \E i \in DOMAIN R : R[i].key = k

\* Keys rise along the journal, strictly after a terminal record, and a key is
\* left only once it has a terminal record.
Ordered(R) ==
    \A i, j \in DOMAIN R : i < j =>
      /\ Rank(R[i].key) <= Rank(R[j].key)
      /\ Ends(R[i]) => Rank(R[i].key) < Rank(R[j].key)
      /\ Rank(R[i].key) = Rank(R[j].key) => R[i].key = R[j].key
      /\ R[i].key # R[j].key =>
           \E k \in DOMAIN R : i <= k /\ k < j /\ R[k].key = R[i].key /\ Ends(R[k])

\* Each record is followed by one of the key it leads to, or of its own key.
Linked(R) ==
    /\ \A i \in DOMAIN R : i + 1 \in DOMAIN R =>
         /\ Ends(R[i]) => Leads(R[i]) /\ R[i + 1].key = NextKey(R[i], i)
         /\ ~Ends(R[i]) => /\ R[i + 1].key = R[i].key
                           /\ ~Ends(R[i + 1]) => R[i].key.node = "prisma_repair"
    /\ R # <<>> => R[1].key = FirstKey

\* What a key is derived from is in the journal.
Root(R, k) ==
    /\ k.node = "prisma_repair" => k.attempt >= 1
    /\ k.node = "deterministic_policy" =>
         \E i \in DOMAIN R : Is(R[i], "prisma_validate", "succeeded") /\ R[i].key.in = k.in
    /\ k.node = "vale_verify" =>
         \E i \in DOMAIN R : Is(R[i], "deterministic_policy", "succeeded")
    /\ k.node = "flow_dispatch" =>
         \E i \in DOMAIN R : Is(R[i], "vale_verify", "succeeded")
    /\ k.node = "ledger_reconcile" =>
         \E i \in DOMAIN R : Is(R[i], "flow_dispatch", "succeeded") /\ R[i].out = k.in
    /\ k.node = "forge_certify" =>
         \E i \in DOMAIN R : Is(R[i], "ledger_reconcile", "succeeded") /\ R[i].out = k.in

\* A payload prisma_validate let through.  A refusal is told from the payload
\* by being a different value, so the code itself would pass as a payload.
Judged(p) == p \notin Valid => p = "PROPOSAL_INVALID"

\* The journal is a path.
Path(R) ==
    /\ Ordered(R) /\ Linked(R)
    /\ \A i \in DOMAIN R : Root(R, R[i].key)
    /\ \A i \in DOMAIN R : Is(R[i], "prisma_validate", "succeeded") => Judged(R[i].key.in)

\* Where a node is between its intent and its terminal record.
Active == {"intent", "invoke", "output", "success", "failed"}

\* The last record is one of key k with status s.
AtLast(R, k, s) == R # <<>> /\ R[Len(R)].key = k /\ R[Len(R)].status = s

\* Vale verified payload p.
Verdict(R, p) ==
    \E i \in DOMAIN R : Is(R[i], "vale_verify", "succeeded") /\ R[i].key.in = p

\* The process stands on the path, and at its end once it has written.
Position ==
    /\ pc \in Nodes => OnPath(records, KeyOf(pc))
    /\ pc \in Nodes /\ step \in Active => AtLast(records, KeyOf(pc), "started")
    /\ pc \in Nodes /\ step = "phase" =>
         AtLast(records, KeyOf(pc), "succeeded") /\ records[Len(records)].out = val
    /\ pc \in Nodes /\ step = "failphase" => AtLast(records, KeyOf(pc), "failed")
    /\ pc = "vale_verify" /\ step = "phase" => approvals = <<>>
    /\ pc \in Stages => Verdict(records, payload)
    /\ pc = "finalise" => RecordsOf("forge_certify", "succeeded") # {}

\* What the process holds of a node's answer, and what it has made durable.
Answered ==
    /\ pc = "prisma_validate" /\ step \in {"output", "success"} => Judged(payload)
    /\ pc \in Nodes /\ step = "output" => HasSlot(pc)
    /\ pc \in Nodes /\ step = "success" /\ HasSlot(pc) => ckpt.state[SlotOf(pc)] = val
    /\ pc \in EffectNodes /\ step \in {"output", "success"} =>
         [key |-> KeyOf(pc), answer |-> val] \in effects
    /\ pc = "prisma_repair" /\ step \in {"intent", "invoke"} => entered < ModelCalls

\* The volatile part of the invariant.
Walk == Position /\ Answered /\ NoFalseCorruption

\* Checkpoint state `state` has the output of every success of the journal.
Holds(state) ==
    \A i \in DOMAIN records :
      records[i].status = "succeeded" /\ HasSlot(records[i].key.node) =>
        state[<<records[i].key.node,
                IF records[i].key.node = "prisma_repair" THEN records[i].key.attempt ELSE 0>>]
          = records[i].out

\* The journal and the approvals hold all that `phase` claims.
Backed(phase) ==
    /\ \A n \in PureNodes \cup EffectNodes :
          phase >= PhaseOf[n] => RecordsOf(n, "succeeded") # {}
    /\ phase >= PhaseOf["simulation"] => approvals # <<>>

\* The checkpoint is behind the journal, never ahead or at odds with it.
Books ==
    /\ ckpt = None => records = <<>> /\ approvals = <<>>
    /\ ckpt # None => /\ ckpt.chain <= ChainLength /\ ckpt.sequence <= Len(records)
                      /\ Holds(ckpt.state) /\ Backed(ckpt.phase)
    /\ Sealed => ckpt.model_calls = ModelCalls /\ ckpt.model_calls_at_seal = ModelCalls
    /\ FoldLinks

\* A decision is about the verified payload; no effect precedes the seal.
Agreed ==
    /\ approvals # <<>> => Verdict(records, approvals[1].proposal)
    /\ ~Sealed => /\ Len(approvals) <= 1
                  /\ \A i \in DOMAIN records : records[i].key.node \notin EffectNodes

\* Question q is about the verified payload at the head of the chain.
Pending(q) == q.pred = ChainLength /\ Verdict(records, q.proposal)

\* A question once asked is the one asked again until it is answered.
Asked ==
    /\ \A s \in Stages : decided[s] # None => decided[s].question = asked[s] /\ asked[s] # None
    /\ asked["simulation"] # None /\ approvals = <<>> => Pending(asked["simulation"])
    /\ asked["production"] # None =>
         approvals # <<>> /\ (~Sealed => Pending(asked["production"]))

\* Every entry of the model adapter was charged, and within the budgets.
Counts == entered <= ModelCalls /\ ModelCalls <= MaxRepairs /\ ModelCalls <= budget

\* The ports did what the journal intended and what it says they answered.
Done ==
    /\ \A e \in effects : e.key.node \in EffectNodes /\ Started(e.key)
    /\ \A i \in DOMAIN records :
         records[i].key.node \in EffectNodes /\ records[i].status = "succeeded" =>
           [key |-> records[i].key, answer |-> records[i].out] \in effects
    /\ result # None =>
         /\ Sealed /\ result.proposal = ckpt.seal.proposal
         /\ \E i \in DOMAIN records :
              Is(records[i], "forge_certify", "succeeded")
                /\ records[i].out = result.certificate

\* The durable part of the invariant.
Durable == Path(records) /\ Books /\ Agreed /\ Asked /\ Counts /\ Done

-----------------------------------------------------------------------------
\* Ranks are small integers.
LEMMA RankType ==
    ASSUME NEW k \in Keys
    PROVE  Rank(k) \in Int
<1>1. k.node \in Nodes /\ k.attempt \in Int
  BY BudgetAssumption DEF Keys
<1> QED
  BY <1>1 DEF Rank, Nodes, PureNodes, EffectNodes

\* The path only leads on: the key after a terminal record ranks higher.
LEMMA NextRank ==
    ASSUME NEW r \in Records, Ends(r), Leads(r), NEW i
    PROVE  Rank(NextKey(r, i)) > Rank(r.key)
<1>1. /\ r.key.node \in Nodes /\ r.key.attempt \in 0..3 /\ r.status \in {"succeeded", "failed"}
  BY BudgetAssumption DEF Keys, Records, Ends
<1>2. CASE r.status = "failed"
  BY <1>1, <1>2 DEF Leads, Is, NextKey, Key, Rank
<1>3. CASE r.status = "succeeded"
  BY <1>1, <1>3 DEF Leads, Is, NextKey, Key, Rank, Nodes, PureNodes, EffectNodes
<1> QED
  BY <1>1, <1>2, <1>3

\* What a row of the journal is.
LEMMA RowType ==
    ASSUME NEW R \in Seq(Records), NEW i \in DOMAIN R
    PROVE  /\ R[i] \in Records /\ R[i].key \in Keys /\ Rank(R[i].key) \in Int
           /\ R[i].key.node \in Nodes /\ R[i].key.attempt \in 0..MaxRepairs
           /\ i \in Nat /\ 1 <= i /\ i <= Len(R) /\ Len(R) \in Nat
<1>1. R[i] \in Records /\ i \in Nat /\ 1 <= i /\ i <= Len(R) /\ Len(R) \in Nat
  OBVIOUS
<1>2. R[i].key \in Keys
  BY <1>1 DEF Records
<1>3. R[i].key.node \in Nodes /\ R[i].key.attempt \in 0..MaxRepairs
  BY <1>2 DEF Keys
<1> QED
  BY <1>1, <1>2, <1>3, RankType

\* From a terminal record the path leads to the next record, or to its end.
LEMMA PathLeadsOn ==
    ASSUME NEW R \in Seq(Records), Linked(R), NEW i \in DOMAIN R, Ends(R[i]), Leads(R[i])
    PROVE  OnPath(R, NextKey(R[i], i))
<1>1. CASE i = Len(R)
  BY <1>1 DEF OnPath, Frontier
<1>2. CASE i # Len(R)
  <2>1. i + 1 \in DOMAIN R
    BY <1>2
  <2> QED
    BY <2>1 DEF OnPath, Linked
<1> QED
  BY <1>1, <1>2

\* A position whose key has no terminal record is at the end of the path.
LEMMA OpenIsLast ==
    ASSUME NEW R \in Seq(Records), Ordered(R), NEW k, OnPath(R, k),
           \A i \in DOMAIN R : R[i].key = k => ~Ends(R[i])
    PROVE  Frontier(R, k) \/ (R # <<>> /\ R[Len(R)].key = k /\ ~Ends(R[Len(R)]))
<1> SUFFICES ASSUME ~Frontier(R, k)
             PROVE  R # <<>> /\ R[Len(R)].key = k /\ ~Ends(R[Len(R)])
  OBVIOUS
<1>1. PICK i \in DOMAIN R : R[i].key = k
  BY DEF OnPath
<1>2. R # <<>> /\ Len(R) \in DOMAIN R /\ Len(R) \in Nat /\ i \in Nat /\ i <= Len(R)
  BY <1>1
<1>3. R[Len(R)].key = k
  <2> SUFFICES ASSUME R[Len(R)].key # k PROVE FALSE
    OBVIOUS
  <2>1. i < Len(R) /\ R[i].key # R[Len(R)].key
    BY <1>1, <1>2
  <2>2. PICK m \in DOMAIN R : R[m].key = R[i].key /\ Ends(R[m])
    BY <1>2, <2>1 DEF Ordered
  <2> QED
    BY <1>1, <2>2
<1> QED
  BY <1>2, <1>3

\* What a sequence is after an append.
LEMMA Appended ==
    ASSUME NEW S, NEW R \in Seq(S), NEW r \in S, NEW Q, Q = Append(R, r)
    PROVE  /\ Q \in Seq(S) /\ Q # <<>> /\ Len(R) \in Nat /\ Len(Q) = Len(R) + 1
           /\ DOMAIN R = 1..Len(R) /\ DOMAIN Q = 1..(Len(R) + 1)
           /\ \A i \in DOMAIN R : i \in DOMAIN Q /\ Q[i] = R[i]
           /\ Q[Len(R) + 1] = r
           /\ \A i \in DOMAIN Q : i \in DOMAIN R \/ i = Len(R) + 1
  OBVIOUS

\* How the path may grow: by an intent at its frontier, or by a record of the
\* key its last record opened.
Extends(R, r) ==
    \/ Frontier(R, r.key) /\ ~Ends(r)
    \/ /\ R # <<>> /\ R[Len(R)].key = r.key /\ ~Ends(R[Len(R)])
       /\ ~Ends(r) => r.key.node = "prisma_repair"

\* Every record of the path ranks below one that extends it.
LEMMA ExtendsRank ==
    ASSUME NEW R \in Seq(Records), Ordered(R), NEW r \in Records, Extends(R, r),
           NEW i \in DOMAIN R
    PROVE  /\ Rank(R[i].key) <= Rank(r.key)
           /\ Ends(R[i]) => Rank(R[i].key) < Rank(r.key)
           /\ Rank(R[i].key) = Rank(r.key) => R[i].key = r.key
           /\ R[i].key # r.key =>
                \E k \in DOMAIN R : i <= k /\ R[k].key = R[i].key /\ Ends(R[k])
<1>1. /\ R # <<>> /\ Len(R) \in DOMAIN R /\ Len(R) \in Nat /\ i \in Nat /\ i <= Len(R)
      /\ R[i] \in Records /\ R[Len(R)] \in Records
  OBVIOUS
<1>2. PICK l \in Records, n \in Nat : l = R[Len(R)] /\ n = Len(R)
  BY <1>1
<1>3. Rank(R[i].key) \in Int /\ Rank(l.key) \in Int /\ Rank(r.key) \in Int
  BY <1>1, RankType DEF Records
<1>4. /\ Rank(R[i].key) <= Rank(l.key)
      /\ Ends(R[i]) /\ i # n => Rank(R[i].key) < Rank(l.key)
      /\ Rank(R[i].key) = Rank(l.key) => R[i].key = l.key
      /\ R[i].key # l.key =>
           \E k \in DOMAIN R : i <= k /\ R[k].key = R[i].key /\ Ends(R[k])
  <2>1. CASE i = n
    BY <1>2, <1>3, <2>1
  <2>2. CASE i # n
    <3>1. i < Len(R)
      BY <1>1, <1>2, <2>2
    <3> QED
      BY <1>1, <1>2, <3>1 DEF Ordered
  <2> QED
    BY <2>1, <2>2
<1>5. CASE l.key = r.key /\ ~Ends(l)
  <2>1. Ends(R[i]) => i # n
    BY <1>2, <1>5
  <2> QED
    BY <1>3, <1>4, <1>5, <2>1
<1>6. CASE Ends(l) /\ Leads(l) /\ r.key = NextKey(l, n)
  <2>1. Rank(r.key) > Rank(l.key)
    BY <1>6, NextRank
  <2>2. n \in DOMAIN R /\ i <= n /\ R[n] = l
    BY <1>1, <1>2
  <2>3. Rank(R[i].key) < Rank(r.key)
    BY <1>3, <1>4, <2>1
  <2>4. \E k \in DOMAIN R : i <= k /\ R[k].key = R[i].key /\ Ends(R[k])
    BY <1>4, <1>6, <2>2
  <2> QED
    BY <1>3, <2>3, <2>4
<1> QED
  BY <1>1, <1>2, <1>5, <1>6 DEF Extends, Frontier

\* The record that follows the last one it was opened by, or begins the next.
LEMMA ExtendsLink ==
    ASSUME NEW R \in Seq(Records), NEW r \in Records, Extends(R, r), R # <<>>
    PROVE  /\ Ends(R[Len(R)]) =>
                Leads(R[Len(R)]) /\ r.key = NextKey(R[Len(R)], Len(R))
           /\ ~Ends(R[Len(R)]) =>
                r.key = R[Len(R)].key /\ (~Ends(r) => r.key.node = "prisma_repair")
  BY DEF Extends, Frontier

\* What a key rests on stays when the path grows.
LEMMA RootGrows ==
    ASSUME NEW R \in Seq(Records), NEW Q \in Seq(Records),
           \A i \in DOMAIN R : i \in DOMAIN Q /\ Q[i] = R[i], NEW k, Root(R, k)
    PROVE  Root(Q, k)
  BY DEF Root

\* A record that extends the path has what its key rests on behind it.
LEMMA RootExtends ==
    ASSUME NEW R \in Seq(Records), \A i \in DOMAIN R : Root(R, R[i].key),
           NEW r \in Records, Extends(R, r)
    PROVE  Root(R, r.key)
<1>1. CASE R = <<>>
  BY <1>1 DEF Extends, Frontier, FirstKey, Root
<1>2. CASE R # <<>>
  <2>1. Len(R) \in DOMAIN R
    BY <1>2
  <2>2. CASE R[Len(R)].key = r.key
    BY <2>1, <2>2
  <2>3. CASE Ends(R[Len(R)]) /\ Leads(R[Len(R)]) /\ r.key = NextKey(R[Len(R)], Len(R))
    <3>1. PICK l \in Records, n \in DOMAIN R : l = R[n] /\ n = Len(R)
      BY <2>1
    <3>2. /\ l.key.node \in Nodes /\ l.status \in {"succeeded", "failed"} /\ Leads(l)
          /\ r.key = NextKey(l, n)
      BY <2>3, <3>1 DEF Records, Keys, Ends
    <3>3. CASE l.status = "failed"
      <4>1. r.key.node = "prisma_repair" /\ r.key.attempt = l.key.attempt + 1
        BY <3>2, <3>3 DEF NextKey, Key
      <4>2. l.key.attempt \in 0..MaxRepairs /\ MaxRepairs \in 0..3
        BY <3>1, RowType, BudgetAssumption
      <4> QED
        BY <4>1, <4>2 DEF Root
    <3>4. CASE l.status = "succeeded" /\ l.key.node \in {"prisma_repair"}
      <4>1. r.key.node = "prisma_validate"
        BY <3>2, <3>4 DEF NextKey, Key
      <4> QED
        BY <4>1 DEF Root
    <3>5. CASE l.status = "succeeded" /\ l.key.node = "prisma_validate"
      <4>1. r.key.node = "deterministic_policy" /\ r.key.in = l.key.in
        BY <3>2, <3>5 DEF NextKey, Key
      <4> QED
        BY <3>1, <3>5, <4>1 DEF Root, Is
    <3>6. CASE l.status = "succeeded" /\ l.key.node = "deterministic_policy"
      <4>1. r.key.node = "vale_verify"
        BY <3>2, <3>6 DEF NextKey, Key
      <4> QED
        BY <3>1, <3>6, <4>1 DEF Root, Is
    <3>7. CASE l.status = "succeeded" /\ l.key.node = "vale_verify"
      <4>1. r.key.node = "flow_dispatch"
        BY <3>2, <3>7 DEF NextKey, Key
      <4> QED
        BY <3>1, <3>7, <4>1 DEF Root, Is
    <3>8. CASE l.status = "succeeded" /\ l.key.node = "flow_dispatch"
      <4>1. r.key.node = "ledger_reconcile" /\ r.key.in = l.out
        BY <3>2, <3>8 DEF NextKey, Key
      <4> QED
        BY <3>1, <3>8, <4>1 DEF Root, Is
    <3>9. CASE l.status = "succeeded" /\ l.key.node = "ledger_reconcile"
      <4>1. r.key.node = "forge_certify" /\ r.key.in = l.out
        BY <3>2, <3>9 DEF NextKey, Key
      <4> QED
        BY <3>1, <3>9, <4>1 DEF Root, Is
    <3> QED
      BY <3>2, <3>3, <3>4, <3>5, <3>6, <3>7, <3>8, <3>9
         DEF Leads, Is, Nodes, PureNodes, EffectNodes
  <2> QED
    BY <1>2, <2>2, <2>3 DEF Extends, Frontier
<1> QED
  BY <1>1, <1>2

\* A record that extends the path leaves it a path.
LEMMA PathGrows ==
    ASSUME NEW R \in Seq(Records), Path(R), NEW r \in Records, Extends(R, r),
           Is(r, "prisma_validate", "succeeded") => Judged(r.key.in),
           NEW Q, Q = Append(R, r)
    PROVE  Path(Q)
<1>1. /\ Q \in Seq(Records) /\ Q # <<>> /\ Len(R) \in Nat /\ Len(Q) = Len(R) + 1
      /\ DOMAIN R = 1..Len(R) /\ DOMAIN Q = 1..(Len(R) + 1)
      /\ \A i \in DOMAIN R : i \in DOMAIN Q /\ Q[i] = R[i]
      /\ Q[Len(R) + 1] = r
      /\ \A i \in DOMAIN Q : i \in DOMAIN R \/ i = Len(R) + 1
  BY Appended
<1>2. Ordered(R) /\ Linked(R) /\ \A i \in DOMAIN R : Root(R, R[i].key)
  BY DEF Path
<1>3. Ordered(Q)
  <2> SUFFICES ASSUME NEW i \in DOMAIN Q, NEW j \in DOMAIN Q, i < j
               PROVE  /\ Rank(Q[i].key) <= Rank(Q[j].key)
                      /\ Ends(Q[i]) => Rank(Q[i].key) < Rank(Q[j].key)
                      /\ Rank(Q[i].key) = Rank(Q[j].key) => Q[i].key = Q[j].key
                      /\ Q[i].key # Q[j].key =>
                           \E k \in DOMAIN Q : i <= k /\ k < j /\ Q[k].key = Q[i].key /\ Ends(Q[k])
    BY DEF Ordered
  <2>1. i \in DOMAIN R /\ Q[i] = R[i]
    BY <1>1
  <2>2. CASE j \in DOMAIN R
    <3>1. Q[j] = R[j]
      BY <1>1, <2>2
    <3>2. /\ Rank(R[i].key) <= Rank(R[j].key)
          /\ Ends(R[i]) => Rank(R[i].key) < Rank(R[j].key)
          /\ Rank(R[i].key) = Rank(R[j].key) => R[i].key = R[j].key
          /\ R[i].key # R[j].key =>
               \E k \in DOMAIN R : i <= k /\ k < j /\ R[k].key = R[i].key /\ Ends(R[k])
      BY <1>2, <2>1, <2>2 DEF Ordered
    <3>3. \A k \in DOMAIN R : k \in DOMAIN Q /\ Q[k] = R[k]
      BY <1>1
    <3> HIDE DEF Path
    <3> QED
      BY ONLY <2>1, <3>1, <3>2, <3>3
  <2>3. CASE j = Len(R) + 1
    <3>1. Q[j] = r
      BY <1>1, <2>3
    <3>2. \A k \in DOMAIN R : k \in DOMAIN Q /\ k < j /\ Q[k] = R[k]
      BY <1>1, <2>3
    <3>3. /\ Rank(R[i].key) <= Rank(r.key)
          /\ Ends(R[i]) => Rank(R[i].key) < Rank(r.key)
          /\ Rank(R[i].key) = Rank(r.key) => R[i].key = r.key
          /\ R[i].key # r.key =>
               \E k \in DOMAIN R : i <= k /\ R[k].key = R[i].key /\ Ends(R[k])
      BY <1>2, <2>1, ExtendsRank
    <3> QED
      BY <2>1, <3>1, <3>2, <3>3
  <2> QED
    BY <1>1, <2>2, <2>3
<1>4. Linked(Q)
  <2>1. ASSUME NEW i \in DOMAIN Q, i + 1 \in DOMAIN Q
        PROVE  /\ Ends(Q[i]) => Leads(Q[i]) /\ Q[i + 1].key = NextKey(Q[i], i)
               /\ ~Ends(Q[i]) => /\ Q[i + 1].key = Q[i].key
                                 /\ ~Ends(Q[i + 1]) => Q[i].key.node = "prisma_repair"
    <3>1. i \in DOMAIN R /\ Q[i] = R[i]
      BY <1>1, <2>1
    <3>2. CASE i + 1 \in DOMAIN R
      <4>1. Q[i + 1] = R[i + 1]
        BY <1>1, <3>2
      <4> QED
        BY <1>2, <3>1, <3>2, <4>1 DEF Linked
    <3>3. CASE i + 1 = Len(R) + 1
      <4>1. i = Len(R) /\ Q[i + 1] = r /\ R # <<>>
        BY <1>1, <3>1, <3>3
      <4> QED
        BY <3>1, <4>1, ExtendsLink
    <3> QED
      BY <1>1, <2>1, <3>2, <3>3
  <2>2. Q[1].key = FirstKey
    <3>1. CASE R = <<>>
      <4>1. Q[1] = r /\ r.key = FirstKey
        BY <1>1, <3>1 DEF Extends, Frontier
      <4> QED
        BY <4>1
    <3>2. CASE R # <<>>
      <4>1. 1 \in DOMAIN R
        BY <1>1, <3>2
      <4> QED
        BY <1>1, <1>2, <3>2, <4>1 DEF Linked
    <3> QED
      BY <3>1, <3>2
  <2> QED
    BY <2>1, <2>2 DEF Linked
<1>5. ASSUME NEW i \in DOMAIN Q
      PROVE  Root(Q, Q[i].key)
  <2>1. Root(R, Q[i].key)
    BY <1>1, <1>2, RootExtends
  <2> QED
    BY <1>1, <2>1, RootGrows
<1>6. ASSUME NEW i \in DOMAIN Q, Is(Q[i], "prisma_validate", "succeeded")
      PROVE  Judged(Q[i].key.in)
  BY <1>1, <1>6 DEF Path
<1> QED
  BY <1>3, <1>4, <1>5, <1>6 DEF Path

\* Two terminal records of one rank are one.
LEMMA OneEnd ==
    ASSUME NEW R \in Seq(Records), Ordered(R), NEW i \in DOMAIN R, NEW j \in DOMAIN R,
           Rank(R[i].key) = Rank(R[j].key), Ends(R[i]), Ends(R[j])
    PROVE  i = j
<1>0. i \in Nat /\ j \in Nat
  OBVIOUS
<1>1. Rank(R[i].key) \in Int
  BY RowType
<1>2. ~(i < j) /\ ~(j < i)
  BY <1>0, <1>1 DEF Ordered
<1> QED
  BY <1>0, <1>2

\* The nodes after validation have one rank each.
LEMMA NodeRank ==
    ASSUME NEW k \in Keys, NEW m \in Keys, k.node = m.node,
           k.node \notin {"prisma_validate", "prisma_repair"} \/ k.attempt = m.attempt
    PROVE  Rank(k) = Rank(m)
  BY DEF Rank, Keys, Nodes, PureNodes, EffectNodes

\* Once prisma_validate succeeded, nothing of the _propose loop follows.
LEMMA ValidatedOnce ==
    ASSUME NEW R \in Seq(Records), Ordered(R), Linked(R), NEW i \in DOMAIN R,
           Is(R[i], "prisma_validate", "succeeded"), NEW j \in DOMAIN R, i < j
    PROVE  R[j].key.node \notin {"prisma_validate", "prisma_repair"}
<1>1. i + 1 \in DOMAIN R /\ i \in Nat /\ j \in Nat /\ i + 1 <= j
  OBVIOUS
<1>2. R[i + 1].key.node = "deterministic_policy"
  <2>1. R[i + 1].key = NextKey(R[i], i)
    BY <1>1 DEF Linked, Is, Ends
  <2>2. NextKey(R[i], i) = Key("deterministic_policy", 0, R[i].key.in, 0)
    BY DEF NextKey, Is
  <2> QED
    BY <2>1, <2>2 DEF Key
<1>3. Rank(R[i + 1].key) = 10
  BY <1>2 DEF Rank
<1>4. R[j].key \in Keys /\ Rank(R[i + 1].key) <= Rank(R[j].key)
  <2>1. R[j].key \in Keys
    BY RowType
  <2>2. Rank(R[j].key) \in Int
    BY RowType
  <2>3. CASE i + 1 = j
    BY <1>3, <2>1, <2>3
  <2>4. CASE i + 1 < j
    BY <1>1, <2>1, <2>4 DEF Ordered
  <2> QED
    BY <1>1, <2>1, <2>3, <2>4
<1>5. PICK k : k = R[j].key
  OBVIOUS
<1>6. k.attempt \in 0..MaxRepairs
  BY <1>5, RowType
<1>7. k.attempt \in 0..3
  BY ONLY <1>6, BudgetAssumption
<1>8. 10 <= Rank(k)
  BY <1>3, <1>4, <1>5
<1>9. k.node \notin {"prisma_validate", "prisma_repair"}
  BY ONLY <1>7, <1>8 DEF Rank
<1> QED
  BY <1>5, <1>9

-----------------------------------------------------------------------------
\* The first of one position is that position.
LEMMA FirstOfOne ==
    ASSUME NEW i \in Nat
    PROVE  First({i}) = i
<1>1. First({i}) \in {i}
  BY FirstIsLeast
<1> QED
  BY <1>1

\* A node behind the _propose loop succeeds once.
LEMMA SoleSuccess ==
    ASSUME records \in Seq(Records), Ordered(records), NEW i \in DOMAIN records, NEW n,
           n \notin {"prisma_validate", "prisma_repair"}, Is(records[i], n, "succeeded")
    PROVE  RecordsOf(n, "succeeded") = {i} /\ First(RecordsOf(n, "succeeded")) = i
<1>1. ASSUME NEW j \in RecordsOf(n, "succeeded")
      PROVE  j = i
  <2>1. j \in DOMAIN records /\ records[j].key.node = n /\ records[j].status = "succeeded"
    BY <1>1 DEF RecordsOf
  <2>2. Rank(records[i].key) = Rank(records[j].key)
    BY <2>1, RowType, NodeRank DEF Is
  <2>3. Ends(records[i]) /\ Ends(records[j])
    BY <2>1 DEF Is, Ends
  <2> QED
    BY <2>1, <2>2, <2>3, OneEnd
<1>2. i \in RecordsOf(n, "succeeded") /\ i \in Nat
  BY DEF RecordsOf, Is
<1>3. RecordsOf(n, "succeeded") = {i}
  BY <1>1, <1>2
<1> QED
  BY <1>2, <1>3, FirstOfOne

\* Before the seal, Vale's verdict is the journal's last record.
LEMMA VerdictIsLast ==
    ASSUME records \in Seq(Records), Path(records), Agreed, ~Sealed, NEW i \in DOMAIN records,
           Is(records[i], "vale_verify", "succeeded")
    PROVE  i = Len(records)
<1> SUFFICES ASSUME i # Len(records) PROVE FALSE
  OBVIOUS
<1>1. i + 1 \in DOMAIN records
  OBVIOUS
<1>2. records[i + 1].key = NextKey(records[i], i)
  BY <1>1 DEF Path, Linked, Is, Ends
<1>3. NextKey(records[i], i) = Key("flow_dispatch", 0, records[i].key.in, i + 1)
  BY DEF NextKey, Is
<1>4. records[i + 1].key.node = "flow_dispatch"
  BY <1>2, <1>3 DEF Key
<1> QED
  BY <1>1, <1>4 DEF Agreed, EffectNodes

\* So nothing is journaled between the verdict and the seal.
LEMMA NothingAfterVerdict ==
    ASSUME records \in Seq(Records), Path(records), Agreed, ~Sealed, NEW p, Verdict(records, p),
           NEW r \in Records, Extends(records, r)
    PROVE  r.key.node = "flow_dispatch"
<1>1. PICK i \in DOMAIN records : Is(records[i], "vale_verify", "succeeded")
  BY DEF Verdict
<1>2. i = Len(records) /\ records # <<>>
  BY <1>1, VerdictIsLast
<1>3. Ends(records[i])
  BY <1>1 DEF Is, Ends
<1>4. r.key = NextKey(records[i], i)
  BY <1>2, <1>3, ExtendsLink
<1>5. NextKey(records[i], i) = Key("flow_dispatch", 0, records[i].key.in, i + 1)
  BY <1>1 DEF NextKey, Is
<1> QED
  BY <1>4, <1>5 DEF Key

\* Rows found stay found.
LEMMA VerdictGrows ==
    ASSUME NEW R \in Seq(Records), NEW Q \in Seq(Records),
           \A i \in DOMAIN R : i \in DOMAIN Q /\ Q[i] = R[i], NEW p, Verdict(R, p)
    PROVE  Verdict(Q, p)
  BY DEF Verdict

\* The chain folds a new record behind the ones it has.
LEMMA FoldAppend ==
    ASSUME records \in Seq(Records), approvals \in Seq(Approvals), Ordered(records), FoldLinks,
           NEW r \in Records, r.pred = ChainLength, Extends(records, r),
           approvals # <<>> => RecordsOf("vale_verify", "succeeded") # {},
           records' = Append(records, r), Ordered(records'), approvals' = approvals
    PROVE  FoldLinks'
<1>1. /\ records' \in Seq(Records) /\ Len(records) \in Nat /\ Len(records') = Len(records) + 1
      /\ DOMAIN records = 1..Len(records) /\ DOMAIN records' = 1..(Len(records) + 1)
      /\ \A i \in DOMAIN records : i \in DOMAIN records' /\ records'[i] = records[i]
      /\ records'[Len(records) + 1] = r
      /\ \A i \in DOMAIN records' : i \in DOMAIN records \/ i = Len(records) + 1
  BY Appended
<1>2. Len(approvals) \in Nat /\ DOMAIN approvals = 1..Len(approvals)
  OBVIOUS
<1>3. ASSUME NEW v \in DOMAIN records, Is(records[v], "vale_verify", "succeeded")
      PROVE  FoldLinks'
  <2>1. ValeIndex = v
    BY <1>3, SoleSuccess DEF ValeIndex
  <2>2. ValeIndex' = v
    <3>1. v \in DOMAIN records' /\ Is(records'[v], "vale_verify", "succeeded")
      BY <1>1, <1>3
    <3>2. RecordsOf("vale_verify", "succeeded")' = {v}
      <4>1. ASSUME NEW j \in RecordsOf("vale_verify", "succeeded")'
            PROVE  j = v
        <5>1. /\ j \in DOMAIN records' /\ records'[j].key.node = "vale_verify"
              /\ records'[j].status = "succeeded"
          BY <4>1 DEF RecordsOf
        <5>2. Rank(records'[v].key) = Rank(records'[j].key)
          BY <1>1, <3>1, <5>1, RowType, NodeRank DEF Is
        <5>3. Ends(records'[v]) /\ Ends(records'[j])
          BY <3>1, <5>1 DEF Is, Ends
        <5> QED
          BY <1>1, <3>1, <5>1, <5>2, <5>3, OneEnd
      <4>2. v \in RecordsOf("vale_verify", "succeeded")'
        BY <3>1 DEF RecordsOf, Is
      <4> QED
        BY <4>1, <4>2
    <3>3. v \in Nat
      BY <1>1
    <3> QED
      BY <3>2, <3>3, FirstOfOne DEF ValeIndex
  <2>3. ASSUME NEW i \in DOMAIN records'
        PROVE  records'[i].pred = ChainBefore(i)'
    <3>1. ChainBefore(i)' = (IF v # 0 /\ v < i THEN i + Len(approvals) ELSE i) - 1
      BY <2>2 DEF ChainBefore, ChainAt
    <3>2. CASE i \in DOMAIN records
      <4>1. records[i].pred = (IF v # 0 /\ v < i THEN i + Len(approvals) ELSE i) - 1
        BY <2>1, <3>2 DEF FoldLinks, ChainBefore, ChainAt
      <4> QED
        BY <1>1, <3>1, <3>2, <4>1
    <3>3. CASE i = Len(records) + 1
      <4>1. v # 0 /\ v < i
        BY <1>1, <3>3
      <4>2. records'[i].pred = Len(records) + Len(approvals)
        BY <1>1, <3>3 DEF ChainLength
      <4> QED
        BY <1>1, <1>2, <3>1, <3>3, <4>1, <4>2
    <3> QED
      BY <1>1, <3>2, <3>3
  <2>4. ASSUME NEW k \in DOMAIN approvals'
        PROVE  ValeIndex' # 0 /\ approvals'[k].pred = ValeIndex' + k - 1
    BY <2>1, <2>2 DEF FoldLinks
  <2> QED
    BY <2>3, <2>4 DEF FoldLinks
<1>4. CASE RecordsOf("vale_verify", "succeeded") = {}
  <2>1. approvals = <<>> /\ ValeIndex = 0
    BY <1>4 DEF ValeIndex, First
  <2>2. ValeIndex' \in {0, Len(records) + 1}
    <3>1. RecordsOf("vale_verify", "succeeded")' \subseteq {Len(records) + 1}
      BY <1>1, <1>4 DEF RecordsOf
    <3>2. CASE RecordsOf("vale_verify", "succeeded")' = {}
      BY <3>2 DEF ValeIndex, First
    <3>3. CASE RecordsOf("vale_verify", "succeeded")' = {Len(records) + 1}
      <4>1. Len(records) + 1 \in Nat
        BY <1>1
      <4> QED
        BY <3>3, <4>1, FirstOfOne DEF ValeIndex
    <3> QED
      BY <3>1, <3>2, <3>3
  <2>3. ASSUME NEW i \in DOMAIN records'
        PROVE  records'[i].pred = ChainBefore(i)'
    <3>1. ~(ValeIndex' # 0 /\ ValeIndex' < i)
      BY <1>1, <2>2
    <3>2. ChainBefore(i)' = i - 1
      BY <3>1 DEF ChainBefore, ChainAt
    <3>3. CASE i \in DOMAIN records
      <4>1. records[i].pred = i - 1
        BY <2>1, <3>3 DEF FoldLinks, ChainBefore, ChainAt
      <4> QED
        BY <1>1, <3>2, <3>3, <4>1
    <3>4. CASE i = Len(records) + 1
      <4>1. records'[i].pred = Len(records) + 0
        BY <1>1, <2>1, <3>4 DEF ChainLength
      <4> QED
        BY <1>1, <3>2, <3>4, <4>1
    <3> QED
      BY <1>1, <3>3, <3>4
  <2>4. DOMAIN approvals' = {}
    BY <2>1
  <2> QED
    BY <2>3, <2>4 DEF FoldLinks
<1> QED
  BY <1>3, <1>4 DEF RecordsOf, Is

\* Only an intent of prisma_repair is charged.
LEMMA CallsAppend ==
    ASSUME records \in Seq(Records), NEW r \in Records, records' = Append(records, r)
    PROVE  /\ Is(r, "prisma_repair", "started") => ModelCalls' = ModelCalls + 1
           /\ ~Is(r, "prisma_repair", "started") => ModelCalls' = ModelCalls
           /\ ModelCalls \in Nat
<1>1. /\ Len(records) \in Nat
      /\ DOMAIN records = 1..Len(records) /\ DOMAIN records' = 1..(Len(records) + 1)
      /\ \A i \in DOMAIN records : i \in DOMAIN records' /\ records'[i] = records[i]
      /\ records'[Len(records) + 1] = r
      /\ \A i \in DOMAIN records' : i \in DOMAIN records \/ i = Len(records) + 1
  BY Appended
<1>2. PICK S, T, x : /\ S = RecordsOf("prisma_repair", "started")
                     /\ T = RecordsOf("prisma_repair", "started")' /\ x = Len(records) + 1
  OBVIOUS
<1>3. IsFiniteSet(S) /\ Cardinality(S) \in Nat /\ x \notin S
  <2>1. IsFiniteSet(S) /\ Cardinality(S) \in Nat
    BY <1>2, RecordsOfFinite
  <2>2. x \notin S
    BY <1>1, <1>2 DEF RecordsOf
  <2> QED
    BY <2>1, <2>2
<1>4. CASE Is(r, "prisma_repair", "started")
  <2>1. T = S \cup {x}
    BY <1>1, <1>2, <1>4 DEF RecordsOf, Is
  <2>2. Cardinality(T) = Cardinality(S) + 1
    BY <1>3, <2>1, FS_AddElement
  <2> QED
    BY <1>2, <1>3, <1>4, <2>2 DEF ModelCalls
<1>5. CASE ~Is(r, "prisma_repair", "started")
  <2>1. T = S
    BY <1>1, <1>2, <1>5 DEF RecordsOf, Is
  <2> QED
    BY <1>2, <1>3, <1>5, <2>1 DEF ModelCalls
<1> QED
  BY <1>4, <1>5

Row(n, s, o) == [key |-> KeyOf(n), status |-> s, out |-> o, pred |-> ChainLength]

\* What a row that a driver appends says.
LEMMA RowFacts ==
    ASSUME IndInv, NEW n \in Nodes, pc = n, NEW s \in {"started", "succeeded", "failed"},
           NEW o \in Values
    PROVE  /\ Row(n, s, o) \in Records
           /\ Row(n, s, o).key = KeyOf(n) /\ Row(n, s, o).key.node = n
           /\ Row(n, s, o).status = s /\ Row(n, s, o).out = o
           /\ Row(n, s, o).pred = ChainLength
           /\ n = "prisma_validate" => Row(n, s, o).key.in = payload
           /\ n = "prisma_repair" => Row(n, s, o).key.attempt = attempt
<1>1. KeyOf(n) \in Keys /\ ChainLength \in Nat
  BY KeyType, CountTypes DEF IndInv
<1>2. Row(n, s, o) \in Records
  BY <1>1 DEF Row, Records
<1> QED
  BY <1>2 DEF Row, KeyOf

\* Journal.begin, succeed and fail append to the path, and the books agree.
LEMMA AppendDurable ==
    ASSUME IndInv, Durable, NEW n \in Nodes, pc = n,
           NEW s \in {"started", "succeeded", "failed"}, NEW o \in Values,
           AppendRecord(n, s, o), Extends(records, Row(n, s, o)),
           n = "prisma_validate" /\ s = "succeeded" => Judged(payload),
           s = "succeeded" /\ HasSlot(n) => ckpt.state[SlotOf(n)] = o,
           s = "succeeded" /\ n \in EffectNodes => [key |-> KeyOf(n), answer |-> o] \in effects,
           n = "prisma_repair" /\ s = "started" =>
             ModelCalls < MaxRepairs /\ ModelCalls + 1 <= budget,
           UNCHANGED <<approvals, ckpt, result, world>>
    PROVE  Durable' /\ Path(records)
<1>0. PICK r \in Records : r = Row(n, s, o)
  BY RowFacts
<1>1. /\ r.key = KeyOf(n) /\ r.key.node = n /\ r.status = s /\ r.out = o /\ r.pred = ChainLength
      /\ n = "prisma_validate" => r.key.in = payload
      /\ n = "prisma_repair" => r.key.attempt = attempt
      /\ Extends(records, r)
  BY <1>0, RowFacts
<1>2. /\ records \in Seq(Records) /\ records' = Append(records, r) /\ approvals \in Seq(Approvals)
      /\ Path(records) /\ Ordered(records)
      /\ UNCHANGED <<approvals, ckpt, result, effects, entered, asked, decided, budget>>
  BY <1>0 DEF IndInv, TypeOK, AppendRecord, Row, Durable, Path, world
<1>3. /\ records' \in Seq(Records) /\ Len(records) \in Nat /\ Len(records') = Len(records) + 1
      /\ \A i \in DOMAIN records : i \in DOMAIN records' /\ records'[i] = records[i]
      /\ records'[Len(records) + 1] = r
      /\ \A i \in DOMAIN records' : i \in DOMAIN records \/ i = Len(records) + 1
  BY <1>2, Appended
<1>4. Path(records')
  <2>1. Is(r, "prisma_validate", "succeeded") => Judged(r.key.in)
    BY <1>1 DEF Is
  <2> QED
    BY <1>1, <1>2, <2>1, PathGrows
<1>5. /\ ckpt # None /\ ckpt \in Ckpts
      /\ n \in EffectNodes => Sealed
      /\ ~Sealed => n \notin EffectNodes
      /\ Sealed => n \in EffectNodes
      /\ Sealed' = Sealed
  BY <1>2, NodeFacts DEF Sealed
<1>6. ModelCalls \in Nat /\ ModelCalls' \in Nat
      /\ (ModelCalls' = ModelCalls \/ (n = "prisma_repair" /\ s = "started"
                                        /\ ModelCalls' = ModelCalls + 1))
  BY <1>1, <1>2, CallsAppend DEF Is
<1>7. \A m, t : RecordsOf(m, t) \subseteq RecordsOf(m, t)'
  BY <1>3 DEF RecordsOf
<1>8. Books'
  <2>1. /\ ckpt.chain <= ChainLength /\ ckpt.sequence <= Len(records) /\ Holds(ckpt.state)
        /\ Backed(ckpt.phase) /\ FoldLinks
    BY <1>5 DEF Durable, Books
  <2>2. ckpt.chain \in Nat /\ ckpt.sequence \in Nat /\ Len(approvals) \in Nat
    BY <1>2, <1>5 DEF Ckpts
  <2>3. ckpt'.chain <= ChainLength' /\ ckpt'.sequence <= Len(records')
    BY <1>2, <1>3, <2>1, <2>2 DEF ChainLength
  <2>4. Holds(ckpt.state)'
    <3> SUFFICES ASSUME NEW i \in DOMAIN records', records'[i].status = "succeeded",
                        HasSlot(records'[i].key.node)
                 PROVE  ckpt'.state[<<records'[i].key.node,
                          IF records'[i].key.node = "prisma_repair" THEN records'[i].key.attempt
                          ELSE 0>>] = records'[i].out
      BY DEF Holds
    <3>1. CASE i \in DOMAIN records
      BY <1>2, <1>3, <2>1, <3>1 DEF Holds
    <3>2. CASE i = Len(records) + 1
      <4>1. records'[i] = r
        BY <1>3, <3>2
      <4>2. ckpt.state[SlotOf(n)] = o
        BY <1>1, <4>1
      <4> QED
        BY <1>1, <1>2, <4>1, <4>2 DEF SlotOf
    <3> QED
      BY <1>3, <3>1, <3>2
  <2>5. Backed(ckpt.phase)'
    BY <1>2, <1>7, <2>1 DEF Backed
  <2>6. FoldLinks'
    <3>1. approvals # <<>> => RecordsOf("vale_verify", "succeeded") # {}
      BY DEF Durable, Agreed, Verdict, Is, RecordsOf
    <3>2. Ordered(records')
      BY <1>4 DEF Path
    <3> QED
      BY <1>1, <1>2, <2>1, <3>1, <3>2, FoldAppend
  <2>7. Sealed => ModelCalls' = ModelCalls
    BY <1>5, <1>6 DEF EffectNodes
  <2> QED
    BY <1>2, <1>5, <2>3, <2>4, <2>5, <2>6, <2>7 DEF Durable, Books
<1>9. Agreed'
  <2>1. ASSUME approvals' # <<>>
        PROVE  Verdict(records', approvals'[1].proposal)
    <3>1. PICK p : p = approvals[1].proposal
      OBVIOUS
    <3>2. Verdict(records, p)
      BY <1>2, <2>1, <3>1 DEF Durable, Agreed
    <3>3. Verdict(records', p)
      BY <1>2, <1>3, <3>2, VerdictGrows
    <3> QED
      BY <1>2, <3>1, <3>3
  <2>2. ~Sealed' => Len(approvals') <= 1
    BY <1>2, <1>5 DEF Durable, Agreed
  <2>3. ~Sealed' => \A i \in DOMAIN records' : records'[i].key.node \notin EffectNodes
    BY <1>1, <1>3, <1>5 DEF Durable, Agreed
  <2> QED
    BY <2>1, <2>2, <2>3 DEF Agreed
<1>10. Asked'
  <2>1. ASSUME NEW p, Verdict(records, p), ~Sealed
        PROVE  FALSE
    <3>1. r.key.node = "flow_dispatch"
      BY <1>1, <1>2, <2>1, NothingAfterVerdict DEF Durable
    <3> QED
      BY <1>1, <1>5, <2>1, <3>1 DEF EffectNodes
  <2>2. approvals = <<>> => ~Sealed
    BY DEF IndInv, Consent
  <2>3. ~(asked["simulation"] # None /\ approvals = <<>>)
    BY <2>1, <2>2 DEF Durable, Asked, Pending
  <2>4. asked["production"] # None => approvals # <<>> /\ Sealed
    BY <2>1 DEF Durable, Asked, Pending
  <2> QED
    BY <1>2, <1>5, <2>3, <2>4 DEF Durable, Asked
<1>11. Counts'
  <2>1. entered \in Nat /\ MaxRepairs \in Nat /\ budget \in Nat
    BY BudgetAssumption DEF IndInv, TypeOK
  <2> QED
    BY <1>2, <1>6, <2>1 DEF Durable, Counts
<1>12. Done'
  <2>1. \A e \in effects' : e.key.node \in EffectNodes /\ Started(e.key)'
    BY <1>2, <1>3 DEF Durable, Done, Started
  <2>2. ASSUME NEW i \in DOMAIN records', records'[i].key.node \in EffectNodes,
               records'[i].status = "succeeded"
        PROVE  [key |-> records'[i].key, answer |-> records'[i].out] \in effects'
    <3>1. CASE i \in DOMAIN records
      BY <1>2, <1>3, <2>2, <3>1 DEF Durable, Done
    <3>2. CASE i = Len(records) + 1
      BY <1>1, <1>2, <1>3, <2>2, <3>2
    <3> QED
      BY <1>3, <3>1, <3>2
  <2>3. result' # None =>
         /\ Sealed' /\ result'.proposal = ckpt'.seal.proposal
         /\ \E i \in DOMAIN records' :
              Is(records'[i], "forge_certify", "succeeded")
                /\ records'[i].out = result'.certificate
    BY <1>2, <1>3, <1>5 DEF Durable, Done
  <2> QED
    BY <2>1, <2>2, <2>3 DEF Done
<1> QED
  BY <1>2, <1>4, <1>8, <1>9, <1>10, <1>11, <1>12 DEF Durable

-----------------------------------------------------------------------------
\* What the next state shares when neither journal nor approvals grew.
LEMMA SameJournal ==
    ASSUME UNCHANGED <<records, approvals>>
    PROVE  /\ ChainLength' = ChainLength /\ ModelCalls' = ModelCalls /\ LedgerChain' = LedgerChain
           /\ FoldLinks' = FoldLinks
           /\ \A n, s : RecordsOf(n, s)' = RecordsOf(n, s)
           /\ \A k : Started(k)' = Started(k)
           /\ \A k : Terminals(k)' = Terminals(k)
           /\ \A st : Holds(st) => Holds(st)'
           /\ \A ph : Backed(ph) => Backed(ph)'
           /\ \A q : Pending(q) => Pending(q)'
<1>1. \A n, s : RecordsOf(n, s)' = RecordsOf(n, s)
  BY DEF RecordsOf
<1>2. ValeIndex' = ValeIndex
  BY <1>1 DEF ValeIndex
<1>3. \A i : ChainAt(i)' = ChainAt(i)
  BY <1>2 DEF ChainAt
<1>4. FoldLinks' = FoldLinks
  BY <1>2, <1>3 DEF FoldLinks, ChainBefore
<1>5. ChainLength' = ChainLength /\ ModelCalls' = ModelCalls /\ LedgerChain' = LedgerChain
  BY <1>1, <1>3 DEF ChainLength, ModelCalls, LedgerChain
<1>6. /\ \A k : Started(k)' = Started(k)
      /\ \A k : Terminals(k)' = Terminals(k)
  BY DEF Started, Terminals
<1>7. \A st : Holds(st) => Holds(st)'
  BY DEF Holds
<1>8. \A ph : Backed(ph) => Backed(ph)'
  BY <1>1 DEF Backed
<1>9. \A q : Pending(q) => Pending(q)'
  BY <1>5 DEF Pending, Verdict
<1> QED
  BY <1>1, <1>4, <1>5, <1>6, <1>7, <1>8, <1>9

\* The checkpoint Journal._write stores.
Wrote(phase, state) ==
    ckpt' = [ckpt EXCEPT !.phase = phase, !.chain = ChainLength, !.sequence = Len(records),
                         !.model_calls = ModelCalls, !.state = state]

\* A run never refuses to advance: its phase does not fall, its journal does
\* not shrink, and a sealed run has charged nothing since.
LEMMA AdvanceGoes ==
    ASSUME IndInv, Durable, ckpt # None, NEW phase \in Phases, phase >= ckpt.phase, NEW state,
           NEW cont, Advance(phase, state, cont)
    PROVE  cont /\ Wrote(phase, state)
<1>1. ckpt \in Ckpts /\ Len(records) \in Nat
  BY DEF IndInv, TypeOK
<1>2. ckpt.phase \in Int /\ phase \in Int /\ ckpt.sequence \in Nat
  BY <1>1 DEF Ckpts, Phases
<1>3. ckpt.sequence <= Len(records) /\ (Sealed => ckpt.model_calls = ModelCalls)
  BY DEF Durable, Books
<1>4. AdvanceRefusal(phase) = "ok"
  BY <1>1, <1>2, <1>3 DEF AdvanceRefusal
<1> QED
  BY <1>4 DEF Advance, Wrote

\* What a write leaves as it was.
LEMMA WroteFields ==
    ASSUME ckpt \in Ckpts, NEW phase \in Phases, NEW state \in [Slots -> Values],
           ModelCalls \in Nat, ChainLength \in Nat, Len(records) \in Nat,
           Wrote(phase, state), phase >= Sealing <=> ckpt.phase >= Sealing, ckpt # None
    PROVE  /\ ckpt' \in Ckpts /\ ckpt' # None /\ ckpt'.seal = ckpt.seal /\ ckpt'.state = state
           /\ ckpt'.phase = phase /\ ckpt'.chain = ChainLength /\ ckpt'.sequence = Len(records)
           /\ ckpt'.model_calls = ModelCalls
           /\ ckpt'.model_calls_at_seal = ckpt.model_calls_at_seal
           /\ Sealed' = Sealed
<1>1. /\ ckpt' \in Ckpts /\ ckpt'.seal = ckpt.seal /\ ckpt'.state = state
      /\ ckpt'.phase = phase /\ ckpt'.chain = ChainLength /\ ckpt'.sequence = Len(records)
      /\ ckpt'.model_calls = ModelCalls
      /\ ckpt'.model_calls_at_seal = ckpt.model_calls_at_seal
  BY DEF Wrote, Ckpts
<1>2. ckpt' # None
  BY <1>1, NoneAssumption
<1> QED
  BY <1>1, <1>2 DEF Sealed

\* Everything but the checkpoint and the process stands still.
Still == UNCHANGED <<records, approvals, result, effects, entered, asked, decided, budget>>

\* A step that writes at most the checkpoint keeps the durable invariant when
\* what it writes agrees with the journal.
LEMMA StillDurable ==
    ASSUME IndInv, Durable, Still, ckpt # None, ckpt' # None, Sealed' = Sealed,
           ckpt'.seal = ckpt.seal,
           ckpt'.chain <= ChainLength, ckpt'.sequence <= Len(records),
           Sealed => /\ ckpt'.model_calls = ModelCalls
                     /\ ckpt'.model_calls_at_seal = ckpt.model_calls_at_seal,
           Holds(ckpt'.state), Backed(ckpt'.phase)
    PROVE  Durable'
<1>0. /\ UNCHANGED <<records, approvals>>
      /\ UNCHANGED <<result, effects, entered, asked, decided, budget>>
  BY DEF Still
<1>1. /\ ChainLength' = ChainLength /\ ModelCalls' = ModelCalls
      /\ FoldLinks' = FoldLinks
      /\ \A k : Started(k)' = Started(k)
      /\ \A q : Pending(q) => Pending(q)'
  BY <1>0, SameJournal
<1>2. Path(records')
  BY <1>0 DEF Durable
<1>3. Books'
  <2>1. Holds(ckpt.state)'
    BY <1>0 DEF Holds
  <2>2. Backed(ckpt.phase)'
    BY <1>0 DEF Backed, RecordsOf
  <2> QED
    BY <1>0, <1>1, <2>1, <2>2 DEF Durable, Books
<1>4. Agreed'
  BY <1>0 DEF Durable, Agreed
<1>5. Asked'
  BY <1>0, <1>1 DEF Durable, Asked
<1>6. Counts'
  BY <1>0, <1>1 DEF Durable, Counts
<1>7. Done'
  BY <1>0, <1>1 DEF Durable, Done
<1> QED
  BY <1>2, <1>3, <1>4, <1>5, <1>6, <1>7 DEF Durable

\* So does a write of a phase the journal backs with outputs it holds.
LEMMA WroteDurable ==
    ASSUME IndInv, Durable, Still, ckpt # None, NEW phase \in Phases,
           NEW state \in [Slots -> Values], Wrote(phase, state),
           phase >= Sealing <=> ckpt.phase >= Sealing, Holds(state), Backed(phase)
    PROVE  /\ Durable' /\ ckpt'.state = state /\ ckpt'.seal = ckpt.seal /\ Sealed' = Sealed
           /\ ckpt'.phase = phase
<1>1. ckpt \in Ckpts /\ ModelCalls \in Nat /\ ChainLength \in Nat /\ Len(records) \in Nat
  BY CountTypes DEF IndInv, TypeOK
<1>2. /\ ckpt' \in Ckpts /\ ckpt' # None /\ ckpt'.seal = ckpt.seal /\ ckpt'.state = state
      /\ ckpt'.phase = phase /\ ckpt'.chain = ChainLength /\ ckpt'.sequence = Len(records)
      /\ ckpt'.model_calls = ModelCalls
      /\ ckpt'.model_calls_at_seal = ckpt.model_calls_at_seal
      /\ Sealed' = Sealed
  BY <1>1, WroteFields
<1>3. ckpt'.chain <= ChainLength /\ ckpt'.sequence <= Len(records)
  BY <1>1, <1>2
<1> QED
  BY <1>2, <1>3, StillDurable

\* So does a step that writes nothing.
LEMMA NoWriteDurable ==
    ASSUME IndInv, Durable, Still, ckpt' = ckpt
    PROVE  Durable'
<1>1. CASE ckpt # None
  <2>1. Sealed' = Sealed
    BY DEF Sealed
  <2>2. /\ ckpt.chain <= ChainLength /\ ckpt.sequence <= Len(records) /\ Holds(ckpt.state)
        /\ Backed(ckpt.phase) /\ (Sealed => ckpt.model_calls = ModelCalls)
    BY <1>1 DEF Durable, Books
  <2> QED
    BY <1>1, <2>1, <2>2, StillDurable
<1>2. CASE ckpt = None
  <2>1. ~Sealed /\ ~Sealed'
    BY <1>2 DEF Sealed
  <2>2. UNCHANGED <<records, approvals>>
    BY DEF Still
  <2>3. /\ ChainLength' = ChainLength /\ ModelCalls' = ModelCalls /\ FoldLinks' = FoldLinks
        /\ \A k : Started(k)' = Started(k)
        /\ \A q : Pending(q) => Pending(q)'
    BY <2>2, SameJournal
  <2>4. Path(records') /\ Books' /\ Agreed'
    BY <1>2, <2>1, <2>2, <2>3 DEF Durable, Books, Agreed
  <2>5. Asked' /\ Counts'
    BY <2>1, <2>3 DEF Durable, Asked, Counts, Still
  <2>6. Done'
    BY <2>1, <2>2, <2>3 DEF Durable, Done, Still
  <2> QED
    BY <2>4, <2>5, <2>6 DEF Durable
<1> QED
  BY <1>1, <1>2

-----------------------------------------------------------------------------
\* A success backs its own phase and, by what its key rests on, all before it.
LEMMA BackedBySuccess ==
    ASSUME IndInv, Durable, NEW n \in PureNodes \cup EffectNodes,
           RecordsOf(n, "succeeded") # {}, n \in EffectNodes => Sealed
    PROVE  Backed(PhaseOf[n])
<1>1. \A i \in DOMAIN records : Root(records, records[i].key)
  BY DEF Durable, Path
<1>2. \A m : RecordsOf(m, "succeeded") # {} <=>
               \E i \in DOMAIN records : Is(records[i], m, "succeeded")
  BY DEF RecordsOf, Is
<1>3. /\ RecordsOf("deterministic_policy", "succeeded") # {} =>
           RecordsOf("prisma_validate", "succeeded") # {}
      /\ RecordsOf("vale_verify", "succeeded") # {} =>
           RecordsOf("deterministic_policy", "succeeded") # {}
      /\ RecordsOf("flow_dispatch", "succeeded") # {} =>
           RecordsOf("vale_verify", "succeeded") # {}
      /\ RecordsOf("ledger_reconcile", "succeeded") # {} =>
           RecordsOf("flow_dispatch", "succeeded") # {}
      /\ RecordsOf("forge_certify", "succeeded") # {} =>
           RecordsOf("ledger_reconcile", "succeeded") # {}
  <2>1. ASSUME NEW i \in DOMAIN records, Is(records[i], "deterministic_policy", "succeeded")
        PROVE  RecordsOf("prisma_validate", "succeeded") # {}
    BY <1>1, <1>2, <2>1 DEF Root, Is
  <2>2. ASSUME NEW i \in DOMAIN records, Is(records[i], "vale_verify", "succeeded")
        PROVE  RecordsOf("deterministic_policy", "succeeded") # {}
    BY <1>1, <1>2, <2>2 DEF Root, Is
  <2>3. ASSUME NEW i \in DOMAIN records, Is(records[i], "flow_dispatch", "succeeded")
        PROVE  RecordsOf("vale_verify", "succeeded") # {}
    BY <1>1, <1>2, <2>3 DEF Root, Is
  <2>4. ASSUME NEW i \in DOMAIN records, Is(records[i], "ledger_reconcile", "succeeded")
        PROVE  RecordsOf("flow_dispatch", "succeeded") # {}
    BY <1>1, <1>2, <2>4 DEF Root, Is
  <2>5. ASSUME NEW i \in DOMAIN records, Is(records[i], "forge_certify", "succeeded")
        PROVE  RecordsOf("ledger_reconcile", "succeeded") # {}
    BY <1>1, <1>2, <2>5 DEF Root, Is
  <2> QED
    BY <1>2, <2>1, <2>2, <2>3, <2>4, <2>5
<1>4. n \in EffectNodes => approvals # <<>>
  BY DEF IndInv, Consent
<1>5. \A m \in PureNodes \cup EffectNodes :
        PhaseOf[n] >= PhaseOf[m] => RecordsOf(m, "succeeded") # {}
  BY <1>3 DEF PhaseOf, PureNodes, EffectNodes
<1>6. PhaseOf[n] >= PhaseOf["simulation"] => n \in EffectNodes
  BY DEF PhaseOf, PureNodes, EffectNodes
<1> QED
  BY <1>4, <1>5, <1>6 DEF Backed

\* No record ranks above the last.
LEMMA LastIsHighest ==
    ASSUME NEW R \in Seq(Records), Ordered(R), NEW i \in DOMAIN R
    PROVE  Rank(R[i].key) <= Rank(R[Len(R)].key) /\ Len(R) \in DOMAIN R
<1>1. /\ Rank(R[i].key) \in Int /\ i \in Nat /\ 1 <= i /\ i <= Len(R) /\ Len(R) \in Nat
      /\ Len(R) \in DOMAIN R
  BY RowType
<1>2. CASE i = Len(R)
  BY <1>1, <1>2
<1>3. CASE i < Len(R)
  BY <1>1, <1>3 DEF Ordered
<1> QED
  BY <1>1, <1>2, <1>3

\* The checkpoint is never ahead of the node whose success was journaled last.
LEMMA PhaseNotAhead ==
    ASSUME IndInv, Durable, ckpt # None, NEW n \in PureNodes \cup EffectNodes,
           records # <<>>, Is(records[Len(records)], n, "succeeded"),
           n = "vale_verify" => approvals = <<>>,
           n \in PureNodes => ~Sealed
    PROVE  ckpt.phase <= PhaseOf[n]
<1> SUFFICES ASSUME ~(ckpt.phase <= PhaseOf[n]) PROVE FALSE
  OBVIOUS
<1>1. /\ ckpt.phase \in 0..8 /\ Backed(ckpt.phase) /\ records \in Seq(Records)
      /\ Ordered(records)
  BY DEF IndInv, TypeOK, Ckpts, Phases, Durable, Books, Path
<1>2. ASSUME NEW m \in PureNodes \cup EffectNodes, ckpt.phase >= PhaseOf[m]
      PROVE  \E k \in Keys : k.node = m /\ Rank(k) <= Rank(records[Len(records)].key)
  <2>1. PICK i \in DOMAIN records : records[i].key.node = m
    BY <1>1, <1>2 DEF Backed, RecordsOf
  <2> QED
    BY <1>1, <2>1, LastIsHighest, RowType
<1>3. PICK l : l = records[Len(records)].key
  OBVIOUS
<1>4. l.node = n /\ l.attempt \in 0..3
  <2>1. Len(records) \in DOMAIN records
    BY <1>1
  <2>2. l.attempt \in 0..MaxRepairs
    BY <1>1, <1>3, <2>1, RowType
  <2> QED
    BY <1>3, <2>2, BudgetAssumption DEF Is
<1>5. CASE n = "prisma_validate"
  <2>1. ckpt.phase >= PhaseOf["deterministic_policy"]
    BY <1>1, <1>5 DEF PhaseOf
  <2>2. PICK k \in Keys : k.node = "deterministic_policy" /\ Rank(k) <= Rank(l)
    BY <1>2, <1>3, <2>1 DEF PureNodes
  <2> QED
    BY <1>4, <1>5, <2>2 DEF Rank
<1>6. CASE n = "deterministic_policy"
  <2>1. ckpt.phase >= PhaseOf["vale_verify"]
    BY <1>1, <1>6 DEF PhaseOf
  <2>2. PICK k \in Keys : k.node = "vale_verify" /\ Rank(k) <= Rank(l)
    BY <1>2, <1>3, <2>1 DEF PureNodes
  <2> QED
    BY <1>4, <1>6, <2>2 DEF Rank
<1>7. CASE n = "vale_verify"
  <2>1. ckpt.phase >= PhaseOf["simulation"]
    BY <1>1, <1>7 DEF PhaseOf
  <2> QED
    BY <1>1, <1>7, <2>1 DEF Backed
<1>8. CASE n = "flow_dispatch"
  <2>1. ckpt.phase >= PhaseOf["ledger_reconcile"]
    BY <1>1, <1>8 DEF PhaseOf
  <2>2. PICK k \in Keys : k.node = "ledger_reconcile" /\ Rank(k) <= Rank(l)
    BY <1>2, <1>3, <2>1 DEF EffectNodes
  <2> QED
    BY <1>4, <1>8, <2>2 DEF Rank
<1>9. CASE n = "ledger_reconcile"
  <2>1. ckpt.phase >= PhaseOf["forge_certify"]
    BY <1>1, <1>9 DEF PhaseOf
  <2>2. PICK k \in Keys : k.node = "forge_certify" /\ Rank(k) <= Rank(l)
    BY <1>2, <1>3, <2>1 DEF EffectNodes
  <2> QED
    BY <1>4, <1>9, <2>2 DEF Rank
<1>10. CASE n = "forge_certify"
  BY <1>1, <1>10 DEF PhaseOf
<1> QED
  BY <1>5, <1>6, <1>7, <1>8, <1>9, <1>10 DEF PureNodes, EffectNodes

-----------------------------------------------------------------------------
(***************************************************************************)
(* Where the walk goes.                                                    *)
(***************************************************************************)
Corrupt == {"CHAIN_CORRUPTION", "STATE_CORRUPTION", "POST_APPROVAL_MODEL_CALL",
            "APPROVAL_MISMATCH"}

\* Out of execute there is nothing to say, but why.
LEMMA LeftWalk ==
    ASSUME Left, outcome' \notin Corrupt
    PROVE  Walk'
<1>1. pc' \notin Nodes /\ pc' \notin Stages /\ pc' # "finalise"
  BY DEF Left, Nodes, PureNodes, EffectNodes, Stages
<1>2. Position'
  BY <1>1 DEF Position, Nodes, PureNodes
<1>3. Answered'
  BY <1>1 DEF Answered, Nodes, PureNodes, EffectNodes
<1> QED
  BY <1>2, <1>3 DEF Walk, NoFalseCorruption, Corrupt

\* A key is what its parts are.
LEMMA KeyAt ==
    ASSUME NEW n \in Nodes
    PROVE  /\ n \in PureNodes \cup {"prisma_repair", "flow_dispatch"} => KeyOf(n).in = payload
           /\ n \in PureNodes \cup {"prisma_repair"} => KeyOf(n).at = 0
           /\ n \in {"flow_dispatch", "ledger_reconcile"} => KeyOf(n).at = ckpt.seal.production.pred
           /\ n \in {"prisma_validate", "prisma_repair"} => KeyOf(n).attempt = attempt
           /\ n \notin {"prisma_validate", "prisma_repair"} => KeyOf(n).attempt = 0
           /\ KeyOf(n).node = n
  BY DEF KeyOf, Nodes, PureNodes, EffectNodes

\* The ledger's record closes the chain the certificate is issued for.
LEMMA LedgerChainIs ==
    ASSUME IndInv, Durable, Sealed, NEW i \in DOMAIN records,
           Is(records[i], "ledger_reconcile", "succeeded")
    PROVE  LedgerChain = i + 2
<1>1. records \in Seq(Records) /\ Ordered(records) /\ Len(approvals) = 2
  BY DEF IndInv, TypeOK, Durable, Path, Consent
<1>2. First(RecordsOf("ledger_reconcile", "succeeded")) = i
  BY <1>1, SoleSuccess
<1>3. PICK f \in DOMAIN records : Is(records[f], "flow_dispatch", "succeeded")
  BY DEF Durable, Path, Root, Is
<1>4. PICK v \in DOMAIN records : Is(records[v], "vale_verify", "succeeded")
  BY <1>3 DEF Durable, Path, Root, Is
<1>5. ValeIndex = v
  BY <1>1, <1>4, SoleSuccess DEF ValeIndex
<1>6. Rank(records[v].key) = 11 /\ Rank(records[i].key) = 13
  BY <1>4 DEF Rank, Is
<1>7. i \in Nat /\ v \in Nat /\ v >= 1
  BY <1>1
<1>8. v < i
  BY <1>1, <1>6, <1>7 DEF Ordered
<1> QED
  BY <1>1, <1>2, <1>5, <1>7, <1>8 DEF LedgerChain, ChainAt

\* Nothing the walk reads has changed but where it stands.
Walks == /\ UNCHANGED <<records, approvals>>
         /\ ckpt'.state = ckpt.state /\ ckpt'.seal = ckpt.seal

\* A walk that enters node m at a key of the path.
LEMMA EnterWalk ==
    ASSUME NoFalseCorruption, Walks, outcome' \notin Corrupt, NEW m \in Nodes,
           pc' = m, step' = "enter", OnPath(records, KeyOf(m)')
    PROVE  Walk'
<1>1. KeyOf(pc)' = KeyOf(m)'
  BY DEF KeyOf
<1>2. m \notin Stages /\ m # "finalise"
  BY DEF Nodes, PureNodes, EffectNodes, Stages
<1>3. Position'
  <2>1. OnPath(records', KeyOf(pc)')
    BY <1>1 DEF Walks
  <2> QED
    BY <1>2, <2>1 DEF Position, Active
<1>4. Answered'
  BY DEF Answered
<1> QED
  BY <1>3, <1>4 DEF Walk, NoFalseCorruption, Corrupt

\* A node whose success the journal holds: the walk moves to the next key.
LEMMA ProceedWalk ==
    ASSUME IndInv, Durable, NoFalseCorruption, NEW n \in Nodes, pc = n, NEW v, Proceed(n, v),
           NEW i \in DOMAIN records, records[i].key = KeyOf(n), records[i].status = "succeeded",
           n = "prisma_repair" => v = records[i].out, Walks
    PROVE  Walk'
<1> USE DEF Walks
<1>0. /\ pc' = NextOf[n] /\ step' = "enter" /\ attempt' = attempt /\ outcome' = outcome
      /\ payload' = IF n = "prisma_repair" THEN v ELSE payload
      /\ outcome' \notin Corrupt
  BY DEF Proceed, Goto, NoFalseCorruption, Corrupt
<1>1. /\ records \in Seq(Records) /\ Linked(records)
      /\ Is(records[i], n, "succeeded") /\ Ends(records[i])
  BY KeyAt DEF IndInv, TypeOK, Durable, Path, Is, Ends
<1>2. n # "forge_certify" => OnPath(records, NextKey(records[i], i))
  BY <1>1, PathLeadsOn DEF Leads, Is
<1>3. PICK r, k : r = records[i] /\ k = records[i].key
  OBVIOUS
<1>4. r.key = k /\ k = KeyOf(n) /\ k.node = n /\ r.status = "succeeded"
  BY <1>1, <1>3 DEF Is
<1>5. CASE n = "prisma_validate"
  <2>1. KeyOf("deterministic_policy")' = Key("deterministic_policy", 0, payload, 0)
    BY <1>0, <1>5 DEF KeyOf, Key, EffectNodes
  <2>2. NextKey(r, i) = Key("deterministic_policy", 0, k.in, 0)
    BY <1>4, <1>5 DEF NextKey
  <2>3. k.in = payload
    BY <1>4, <1>5, KeyAt DEF PureNodes
  <2>4. pc' = "deterministic_policy" /\ "deterministic_policy" \in Nodes
    BY <1>0, <1>5 DEF NextOf, Nodes, PureNodes
  <2> QED
    BY <1>0, <1>2, <1>3, <1>5, <2>1, <2>2, <2>3, <2>4, EnterWalk
<1>6. CASE n = "prisma_repair"
  <2>1. KeyOf("prisma_validate")' = Key("prisma_validate", attempt, v, 0)
    BY <1>0, <1>6 DEF KeyOf, Key, EffectNodes
  <2>2. NextKey(r, i) = Key("prisma_validate", k.attempt, r.out, 0)
    BY <1>4, <1>6 DEF NextKey
  <2>3. k.attempt = attempt
    BY <1>4, <1>6, KeyAt
  <2>4. pc' = "prisma_validate" /\ "prisma_validate" \in Nodes
    BY <1>0, <1>6 DEF NextOf, Nodes, PureNodes
  <2> QED
    BY <1>0, <1>2, <1>3, <1>6, <2>1, <2>2, <2>3, <2>4, EnterWalk
<1>7. CASE n = "deterministic_policy"
  <2>1. KeyOf("vale_verify")' = Key("vale_verify", 0, payload, 0)
    BY <1>0, <1>7 DEF KeyOf, Key, EffectNodes
  <2>2. NextKey(r, i) = Key("vale_verify", 0, k.in, 0)
    BY <1>4, <1>7 DEF NextKey
  <2>3. k.in = payload
    BY <1>4, <1>7, KeyAt DEF PureNodes
  <2>4. pc' = "vale_verify" /\ "vale_verify" \in Nodes
    BY <1>0, <1>7 DEF NextOf, Nodes, PureNodes
  <2> QED
    BY <1>0, <1>2, <1>3, <1>7, <2>1, <2>2, <2>3, <2>4, EnterWalk
<1>8. CASE n = "vale_verify"
  <2>1. k.in = payload
    BY <1>4, <1>8, KeyAt DEF PureNodes
  <2>2. pc' = "simulation" /\ payload' = payload
    BY <1>0, <1>8 DEF NextOf
  <2>3. Verdict(records', payload')
    BY <1>1, <1>3, <1>8, <2>1, <2>2 DEF Verdict
  <2>4. Position'
    BY <1>0, <2>2, <2>3 DEF Position, Nodes, PureNodes, EffectNodes
  <2>5. Answered'
    BY <1>0 DEF Answered
  <2> QED
    BY <1>0, <2>4, <2>5 DEF Walk, NoFalseCorruption, Corrupt
<1>9. CASE n = "flow_dispatch"
  <2>1. KeyOf("ledger_reconcile")' = Key("ledger_reconcile", 0, ckpt.state[<<"flow_dispatch", 0>>],
                                         ckpt.seal.production.pred)
    BY <1>0, <1>9 DEF KeyOf, Key
  <2>2. NextKey(r, i) = Key("ledger_reconcile", 0, r.out, k.at)
    BY <1>4, <1>9 DEF NextKey
  <2>3. k.at = ckpt.seal.production.pred
    BY <1>4, <1>9, KeyAt
  <2>4. r.out = ckpt.state[<<"flow_dispatch", 0>>]
    <3>1. Holds(ckpt.state)
      BY <1>9, NodeFacts DEF Durable, Books, EffectNodes
    <3> QED
      BY <1>3, <1>4, <1>9, <3>1 DEF Holds, HasSlot
  <2>5. pc' = "ledger_reconcile" /\ "ledger_reconcile" \in Nodes
    BY <1>0, <1>9 DEF NextOf, Nodes, EffectNodes
  <2> QED
    BY <1>0, <1>2, <1>3, <1>9, <2>1, <2>2, <2>3, <2>4, <2>5, EnterWalk
<1>10. CASE n = "ledger_reconcile"
  <2>1. Sealed /\ ckpt # None
    BY <1>10, NodeFacts DEF EffectNodes
  <2>2. LedgerChain' = i + 2
    BY <1>1, <1>10, <2>1, LedgerChainIs, SameJournal
  <2>3. KeyOf("forge_certify")' = Key("forge_certify", 0, ckpt.state[<<"ledger_reconcile", 0>>],
                                      i + 2)
    BY <1>0, <1>10, <2>2 DEF KeyOf, Key
  <2>4. NextKey(r, i) = Key("forge_certify", 0, r.out, i + 2)
    BY <1>4, <1>10 DEF NextKey
  <2>5. r.out = ckpt.state[<<"ledger_reconcile", 0>>]
    <3>1. Holds(ckpt.state)
      BY <2>1 DEF Durable, Books
    <3> QED
      BY <1>3, <1>4, <1>10, <3>1 DEF Holds, HasSlot
  <2>6. pc' = "forge_certify" /\ "forge_certify" \in Nodes
    BY <1>0, <1>10 DEF NextOf, Nodes, EffectNodes
  <2> QED
    BY <1>0, <1>2, <1>3, <1>10, <2>3, <2>4, <2>5, <2>6, EnterWalk
<1>11. CASE n = "forge_certify"
  <2>1. pc' = "finalise"
    BY <1>0, <1>11 DEF NextOf
  <2>2. RecordsOf("forge_certify", "succeeded")' # {}
    BY <1>1, <1>11 DEF RecordsOf, Is
  <2>3. Position'
    BY <1>0, <2>1, <2>2 DEF Position, Nodes, PureNodes, EffectNodes, Stages
  <2>4. Answered'
    BY <1>0 DEF Answered
  <2> QED
    BY <1>0, <2>3, <2>4 DEF Walk, NoFalseCorruption, Corrupt
<1> QED
  BY <1>5, <1>6, <1>7, <1>8, <1>9, <1>10, <1>11 DEF Nodes, PureNodes, EffectNodes

\* A validation that failed leads to the repair of its payload; any other
\* failure leads out.
LEMMA RaiseWalk ==
    ASSUME IndInv, Durable, NoFalseCorruption, NEW n \in Nodes, pc = n, NEW code \in Codes,
           RaiseFrom(n, code), Walks,
           n = "prisma_validate" =>
             \E i \in DOMAIN records : records[i].key = KeyOf(n) /\ records[i].status = "failed"
    PROVE  Walk'
<1>1. CASE n = "prisma_validate" /\ attempt + 1 <= MaxRepairs
  <2>1. /\ pc' = "prisma_repair" /\ step' = "enter" /\ attempt' = attempt + 1
        /\ payload' = payload /\ outcome' = outcome
    BY <1>1 DEF RaiseFrom, Goto
  <2>2. PICK i \in DOMAIN records : records[i].key = KeyOf(n) /\ records[i].status = "failed"
    BY <1>1
  <2>3. /\ records[i].key.node = "prisma_validate" /\ records[i].key.attempt = attempt
        /\ records[i].key.in = payload
    BY <1>1, <2>2, KeyAt DEF PureNodes
  <2>4. attempt < MaxRepairs
    BY <1>1, BudgetAssumption DEF IndInv, TypeOK
  <2>5. OnPath(records, NextKey(records[i], i))
    BY <2>2, <2>3, <2>4, PathLeadsOn DEF IndInv, TypeOK, Durable, Path, Ends, Leads, Is
  <2>6. NextKey(records[i], i) = Key("prisma_repair", attempt + 1, payload, 0)
    BY <2>2, <2>3 DEF NextKey
  <2>7. KeyOf("prisma_repair")' = Key("prisma_repair", attempt + 1, payload, 0)
    BY <2>1 DEF KeyOf, Key
  <2>8. "prisma_repair" \in Nodes /\ outcome' \notin Corrupt
    BY <2>1 DEF Nodes, NoFalseCorruption, Corrupt
  <2> QED
    BY <2>1, <2>5, <2>6, <2>7, <2>8, EnterWalk
<1>2. CASE ~(n = "prisma_validate" /\ attempt + 1 <= MaxRepairs)
  <2>1. PICK c \in Codes \cup {"REPAIR_BUDGET_EXHAUSTED"} : Leave(c)
    BY <1>2 DEF RaiseFrom
  <2>2. Left /\ outcome' = c
    BY <2>1, LeaveLeft DEF Outcomes, Leave
  <2>3. c \notin Corrupt
    BY <2>1 DEF Codes, Corrupt
  <2> QED
    BY <2>2, <2>3, LeftWalk
<1> QED
  BY <1>1, <1>2

\* The key of the node being driven does not move while the node is driven:
\* what it is derived from is another node's output, or older than the node.
LEMMA KeyStays ==
    ASSUME NEW n \in Nodes, UNCHANGED <<attempt, payload>>, ckpt'.seal = ckpt.seal,
           \A m \in EffectNodes : m # n => ckpt'.state[<<m, 0>>] = ckpt.state[<<m, 0>>],
           n = "forge_certify" => LedgerChain' = LedgerChain
    PROVE  KeyOf(n)' = KeyOf(n)
<1>1. CASE n = "ledger_reconcile"
  <2>1. ckpt'.state[<<"flow_dispatch", 0>>] = ckpt.state[<<"flow_dispatch", 0>>]
    BY <1>1 DEF EffectNodes
  <2> QED
    BY <1>1, <2>1 DEF KeyOf
<1>2. CASE n = "forge_certify"
  <2>1. ckpt'.state[<<"ledger_reconcile", 0>>] = ckpt.state[<<"ledger_reconcile", 0>>]
    BY <1>2 DEF EffectNodes
  <2> QED
    BY <1>2, <2>1 DEF KeyOf
<1>3. CASE n \notin {"ledger_reconcile", "forge_certify"}
  BY <1>3 DEF KeyOf
<1> QED
  BY <1>1, <1>2, <1>3

\* The driver goes on inside its node.
LEMMA StayWalk ==
    ASSUME IndInv, Durable, NoFalseCorruption, NEW n \in Nodes, pc = n, NEW s \in Active,
           Continue(s), UNCHANGED records,
           KeyOf(n)' = KeyOf(n), AtLast(records, KeyOf(n), "started"),
           n = "prisma_validate" /\ s \in {"output", "success"} => Judged(payload),
           s = "output" => HasSlot(n),
           s = "success" /\ HasSlot(n) => ckpt'.state[SlotOf(n)] = val',
           n \in EffectNodes /\ s \in {"output", "success"} =>
             [key |-> KeyOf(n), answer |-> val'] \in effects',
           n = "prisma_repair" /\ s \in {"intent", "invoke"} => entered' < ModelCalls
    PROVE  Walk'
<1>1. /\ pc' = n /\ step' = s /\ UNCHANGED <<attempt, payload, outcome>>
      /\ s \notin {"enter", "phase", "failphase"}
  BY DEF Continue, Goto, Active
<1>2. KeyOf(pc)' = KeyOf(n)
  <2>1. KeyOf(pc)' = KeyOf(n)'
    BY <1>1 DEF KeyOf
  <2> QED
    BY <2>1
<1>3. n \notin Stages /\ n # "finalise"
  BY DEF Nodes, PureNodes, EffectNodes, Stages
<1>4. OnPath(records, KeyOf(n))
  BY DEF AtLast, OnPath, IndInv, TypeOK
<1>5. Position'
  BY <1>1, <1>2, <1>3, <1>4 DEF Position
<1>6. Answered'
  <2>1. SlotOf(pc)' = SlotOf(n)
    BY <1>1 DEF SlotOf
  <2>2. ModelCalls' = ModelCalls
    BY DEF ModelCalls, RecordsOf
  <2>3. [key |-> KeyOf(pc)', answer |-> val'] = [key |-> KeyOf(n), answer |-> val']
    BY <1>2
  <2> QED
    BY <1>1, <2>1, <2>2, <2>3 DEF Answered
<1> QED
  BY <1>1, <1>5, <1>6 DEF Walk, NoFalseCorruption

\* The driver journals: its record is now the last.
LEMMA AppendWalk ==
    ASSUME IndInv, Durable, NoFalseCorruption, NEW n \in Nodes, pc = n,
           NEW s \in {"started", "succeeded", "failed"}, NEW o \in Values,
           AppendRecord(n, s, o), Extends(records, Row(n, s, o)), Path(records'),
           UNCHANGED <<ckpt, approvals, entered, val>>,
           \/ s = "started" /\ Continue("intent")
           \/ s = "succeeded" /\ o = val /\ Continue("phase")
           \/ s = "failed" /\ Continue("failphase"),
           n = "prisma_repair" /\ s = "started" => entered < ModelCalls'
    PROVE  Walk'
<1>0. PICK r \in Records : r = Row(n, s, o)
  BY RowFacts
<1>1. r.key = KeyOf(n) /\ r.key.node = n /\ r.status = s /\ r.out = o /\ Extends(records, r)
  BY <1>0, RowFacts
<1>2. /\ records \in Seq(Records) /\ records' = Append(records, r) /\ Ordered(records)
  BY <1>0 DEF IndInv, TypeOK, AppendRecord, Row, Durable, Path
<1>3. /\ records' \in Seq(Records) /\ Len(records) \in Nat /\ Len(records') = Len(records) + 1
      /\ records' # <<>> /\ Len(records') \in DOMAIN records'
      /\ \A i \in DOMAIN records : i \in DOMAIN records' /\ records'[i] = records[i]
      /\ records'[Len(records')] = r
      /\ \A i \in DOMAIN records' : i \in DOMAIN records \/ i = Len(records) + 1
  BY <1>2, Appended
<1>4. /\ pc' = n /\ step' \in {"intent", "phase", "failphase"}
      /\ UNCHANGED <<attempt, payload, outcome>>
      /\ step' = "intent" => s = "started"
      /\ step' = "phase" => s = "succeeded" /\ o = val
      /\ step' = "failphase" => s = "failed"
  BY DEF Continue, Goto
<1>5. n = "forge_certify" => LedgerChain' = LedgerChain
  <2> SUFFICES ASSUME n = "forge_certify" PROVE LedgerChain' = LedgerChain
    OBVIOUS
  <2>1. \A m : m # n => RecordsOf(m, "succeeded")' = RecordsOf(m, "succeeded")
    BY <1>1, <1>3 DEF RecordsOf
  <2> QED
    BY <2>1 DEF LedgerChain, ChainAt, ValeIndex
<1>6. KeyOf(n)' = KeyOf(n)
  BY <1>4, <1>5, KeyStays
<1>7. KeyOf(pc)' = KeyOf(n)
  <2>1. KeyOf(pc)' = KeyOf(n)'
    BY <1>4 DEF KeyOf
  <2> QED
    BY <1>6, <2>1
<1>8. n \notin Stages /\ n # "finalise"
  BY DEF Nodes, PureNodes, EffectNodes, Stages
<1>9. n = "vale_verify" /\ s = "succeeded" => approvals = <<>>
  <2> SUFFICES ASSUME n = "vale_verify", s = "succeeded", approvals # <<>> PROVE FALSE
    OBVIOUS
  <2>1. PICK i \in DOMAIN records : Is(records[i], "vale_verify", "succeeded")
    BY DEF Durable, Agreed, Verdict
  <2>2. Rank(records[i].key) = 11 /\ Rank(r.key) = 11 /\ Ends(records[i])
    BY <1>1, <2>1 DEF Rank, Is, Ends
  <2> QED
    BY <1>1, <1>2, <2>2, ExtendsRank
<1>10. Position'
  <2>1. OnPath(records', KeyOf(pc)')
    BY <1>1, <1>3, <1>7 DEF OnPath
  <2>2. AtLast(records', KeyOf(pc)', s) /\ records'[Len(records')].out = o
    BY <1>1, <1>3, <1>7 DEF AtLast
  <2> QED
    BY <1>4, <1>8, <1>9, <2>1, <2>2 DEF Position, Active
<1>11. Answered'
  BY <1>4 DEF Answered
<1> QED
  BY <1>4, <1>10, <1>11 DEF Walk, NoFalseCorruption

-----------------------------------------------------------------------------
(***************************************************************************)
(* Each operation keeps the journal sound.                                 *)
(***************************************************************************)
JournalInv == Durable /\ Walk

\* A node with an open record is driven behind that record.
LEMMA ReusedIsLast ==
    ASSUME IndInv, JournalInv, NEW n \in Nodes, pc = n, Terminals(KeyOf(n)) = {}
    PROVE  Frontier(records, KeyOf(n)) \/ AtLast(records, KeyOf(n), "started")
<1>1. records \in Seq(Records) /\ Ordered(records) /\ OnPath(records, KeyOf(n))
  BY DEF IndInv, TypeOK, JournalInv, Durable, Walk, Position, Path
<1>2. \A i \in DOMAIN records : records[i].key = KeyOf(n) => ~Ends(records[i])
  BY DEF Terminals, Ends
<1>3. \/ Frontier(records, KeyOf(n))
      \/ /\ records # <<>> /\ records[Len(records)].key = KeyOf(n)
         /\ ~Ends(records[Len(records)])
  BY <1>1, <1>2, OpenIsLast
<1> QED
  BY <1>3 DEF AtLast, Ends

\* At the frontier no record has the key.
LEMMA FrontierIsNew ==
    ASSUME NEW R \in Seq(Records), Ordered(R), NEW k \in Keys, Frontier(R, k), NEW i \in DOMAIN R
    PROVE  R[i].key # k
<1>1. R # <<>> /\ Len(R) \in DOMAIN R
  OBVIOUS
<1>2. PICK l \in Records : l = R[Len(R)]
  BY <1>1
<1>3. Ends(l) /\ Leads(l) /\ k = NextKey(l, Len(R))
  BY <1>1, <1>2 DEF Frontier
<1>4. Rank(k) > Rank(l.key) /\ Rank(k) \in Int /\ Rank(l.key) \in Int
  BY <1>3, NextRank, RankType DEF Records
<1>5. Rank(R[i].key) <= Rank(l.key) /\ Rank(R[i].key) \in Int
  BY <1>2, LastIsHighest, RowType
<1> QED
  BY <1>4, <1>5

\* Journal.begin
LEMMA BeginJournal ==
    ASSUME IndInv, JournalInv, NEW n \in Nodes, Begin(n)
    PROVE  JournalInv'
<1>0. /\ pc = n /\ Terminals(KeyOf(n)) = {} /\ AppendRecord(n, "started", None)
      /\ Continue("intent") /\ UNCHANGED val /\ UNCHANGED <<approvals, ckpt, result, world>>
      /\ entered' = entered /\ None \in Values /\ Durable /\ NoFalseCorruption
  BY DEF Begin, world, Values, JournalInv, Walk
<1>1. n # "prisma_repair" => ~Started(KeyOf(n))
  BY DEF Begin
<1>2. n = "prisma_repair" => ModelCalls < MaxRepairs /\ ModelCalls + 1 <= budget
  BY DEF Begin, EntryAllowed
<1>3. PICK r \in Records : r = Row(n, "started", None)
  BY <1>0, RowFacts
<1>4. r.key = KeyOf(n) /\ r.key.node = n /\ r.status = "started"
  BY <1>0, <1>3, RowFacts
<1>5. Extends(records, r)
  <2>1. CASE Frontier(records, KeyOf(n))
    BY <1>4, <2>1 DEF Extends, Ends
  <2>2. CASE AtLast(records, KeyOf(n), "started")
    <3>1. Len(records) \in DOMAIN records
      BY <2>2 DEF AtLast, IndInv, TypeOK
    <3>2. n = "prisma_repair"
      BY <1>1, <2>2, <3>1 DEF AtLast, Started
    <3> QED
      BY <1>4, <2>2, <3>2 DEF Extends, Ends, AtLast
  <2> QED
    BY <1>0, <2>1, <2>2, ReusedIsLast
<1>6. Durable'
  BY <1>0, <1>2, <1>3, <1>5, AppendDurable
<1>7. n = "prisma_repair" => entered < ModelCalls'
  <2> SUFFICES ASSUME n = "prisma_repair" PROVE entered < ModelCalls'
    OBVIOUS
  <2>1. records \in Seq(Records) /\ records' = Append(records, r)
    BY <1>0, <1>3 DEF IndInv, TypeOK, AppendRecord, Row
  <2>2. ModelCalls' = ModelCalls + 1 /\ ModelCalls \in Nat
    BY <1>4, <2>1, CallsAppend DEF Is
  <2>3. entered <= ModelCalls /\ entered \in Nat
    BY DEF IndInv, TypeOK, JournalInv, Durable, Counts
  <2> QED
    BY <2>2, <2>3
<1>8. Walk'
  BY <1>0, <1>3, <1>5, <1>6, <1>7, AppendWalk DEF Durable
<1> QED
  BY <1>6, <1>8 DEF JournalInv

\* Journal.succeed and Journal.fail
LEMMA EndJournal ==
    ASSUME IndInv, JournalInv, NEW n \in Nodes, Succeed(n) \/ Fail(n)
    PROVE  JournalInv'
<1>1. PICK s \in {"succeeded", "failed"} :
        /\ AppendRecord(n, s, val)
        /\ \/ s = "succeeded" /\ step = "success" /\ Continue("phase")
           \/ s = "failed" /\ step = "failed" /\ Continue("failphase")
  BY DEF Succeed, Fail
<1>0. /\ pc = n /\ UNCHANGED val /\ UNCHANGED <<approvals, ckpt, result, world>>
      /\ entered' = entered /\ val \in Values /\ Durable /\ NoFalseCorruption
      /\ Position /\ Answered /\ s \in {"started", "succeeded", "failed"}
  BY DEF Succeed, Fail, world, IndInv, TypeOK, JournalInv, Walk
<1>2. PICK r \in Records : r = Row(n, s, val)
  BY <1>0, RowFacts
<1>3. r.key = KeyOf(n) /\ r.key.node = n /\ r.status = s
  BY <1>0, <1>2, RowFacts
<1>4. AtLast(records, KeyOf(n), "started")
  BY <1>0, <1>1 DEF Position, Active
<1>5. Extends(records, r)
  BY <1>1, <1>3, <1>4 DEF Extends, Ends, AtLast
<1>6. Durable'
  <2>1. /\ n = "prisma_validate" /\ s = "succeeded" => Judged(payload)
        /\ s = "succeeded" /\ HasSlot(n) => ckpt.state[SlotOf(n)] = val
        /\ s = "succeeded" /\ n \in EffectNodes => [key |-> KeyOf(n), answer |-> val] \in effects
    BY <1>0, <1>1 DEF Answered
  <2> QED
    BY <1>0, <1>1, <1>2, <1>5, <2>1, AppendDurable
<1>7. Walk'
  BY <1>0, <1>1, <1>2, <1>5, <1>6, AppendWalk DEF Durable
<1> QED
  BY <1>6, <1>7 DEF JournalInv

\* Journal.begin finding an intent, and the checkpoint after a new one.
LEMMA IntentJournal ==
    ASSUME IndInv, JournalInv, NEW n \in Nodes, ReuseIntent(n) \/ BeginCheckpoint(n)
    PROVE  JournalInv'
<1>0. /\ pc = n /\ Durable /\ NoFalseCorruption /\ Position /\ Answered /\ Still
      /\ ckpt # None /\ ckpt.phase \in Phases /\ ckpt.state \in [Slots -> Values]
  BY NodeFacts DEF ReuseIntent, BeginCheckpoint, store, world, JournalInv, Walk, Still
<1>1. CASE ReuseIntent(n)
  <2>1. Continue("invoke") /\ UNCHANGED <<ckpt, val>> /\ n # "prisma_repair" /\ Started(KeyOf(n))
    BY <1>1 DEF ReuseIntent, store
  <2>2. AtLast(records, KeyOf(n), "started")
    <3>1. KeyOf(n) \in Keys
      BY <1>0, KeyType DEF IndInv
    <3>2. ~Frontier(records, KeyOf(n))
      BY <2>1, <3>1, FrontierIsNew DEF Started, IndInv, TypeOK, JournalInv, Durable, Path
    <3> QED
      BY <1>0, <1>1, <3>2, ReusedIsLast DEF ReuseIntent
  <2>3. KeyOf(n)' = KeyOf(n)
    BY <1>0, <2>1, KeyStays, SameJournal DEF Continue, Still
  <2>4. Walk'
    BY <1>0, <2>1, <2>2, <2>3, StayWalk DEF Still, Active
  <2> QED
    BY <1>0, <2>1, <2>4, NoWriteDurable DEF JournalInv
<1>2. CASE BeginCheckpoint(n)
  <2>1. Advance(ckpt.phase, ckpt.state, Continue("invoke") /\ UNCHANGED val) /\ step = "intent"
    BY <1>2 DEF BeginCheckpoint
  <2>2. ckpt.phase >= ckpt.phase
    BY <1>0 DEF Phases
  <2>3. Continue("invoke") /\ UNCHANGED val /\ Wrote(ckpt.phase, ckpt.state)
    BY <1>0, <2>1, <2>2, AdvanceGoes
  <2>4. Holds(ckpt.state) /\ Backed(ckpt.phase)
    BY <1>0 DEF Durable, Books
  <2>5. Durable' /\ ckpt'.state = ckpt.state /\ ckpt'.seal = ckpt.seal
    BY <1>0, <2>3, <2>4, WroteDurable
  <2>6. KeyOf(n)' = KeyOf(n)
    BY <1>0, <2>3, <2>5, KeyStays, SameJournal DEF Continue, Still
  <2>7. Walk'
    BY <1>0, <2>1, <2>3, <2>6, StayWalk DEF Still, Active, Position, Answered
  <2> QED
    BY <2>5, <2>7 DEF JournalInv
<1> QED
  BY <1>1, <1>2

\* The kernels, the ports and the model adapter are called behind an intent.
LEMMA InvokeJournal ==
    ASSUME IndInv, JournalInv, NEW n \in Nodes,
           InvokePure(n) \/ InvokePort(n) \/ (n = "prisma_repair" /\ InvokeRepair)
    PROVE  JournalInv'
<1>0. /\ pc = n /\ step = "invoke" /\ Durable /\ NoFalseCorruption /\ Position /\ Answered
      /\ UNCHANGED <<records, approvals, ckpt, result, asked, decided, budget>>
  BY DEF InvokePure, InvokePort, InvokeRepair, store, world, JournalInv, Walk
<1>1. AtLast(records, KeyOf(n), "started")
  BY <1>0 DEF Position, Active
<1>2. PICK s \in {"output", "success", "failed"} : Continue(s)
  BY DEF InvokePure, InvokePort, InvokeRepair, AfterInvoke
<1>3. KeyOf(n)' = KeyOf(n) /\ KeyOf(n) \in Keys
  BY <1>0, <1>2, KeyStays, SameJournal, KeyType DEF Continue, IndInv
<1>4. CASE InvokePure(n)
  <2>1. PICK o \in Compute(n) : /\ val' = o
                                /\ Continue(IF o = payload THEN AfterInvoke(n) ELSE "failed")
    BY <1>4 DEF InvokePure
  <2>2. n \in PureNodes /\ n \notin EffectNodes /\ n # "prisma_repair" /\ Still
    BY <1>0, <1>4 DEF InvokePure, world, PureNodes, EffectNodes, Still
  <2>3. PICK t \in {"output", "success", "failed"} :
           Continue(t) /\ (t # "failed" => o = payload /\ t = AfterInvoke(n))
    BY <2>1 DEF AfterInvoke
  <2>4. n = "prisma_validate" /\ t # "failed" => Judged(payload)
    BY <2>1, <2>3 DEF Compute, Accepts, Refusal, Judged
  <2>5. (t = "success" => ~HasSlot(n)) /\ (t = "output" => HasSlot(n))
    BY <2>3 DEF AfterInvoke
  <2>6. Walk'
    BY <1>0, <1>1, <1>3, <2>2, <2>3, <2>4, <2>5, StayWalk DEF Active
  <2> QED
    BY <1>0, <2>2, <2>6, NoWriteDurable DEF JournalInv
<1>5. CASE InvokePort(n)
  <2>1. /\ n \in EffectNodes /\ n # "prisma_repair" /\ n # "prisma_validate" /\ HasSlot(n)
        /\ entered' = entered
    BY <1>5 DEF InvokePort, EffectNodes, HasSlot
  <2>2. \/ \E a \in PortAnswers(n) :
             /\ effects' = effects \cup {[key |-> KeyOf(n), answer |-> a]}
             /\ \/ val' = a /\ Continue("output")
                \/ val' = "ADAPTER_FAILURE" /\ Continue("failed")
        \/ /\ val' = "ADAPTER_FAILURE" /\ Continue("failed")
           /\ UNCHANGED effects
    BY <1>5 DEF InvokePort
  <2>3. PICK t \in {"output", "failed"} :
          /\ Continue(t)
          /\ t = "output" => [key |-> KeyOf(n), answer |-> val'] \in effects'
    BY <2>2
  <2>4. /\ effects \subseteq effects'
        /\ \A e \in effects' : e \in effects \/ e.key = KeyOf(n)
    BY <2>2
  <2>5. Walk'
    BY <1>0, <1>1, <1>3, <2>1, <2>3, StayWalk DEF Active
  <2>6. Started(KeyOf(n)) /\ KeyOf(n).node = n
    <3>1. Len(records) \in DOMAIN records
      BY <1>1 DEF AtLast, IndInv, TypeOK
    <3> QED
      BY <1>1, <3>1, KeyAt DEF AtLast, Started
  <2>7. Done'
    <3>1. \A e \in effects' : e.key.node \in EffectNodes /\ Started(e.key)'
      BY <1>0, <2>1, <2>4, <2>6, SameJournal DEF Durable, Done
    <3>2. \A i \in DOMAIN records' :
            records'[i].key.node \in EffectNodes /\ records'[i].status = "succeeded" =>
              [key |-> records'[i].key, answer |-> records'[i].out] \in effects'
      BY <1>0, <2>4 DEF Durable, Done
    <3>3. result' # None =>
           /\ Sealed' /\ result'.proposal = ckpt'.seal.proposal
           /\ \E i \in DOMAIN records' :
                Is(records'[i], "forge_certify", "succeeded")
                  /\ records'[i].out = result'.certificate
      BY <1>0 DEF Durable, Done, Sealed
    <3> QED
      BY <3>1, <3>2, <3>3 DEF Done
  <2>8. Sealed' = Sealed
    BY <1>0 DEF Sealed
  <2>9. Path(records') /\ Books' /\ Agreed'
    <3>1. ckpt # None
      BY <1>0, NodeFacts
    <3> QED
      BY <1>0, <2>8, <3>1, SameJournal DEF Durable, Books, Agreed
  <2>10. Asked' /\ Counts'
    BY <1>0, <2>1, <2>8, SameJournal DEF Durable, Asked, Counts
  <2> QED
    BY <2>5, <2>7, <2>9, <2>10 DEF JournalInv, Durable
<1>6. CASE n = "prisma_repair" /\ InvokeRepair
  <2>1. PICK t \in {"output", "failed"} : Continue(t)
    BY <1>6 DEF InvokeRepair
  <2>2. /\ n \notin EffectNodes /\ n # "prisma_validate"
        /\ entered' = entered + 1 /\ effects' = effects
        /\ HasSlot(n)
    BY <1>6 DEF InvokeRepair, EffectNodes, HasSlot
  <2>3. Walk'
    BY <1>0, <1>1, <1>3, <2>1, <2>2, StayWalk DEF Active
  <2>4. Sealed' = Sealed
    BY <1>0 DEF Sealed
  <2>5. Counts'
    <3>1. entered < ModelCalls /\ ModelCalls <= MaxRepairs /\ ModelCalls <= budget
      BY <1>0, <1>6 DEF Answered, Durable, Counts
    <3>2. ModelCalls \in Nat /\ entered \in Nat
      BY CountTypes DEF IndInv, TypeOK
    <3> QED
      BY <1>0, <2>2, <3>1, <3>2, SameJournal DEF Counts
  <2>6. Path(records') /\ Books' /\ Agreed'
    <3>1. ckpt # None
      BY <1>0, NodeFacts
    <3> QED
      BY <1>0, <2>4, <3>1, SameJournal DEF Durable, Books, Agreed
  <2>7. Asked'
    BY <1>0, <2>4, SameJournal DEF Durable, Asked
  <2>8. Done'
    BY <1>0, <2>2, <2>4, SameJournal DEF Durable, Done
  <2> QED
    BY <2>3, <2>5, <2>6, <2>7, <2>8 DEF JournalInv, Durable
<1> QED
  BY <1>4, <1>5, <1>6

\* The durable output of Journal.succeed overwrites no output of a success.
LEMMA OutputJournal ==
    ASSUME IndInv, JournalInv, NEW n \in Nodes, Output(n)
    PROVE  JournalInv'
<1>0. /\ pc = n /\ step = "output" /\ Durable /\ NoFalseCorruption /\ Position /\ Answered /\ Still
      /\ ckpt # None /\ ckpt.phase \in Phases /\ ckpt.state \in [Slots -> Values]
      /\ val \in Values
  BY NodeFacts DEF Output, world, JournalInv, Walk, Still, IndInv, TypeOK
<1>1. AtLast(records, KeyOf(n), "started")
  BY <1>0 DEF Position, Active
<1>2. CASE UNCHANGED ckpt /\ Leave("IDEMPOTENCY_CONFLICT")
  <2>1. Left /\ outcome' = "IDEMPOTENCY_CONFLICT"
    BY <1>2, LeaveLeft DEF Outcomes, Leave
  <2> QED
    BY <1>0, <1>2, <2>1, LeftWalk, NoWriteDurable DEF JournalInv, Corrupt
<1>3. CASE Advance(ckpt.phase, [ckpt.state EXCEPT ![SlotOf(n)] = val],
                   Continue("success") /\ UNCHANGED val)
  <2>0. PICK st \in [Slots -> Values] : st = [ckpt.state EXCEPT ![SlotOf(n)] = val]
    BY <1>0
  <2>1. ckpt.phase >= ckpt.phase
    BY <1>0 DEF Phases
  <2>2. Continue("success") /\ UNCHANGED val /\ Wrote(ckpt.phase, st)
    BY <1>0, <1>3, <2>0, <2>1, AdvanceGoes
  <2>3. \A s \in Slots : s # SlotOf(n) => st[s] = ckpt.state[s]
    BY <1>0, <2>0
  <2>4. SlotOf(n) \in Slots => st[SlotOf(n)] = val
    BY <1>0, <2>0
  <2>5. Holds(st)
    <3> SUFFICES ASSUME NEW i \in DOMAIN records, records[i].status = "succeeded",
                        HasSlot(records[i].key.node)
                 PROVE  st[<<records[i].key.node,
                             IF records[i].key.node = "prisma_repair" THEN records[i].key.attempt
                             ELSE 0>>] = records[i].out
      BY DEF Holds
    <3>1. PICK m, a, sl : /\ m = records[i].key.node
                          /\ a = (IF m = "prisma_repair" THEN records[i].key.attempt ELSE 0)
                          /\ sl = <<m, a>>
      OBVIOUS
    <3>2. ckpt.state[sl] = records[i].out
      BY <1>0, <3>1 DEF Durable, Books, Holds
    <3>3. /\ records \in Seq(Records) /\ Ordered(records) /\ Linked(records)
          /\ m \in Nodes /\ records[i].key.attempt \in 0..MaxRepairs
      BY <3>1, RowType DEF IndInv, TypeOK, Durable, Path, JournalInv
    <3>4. i < Len(records) /\ Len(records) \in DOMAIN records
      <4>1. i # Len(records)
        BY <1>1 DEF AtLast
      <4> QED
        BY <3>3, <4>1, RowType
    <3>5. PICK l : l = records[Len(records)].key
      OBVIOUS
    <3>6. l = KeyOf(n) /\ l.node = n /\ (n = "prisma_repair" => l.attempt = attempt)
      BY <1>1, <3>5, KeyAt DEF AtLast
    <3>7. Rank(records[i].key) < Rank(l)
      BY <3>3, <3>4, <3>5 DEF Ordered, Ends
    <3>8. m = n => n = "prisma_repair" /\ records[i].key.attempt # attempt
      <4> SUFFICES ASSUME m = n, n # "prisma_repair" \/ records[i].key.attempt = attempt
                   PROVE  FALSE
        OBVIOUS
      <4>1. n # "prisma_validate"
        <5> SUFFICES ASSUME n = "prisma_validate" PROVE FALSE
          OBVIOUS
        <5>1. Is(records[i], "prisma_validate", "succeeded")
          BY <3>1 DEF Is
        <5>2. l.node \notin {"prisma_validate", "prisma_repair"}
          BY <3>3, <3>4, <3>5, <5>1, ValidatedOnce
        <5> QED
          BY <3>6, <5>2
      <4>2. records[i].key \in Keys /\ l \in Keys /\ Rank(l) \in Int
        BY <3>3, <3>4, <3>5, RowType
      <4>3. Rank(records[i].key) = Rank(l)
        BY <3>1, <3>6, <4>1, <4>2, NodeRank
      <4> QED
        BY <3>7, <4>2, <4>3
    <3>9. sl # SlotOf(n)
      BY <3>1, <3>8 DEF SlotOf
    <3>10. sl \in Slots
      <4>1. m = "prisma_repair" => records[i].key.attempt \in 1..MaxRepairs
        <5>1. Root(records, records[i].key)
          BY DEF JournalInv, Durable, Path
        <5>2. MaxRepairs \in 0..3
          BY BudgetAssumption
        <5> QED
          BY <3>1, <3>3, <5>1, <5>2 DEF Root
      <4> QED
        BY <3>1, <3>3, <4>1 DEF Slots, HasSlot, Nodes, PureNodes
    <3> QED
      BY <2>3, <3>1, <3>2, <3>9, <3>10
  <2>6. Backed(ckpt.phase)
    BY <1>0 DEF Durable, Books
  <2>7. Durable' /\ ckpt'.state = st /\ ckpt'.seal = ckpt.seal
    BY <1>0, <2>2, <2>5, <2>6, WroteDurable
  <2>8. KeyOf(n)' = KeyOf(n)
    <3>1. \A m \in EffectNodes : m # n => st[<<m, 0>>] = ckpt.state[<<m, 0>>]
      BY <2>3 DEF Slots, SlotOf
    <3> QED
      BY <1>0, <2>2, <2>7, <3>1, KeyStays, SameJournal DEF Continue, Still
  <2>9. SlotOf(n) \in Slots
    <3>1. HasSlot(n) /\ (n = "prisma_repair" => attempt \in 1..MaxRepairs)
      BY <1>0 DEF Answered, IndInv, Repairs
    <3> QED
      BY <3>1 DEF SlotOf, Slots, Nodes, PureNodes, HasSlot
  <2>10. Walk'
    <3>1. /\ n = "prisma_validate" => Judged(payload)
          /\ n \in EffectNodes => [key |-> KeyOf(n), answer |-> val'] \in effects'
          /\ ckpt'.state[SlotOf(n)] = val'
      BY <1>0, <2>2, <2>4, <2>7, <2>9 DEF Answered, Still
    <3> QED
      BY <1>0, <1>1, <2>2, <2>8, <3>1, StayWalk DEF Active, Still
  <2> QED
    BY <2>7, <2>10 DEF JournalInv
<1> QED
  BY <1>2, <1>3 DEF Output

\* A step of the walk that writes a phase the journal backs.
LEMMA AdvanceWalks ==
    ASSUME IndInv, Durable, Still, ckpt # None, NEW phase \in Phases, phase >= ckpt.phase,
           phase >= Sealing <=> ckpt.phase >= Sealing, Backed(phase), NEW cont,
           Advance(phase, ckpt.state, cont)
    PROVE  cont /\ Durable' /\ Walks
<1>1. ckpt.state \in [Slots -> Values] /\ Holds(ckpt.state)
  BY DEF IndInv, TypeOK, Ckpts, Durable, Books
<1>2. cont /\ Wrote(phase, ckpt.state)
  BY AdvanceGoes
<1>3. Durable' /\ ckpt'.state = ckpt.state /\ ckpt'.seal = ckpt.seal
  BY <1>1, <1>2, WroteDurable
<1> QED
  BY <1>2, <1>3 DEF Walks, Still

\* The same of ensure_phase.
LEMMA EnsureWalks ==
    ASSUME IndInv, Durable, Still, ckpt # None, NEW phase \in Phases,
           phase >= Sealing <=> ckpt.phase >= Sealing, Backed(phase), NEW cont,
           EnsurePhase(phase, cont)
    PROVE  cont /\ Durable' /\ Walks
<1>1. ckpt.phase \in 0..8 /\ phase \in 0..8
  BY DEF IndInv, TypeOK, Ckpts, Phases
<1>2. CASE ckpt.phase < phase
  <2>1. phase >= ckpt.phase
    BY <1>1, <1>2
  <2>2. Advance(phase, ckpt.state, cont)
    BY <1>2 DEF EnsurePhase
  <2> QED
    BY <2>1, <2>2, AdvanceWalks
<1>3. CASE ~(ckpt.phase < phase)
  <2>1. UNCHANGED ckpt /\ cont
    BY <1>3 DEF EnsurePhase
  <2> QED
    BY <2>1, NoWriteDurable DEF Walks, Still
<1> QED
  BY <1>2, <1>3

\* On which side of the seal a node's phase lies.
LEMMA NodePhase ==
    ASSUME IndInv, NEW n \in Nodes, pc = n, n # "prisma_repair"
    PROVE  /\ PhaseOf[n] \in Phases /\ n \in PureNodes \cup EffectNodes
           /\ PhaseOf[n] >= Sealing <=> ckpt.phase >= Sealing
           /\ n \in EffectNodes => Sealed
           /\ n \in PureNodes => ~Sealed
<1>1. /\ ckpt # None /\ ckpt.phase \in 0..8 /\ n \in PureNodes \cup EffectNodes
      /\ n \in EffectNodes => Sealed
      /\ n \in PureNodes => ~Sealed
  BY NodeFacts DEF Nodes, PreSeal, Phases
<1>2. CASE n \in PureNodes
  <2>1. PhaseOf[n] \in 1..3
    BY <1>2 DEF PhaseOf, PureNodes
  <2> QED
    BY <1>1, <1>2, <2>1 DEF Sealed, Sealing, PhaseOf, Phases
<1>3. CASE n \in EffectNodes
  <2>1. PhaseOf[n] \in 6..8
    BY <1>3 DEF PhaseOf, EffectNodes
  <2> QED
    BY <1>1, <1>3, <2>1 DEF Sealed, Sealing, PhaseOf, Phases
<1> QED
  BY <1>1, <1>2, <1>3

\* The checkpoint after a terminal record.
LEMMA EndCheckpointJournal ==
    ASSUME IndInv, JournalInv, NEW n \in Nodes, SucceedCheckpoint(n) \/ FailCheckpoint(n)
    PROVE  JournalInv'
<1>0. /\ pc = n /\ Durable /\ NoFalseCorruption /\ Position /\ Still
      /\ ckpt # None /\ ckpt.phase \in Phases /\ records \in Seq(Records)
  BY NodeFacts DEF SucceedCheckpoint, FailCheckpoint, world, JournalInv, Walk, Still, IndInv, TypeOK
<1>1. ckpt.phase >= ckpt.phase /\ Backed(ckpt.phase)
  BY <1>0 DEF Phases, Durable, Books
<1>2. CASE SucceedCheckpoint(n)
  <2>1. /\ AtLast(records, KeyOf(n), "succeeded") /\ records[Len(records)].out = val
        /\ n = "vale_verify" => approvals = <<>>
    BY <1>0, <1>2 DEF Position, SucceedCheckpoint
  <2>2. /\ Len(records) \in DOMAIN records /\ records # <<>>
        /\ records[Len(records)].key = KeyOf(n) /\ records[Len(records)].status = "succeeded"
        /\ Is(records[Len(records)], n, "succeeded")
    BY <1>0, <2>1, KeyAt DEF AtLast, Is
  <2>3. CASE n = "prisma_repair"
    <3>1. Advance(ckpt.phase, ckpt.state, Proceed(n, val))
      BY <1>2, <2>3 DEF SucceedCheckpoint
    <3>2. Proceed(n, val) /\ Durable' /\ Walks
      BY <1>0, <1>1, <3>1, AdvanceWalks
    <3> QED
      BY <1>0, <2>1, <2>2, <3>2, ProceedWalk DEF JournalInv
  <2>4. CASE n # "prisma_repair"
    <3>1. Advance(PhaseOf[n], ckpt.state, Proceed(n, val))
      BY <1>2, <2>4 DEF SucceedCheckpoint
    <3>2. /\ PhaseOf[n] \in Phases /\ n \in PureNodes \cup EffectNodes
          /\ PhaseOf[n] >= Sealing <=> ckpt.phase >= Sealing
          /\ n \in EffectNodes => Sealed
          /\ n \in PureNodes => ~Sealed
      BY <1>0, <2>4, NodePhase
    <3>3. PhaseOf[n] >= ckpt.phase
      <4>1. ckpt.phase <= PhaseOf[n]
        BY <1>0, <2>1, <2>2, <3>2, PhaseNotAhead
      <4> QED
        BY <1>0, <3>2, <4>1 DEF Phases
    <3>4. Backed(PhaseOf[n])
      <4>1. RecordsOf(n, "succeeded") # {}
        BY <2>2 DEF RecordsOf, Is
      <4> QED
        BY <1>0, <3>2, <4>1, BackedBySuccess
    <3>5. Proceed(n, val) /\ Durable' /\ Walks
      BY <1>0, <3>1, <3>2, <3>3, <3>4, AdvanceWalks
    <3> QED
      BY <1>0, <2>2, <2>4, <3>5, ProceedWalk DEF JournalInv
  <2> QED
    BY <2>3, <2>4
<1>3. CASE FailCheckpoint(n)
  <2>1. /\ AtLast(records, KeyOf(n), "failed") /\ val \in Codes
        /\ Advance(ckpt.phase, ckpt.state, RaiseFrom(n, val))
    BY <1>0, <1>3 DEF Position, FailCheckpoint, IndInv, Repairs
  <2>2. \E i \in DOMAIN records : records[i].key = KeyOf(n) /\ records[i].status = "failed"
    BY <1>0, <2>1 DEF AtLast
  <2>3. RaiseFrom(n, val) /\ Durable' /\ Walks
    BY <1>0, <1>1, <2>1, AdvanceWalks
  <2> QED
    BY <1>0, <2>1, <2>2, <2>3, RaiseWalk DEF JournalInv
<1> QED
  BY <1>2, <1>3

\* The terminal record of a key, where there is one.
LEMMA TerminalIs ==
    ASSUME records \in Seq(Records), NEW k, Terminals(k) # {}
    PROVE  \E i \in DOMAIN records :
             /\ Terminal(k) = records[i] /\ records[i].key = k
             /\ records[i].status \in {"succeeded", "failed"}
<1>1. Terminals(k) \subseteq Nat
  BY DEF Terminals
<1>2. First(Terminals(k)) \in Terminals(k)
  BY <1>1, FirstIsLeast, Zenon
<1>3. PICK i : i = First(Terminals(k))
  OBVIOUS
<1>4. i \in DOMAIN records /\ records[i].key = k /\ records[i].status # "started"
  BY <1>2, <1>3 DEF Terminals
<1>5. records[i].status \in {"started", "succeeded", "failed"}
  <2>1. records[i] \in Records
    BY <1>4
  <2> QED
    BY <2>1 DEF Records
<1> QED
  BY <1>3, <1>4, <1>5 DEF Terminal

\* A pure node answered from the journal.
LEMMA ReplayPureJournal ==
    ASSUME IndInv, JournalInv, NEW n \in Nodes, ReplayPure(n)
    PROVE  JournalInv'
<1>0. /\ pc = n /\ Durable /\ NoFalseCorruption /\ Position /\ Still
      /\ ckpt # None /\ records \in Seq(Records) /\ n \in PureNodes /\ payload \in Payloads
      /\ Terminals(KeyOf(n)) # {}
  BY NodeFacts DEF ReplayPure, world, JournalInv, Walk, Still, IndInv, TypeOK
<1>1. PICK i \in DOMAIN records :
             /\ Terminal(KeyOf(n)) = records[i] /\ records[i].key = KeyOf(n)
             /\ records[i].status \in {"succeeded", "failed"}
  BY <1>0, TerminalIs
<1>2. PICK o \in Compute(n) :
          LET r == Terminal(KeyOf(n)) IN
          CASE r.status = "succeeded" /\ o = payload /\ o = r.out ->
                 EnsurePhase(PhaseOf[n], Proceed(n, o))
            [] o # payload /\ (r.status = "failed" => o = r.out) ->
                 UNCHANGED ckpt /\ RaiseFrom(n, o)
            [] OTHER -> UNCHANGED ckpt /\ Leave("RESULT_CORRUPTION")
  BY DEF ReplayPure
<1>3. \/ records[i].status = "succeeded" /\ EnsurePhase(PhaseOf[n], Proceed(n, o))
      \/ UNCHANGED ckpt /\ o # payload /\ RaiseFrom(n, o)
      \/ UNCHANGED ckpt /\ Leave("RESULT_CORRUPTION")
  BY <1>1, <1>2
<1>4. KeyOf(n).node = n /\ KeyOf(n).in = payload /\ n # "prisma_repair"
  BY <1>0, KeyAt DEF PureNodes
<1>5. CASE records[i].status = "succeeded" /\ EnsurePhase(PhaseOf[n], Proceed(n, o))
  <2>1. /\ PhaseOf[n] \in Phases /\ n \in PureNodes \cup EffectNodes
        /\ PhaseOf[n] >= Sealing <=> ckpt.phase >= Sealing
        /\ n \in EffectNodes => Sealed
    BY <1>0, <1>4, NodePhase
  <2>2. RecordsOf(n, "succeeded") # {}
    BY <1>1, <1>4, <1>5 DEF RecordsOf
  <2>3. Backed(PhaseOf[n])
    BY <1>0, <2>1, <2>2, BackedBySuccess
  <2>4. Proceed(n, o) /\ Durable' /\ Walks
    BY <1>0, <1>5, <2>1, <2>3, EnsureWalks
  <2> QED
    BY <1>0, <1>1, <1>4, <1>5, <2>4, ProceedWalk DEF JournalInv
<1>6. CASE UNCHANGED ckpt /\ o # payload /\ RaiseFrom(n, o)
  <2>1. o \in Codes
    BY <1>0, <1>2, <1>6 DEF Compute, Refusal, Codes, PureNodes
  <2>2. n = "prisma_validate" => records[i].status = "failed"
    <3> SUFFICES ASSUME n = "prisma_validate", records[i].status = "succeeded" PROVE FALSE
      BY <1>1
    <3>1. Judged(payload)
      BY <1>0, <1>1, <1>4 DEF Durable, Path, Is
    <3>2. o = IF payload \in Valid THEN payload ELSE "PROPOSAL_INVALID"
      BY <1>2 DEF Compute, Accepts, Refusal
    <3> QED
      BY <1>6, <3>1, <3>2 DEF Judged
  <2>3. Walks
    BY <1>0, <1>6 DEF Still, Walks
  <2> QED
    BY <1>0, <1>1, <1>6, <2>1, <2>2, <2>3, RaiseWalk, NoWriteDurable DEF JournalInv
<1>7. CASE UNCHANGED ckpt /\ Leave("RESULT_CORRUPTION")
  <2>1. Left /\ outcome' \notin Corrupt
    BY <1>7, LeaveLeft DEF Outcomes, Leave, Corrupt
  <2> QED
    BY <1>0, <1>7, <2>1, LeftWalk, NoWriteDurable DEF JournalInv
<1> QED
  BY <1>3, <1>5, <1>6, <1>7

\* An effect node, or a repair, answered from the journal.
LEMMA ReplayEffectJournal ==
    ASSUME IndInv, JournalInv, NEW n \in Nodes, ReplayEffect(n)
    PROVE  JournalInv'
<1>0. /\ pc = n /\ Durable /\ NoFalseCorruption /\ Position /\ Still
      /\ ckpt # None /\ ckpt.phase \in Phases /\ records \in Seq(Records)
      /\ n \in EffectNodes \cup {"prisma_repair"} /\ Terminals(KeyOf(n)) # {}
  BY NodeFacts DEF ReplayEffect, world, JournalInv, Walk, Still, IndInv, TypeOK, Nodes
<1>1. PICK i \in DOMAIN records :
             /\ Terminal(KeyOf(n)) = records[i] /\ records[i].key = KeyOf(n)
             /\ records[i].status \in {"succeeded", "failed"}
  BY <1>0, TerminalIs
<1>2. /\ KeyOf(n).node = n /\ HasSlot(n)
      /\ n = "prisma_repair" => KeyOf(n).attempt = attempt
  BY <1>0, KeyAt DEF HasSlot, EffectNodes
<1>3. records[i].status = "succeeded" => ckpt.state[SlotOf(n)] = records[i].out
  BY <1>0, <1>1, <1>2 DEF Durable, Books, Holds, SlotOf
<1>4. \/ /\ records[i].status = "succeeded" /\ ckpt.state[SlotOf(n)] = records[i].out
         /\ EnsurePhase(IF n = "prisma_repair" THEN ckpt.phase ELSE PhaseOf[n],
                        Proceed(n, ckpt.state[SlotOf(n)]))
      \/ UNCHANGED ckpt /\ Leave("NODE_FAILED")
  BY <1>1, <1>3 DEF ReplayEffect
<1>5. CASE UNCHANGED ckpt /\ Leave("NODE_FAILED")
  <2>1. Left /\ outcome' \notin Corrupt
    BY <1>5, LeaveLeft DEF Outcomes, Leave, Corrupt
  <2> QED
    BY <1>0, <1>5, <2>1, LeftWalk, NoWriteDurable DEF JournalInv
<1>6. ASSUME records[i].status = "succeeded", ckpt.state[SlotOf(n)] = records[i].out,
             NEW phase \in Phases, phase >= Sealing <=> ckpt.phase >= Sealing, Backed(phase),
             EnsurePhase(phase, Proceed(n, ckpt.state[SlotOf(n)]))
      PROVE  JournalInv'
  <2>1. Proceed(n, ckpt.state[SlotOf(n)]) /\ Durable' /\ Walks
    BY <1>0, <1>6, EnsureWalks
  <2> QED
    BY <1>0, <1>1, <1>6, <2>1, ProceedWalk DEF JournalInv
<1>7. CASE /\ records[i].status = "succeeded" /\ ckpt.state[SlotOf(n)] = records[i].out
           /\ n = "prisma_repair" /\ EnsurePhase(ckpt.phase, Proceed(n, ckpt.state[SlotOf(n)]))
  <2>1. Backed(ckpt.phase)
    BY <1>0 DEF Durable, Books
  <2> QED
    BY <1>0, <1>6, <1>7, <2>1
<1>8. CASE /\ records[i].status = "succeeded" /\ ckpt.state[SlotOf(n)] = records[i].out
           /\ n # "prisma_repair" /\ EnsurePhase(PhaseOf[n], Proceed(n, ckpt.state[SlotOf(n)]))
  <2>1. /\ PhaseOf[n] \in Phases /\ n \in PureNodes \cup EffectNodes
        /\ PhaseOf[n] >= Sealing <=> ckpt.phase >= Sealing
        /\ n \in EffectNodes => Sealed
    BY <1>0, <1>8, NodePhase
  <2>2. RecordsOf(n, "succeeded") # {}
    BY <1>1, <1>2, <1>8 DEF RecordsOf
  <2>3. Backed(PhaseOf[n])
    BY <1>0, <2>1, <2>2, BackedBySuccess
  <2> QED
    BY <1>6, <1>8, <2>1, <2>3
<1> QED
  BY <1>4, <1>5, <1>7, <1>8

\* What is durable stands when only the questions move.
LEMMA StoreStays ==
    ASSUME IndInv, Durable, UNCHANGED <<records, approvals, ckpt, result, effects, entered, budget>>
    PROVE  /\ Path(records)' /\ Books' /\ Agreed' /\ Counts' /\ Done' /\ Sealed' = Sealed
           /\ \A q : Pending(q)' <=> Pending(q)
<1>1. Sealed' = Sealed
  BY DEF Sealed
<1>2. UNCHANGED <<records, approvals>>
  OBVIOUS
<1>3. /\ ChainLength' = ChainLength /\ ModelCalls' = ModelCalls /\ FoldLinks' = FoldLinks
      /\ \A k : Started(k)' = Started(k)
      /\ \A st : Holds(st) => Holds(st)'
      /\ \A ph : Backed(ph) => Backed(ph)'
  BY <1>2, SameJournal
<1>4. Path(records)' /\ Agreed' /\ Counts'
  BY <1>1, <1>3 DEF Durable, Agreed, Counts
<1>5. Books'
  <2>1. CASE ckpt = None
    BY <1>1, <1>3, <2>1 DEF Durable, Books
  <2>2. CASE ckpt # None
    <3>1. Holds(ckpt.state)' /\ Backed(ckpt.phase)'
      BY <2>2 DEF Durable, Books, Holds, Backed, RecordsOf
    <3> QED
      BY <1>1, <1>3, <2>2, <3>1 DEF Durable, Books
  <2> QED
    BY <2>1, <2>2
<1>6. Done'
  BY <1>1, <1>3 DEF Durable, Done
<1>7. \A q : Pending(q)' <=> Pending(q)
  BY <1>3 DEF Pending
<1> QED
  BY <1>1, <1>4, <1>5, <1>6, <1>7

\* Two verdicts of a run are one.
LEMMA OneVerdict ==
    ASSUME records \in Seq(Records), Ordered(records), NEW p, NEW q,
           Verdict(records, p), Verdict(records, q)
    PROVE  p = q
<1>1. PICK i \in DOMAIN records :
        Is(records[i], "vale_verify", "succeeded") /\ records[i].key.in = p
  BY DEF Verdict
<1>2. PICK j \in DOMAIN records : Is(records[j], "vale_verify", "succeeded") /\ records[j].key.in = q
  BY DEF Verdict
<1>3. RecordsOf("vale_verify", "succeeded") = {i} /\ RecordsOf("vale_verify", "succeeded") = {j}
  BY <1>1, <1>2, SoleSuccess
<1> QED
  BY <1>1, <1>2, <1>3

\* At a boundary the open question is the one that was asked.
LEMMA QuestionStands ==
    ASSUME IndInv, JournalInv, NEW s \in Stages, pc = s, asked[s] # None,
           s = "simulation" => approvals = <<>>
    PROVE  asked[s] = Question
<1>1. ~Sealed /\ records \in Seq(Records) /\ asked[s] \in Questions
  BY NodeFacts DEF IndInv, TypeOK, PreSeal
<1>2. Verdict(records, payload) /\ Ordered(records)
  BY DEF JournalInv, Walk, Position, Durable, Path
<1>3. Pending(asked[s])
  BY <1>1 DEF JournalInv, Durable, Asked, Stages
<1>4. asked[s].proposal = payload /\ asked[s].pred = ChainLength
  BY <1>1, <1>2, <1>3, OneVerdict DEF Pending
<1> QED
  BY <1>1, <1>4 DEF Questions, Question

\* The approver is asked, or the decision refused.
LEMMA AskJournal ==
    ASSUME IndInv, JournalInv, NEW s \in Stages, ApprovalMissing(s) \/ ApprovalRefused(s)
    PROVE  JournalInv'
<1>0. /\ pc = s /\ Durable /\ NoFalseCorruption /\ Position
      /\ s = "simulation" => approvals = <<>>
      /\ UNCHANGED <<records, approvals, ckpt, result, effects, entered, budget, decided>>
  BY DEF ApprovalMissing, ApprovalRefused, store, world, JournalInv, Walk
<1>1. CASE ApprovalMissing(s)
  <2>1. /\ decided[s] = None /\ asked' = [asked EXCEPT ![s] = Question]
        /\ Left /\ outcome' \notin Corrupt
    BY <1>1, LeaveLeft DEF ApprovalMissing, Outcomes, Leave, Corrupt
  <2>2. /\ Path(records)' /\ Books' /\ Agreed' /\ Counts' /\ Done' /\ Sealed' = Sealed
        /\ \A q : Pending(q)' <=> Pending(q)
    BY <1>0, StoreStays
  <2>3. PICK Q : Q = Question
    OBVIOUS
  <2>4. Pending(Q)
    BY <1>0, <2>3 DEF Position, Question, Pending
  <2>5. /\ asked'[s] = Q
        /\ \A t \in Stages : t # s => asked'[t] = asked[t]
    BY <2>1, <2>3 DEF IndInv, TypeOK
  <2>6. s = "production" => approvals # <<>>
    BY <1>0 DEF IndInv, Consent
  <2>7. Asked
    BY <1>0 DEF Durable
  <2>8. \A t \in Stages : decided'[t] # None => decided'[t].question = asked'[t] /\ asked'[t] # None
    BY <1>0, <2>1, <2>5, <2>7 DEF Asked
  <2>9. asked'["simulation"] # None /\ approvals' = <<>> => Pending(asked'["simulation"])
    <3>1. CASE s = "simulation"
      BY <2>4, <2>5, <3>1
    <3>2. CASE s # "simulation"
      <4>1. asked'["simulation"] = asked["simulation"]
        BY <2>5, <3>2 DEF Stages
      <4> QED
        BY <1>0, <2>7, <4>1 DEF Asked
    <3> QED
      BY <3>1, <3>2
  <2>10. asked'["production"] # None =>
           approvals' # <<>> /\ (~Sealed' => Pending(asked'["production"]))
    <3>1. CASE s = "production"
      BY <1>0, <2>4, <2>5, <2>6, <3>1
    <3>2. CASE s # "production"
      <4>1. asked'["production"] = asked["production"]
        BY <2>5, <3>2 DEF Stages
      <4> QED
        BY <1>0, <2>2, <2>7, <4>1 DEF Asked
    <3> QED
      BY <3>1, <3>2
  <2>11. Asked'
    BY <2>2, <2>8, <2>9, <2>10 DEF Asked, Pending
  <2> QED
    BY <2>1, <2>2, <2>11, LeftWalk DEF JournalInv, Durable
<1>2. CASE ApprovalRefused(s)
  <2>1. /\ decided[s] # None /\ VerifyApproval(s) # "ok" /\ Leave(VerifyApproval(s)) /\ Still
    BY <1>0, <1>2 DEF ApprovalRefused, Still, world
  <2>2. decided[s].question = Question
    BY <1>0, <2>1, QuestionStands DEF Durable, Asked
  <2>3. VerifyApproval(s) = "APPROVAL_REJECTED"
    BY <2>1, <2>2 DEF VerifyApproval
  <2>4. Left /\ outcome' \notin Corrupt
    BY <2>1, <2>3, LeaveLeft DEF Outcomes, Leave, Corrupt
  <2> QED
    BY <1>0, <2>1, <2>4, LeftWalk, NoWriteDurable DEF JournalInv
<1> QED
  BY <1>1, <1>2

\* A person decides the question that was asked.
LEMMA DecideJournal ==
    ASSUME IndInv, JournalInv, NEW s \in Stages, Decide(s)
    PROVE  JournalInv'
<1>0. /\ UNCHANGED <<records, approvals, ckpt, result, effects, entered, budget, asked>>
      /\ UNCHANGED <<pc, step, attempt, payload, val, outcome>> /\ Durable /\ Walk
  BY DEF Decide, store, volatile, JournalInv
<1>1. /\ Path(records)' /\ Books' /\ Agreed' /\ Counts' /\ Done' /\ Sealed' = Sealed
      /\ \A q : Pending(q)' <=> Pending(q)
  BY <1>0, StoreStays
<1>2. PICK d : decided' = [decided EXCEPT ![s] = [question |-> asked[s], decision |-> d]]
  BY DEF Decide
<1>3. Asked'
  <2>1. ASSUME NEW t \in Stages, decided'[t] # None
        PROVE  decided'[t].question = asked[t] /\ asked[t] # None
    <3>1. CASE t = s
      BY <1>2, <3>1 DEF IndInv, TypeOK, Decide
    <3>2. CASE t # s
      <4>1. decided'[t] = decided[t]
        BY <1>2, <3>2 DEF IndInv, TypeOK
      <4> QED
        BY <1>0, <2>1, <4>1 DEF Durable, Asked
    <3> QED
      BY <3>1, <3>2
  <2> QED
    BY <1>0, <1>1, <2>1 DEF Durable, Asked, Pending
<1>4. Walk'
  <2>1. KeyOf(pc)' = KeyOf(pc)
    BY <1>0, SameJournal DEF KeyOf
  <2>2. Position'
    BY <1>0, <2>1 DEF Walk, Position, RecordsOf
  <2>3. Answered'
    BY <1>0, <2>1, SameJournal DEF Walk, Answered, SlotOf
  <2> QED
    BY <1>0, <2>2, <2>3 DEF Walk, NoFalseCorruption
<1> QED
  BY <1>1, <1>3, <1>4 DEF JournalInv, Durable

\* A decision folds behind the verdict while the verdict is the last record.
LEMMA FoldApprove ==
    ASSUME records \in Seq(Records), approvals \in Seq(Approvals), FoldLinks, records # <<>>,
           ValeIndex = Len(records), NEW a \in Approvals, a.pred = ChainLength,
           approvals' = Append(approvals, a), records' = records
    PROVE  FoldLinks' /\ ValeIndex' = Len(records)
<1>1. ValeIndex' = Len(records)
  BY DEF ValeIndex, RecordsOf
<1>2. /\ Len(approvals) \in Nat /\ Len(records) \in Nat /\ Len(records) # 0
      /\ DOMAIN records = 1..Len(records)
  OBVIOUS
<1>3. /\ \A k \in DOMAIN approvals : k \in DOMAIN approvals' /\ approvals'[k] = approvals[k]
      /\ approvals'[Len(approvals) + 1] = a
      /\ \A k \in DOMAIN approvals' : k \in DOMAIN approvals \/ k = Len(approvals) + 1
  BY Appended
<1>4. ASSUME NEW i \in DOMAIN records'
      PROVE  records'[i].pred = ChainBefore(i)'
  <2>1. ~(Len(records) < i)
    BY <1>2
  <2>2. ChainBefore(i)' = i - 1 /\ ChainBefore(i) = i - 1
    BY <1>1, <2>1 DEF ChainBefore, ChainAt
  <2> QED
    BY <2>2 DEF FoldLinks
<1>5. ASSUME NEW k \in DOMAIN approvals'
      PROVE  ValeIndex' # 0 /\ approvals'[k].pred = ValeIndex' + k - 1
  <2>1. CASE k \in DOMAIN approvals
    BY <1>1, <1>2, <1>3, <2>1 DEF FoldLinks
  <2>2. CASE k = Len(approvals) + 1
    BY <1>1, <1>2, <1>3, <2>2 DEF ChainLength
  <2> QED
    BY <1>3, <2>1, <2>2
<1> QED
  BY <1>1, <1>4, <1>5 DEF FoldLinks

\* At a boundary Vale's verdict on the payload is the journal's last record.
LEMMA AtBoundary ==
    ASSUME IndInv, JournalInv, NEW s \in Stages, pc = s
    PROVE  /\ ~Sealed /\ ckpt # None /\ ckpt \in Ckpts /\ payload \in Payloads
           /\ records \in Seq(Records) /\ records # <<>> /\ Len(records) \in DOMAIN records
           /\ Is(records[Len(records)], "vale_verify", "succeeded")
           /\ records[Len(records)].key.in = payload /\ Verdict(records, payload)
           /\ ValeIndex = Len(records) /\ ckpt.phase \in 0..4
           /\ RecordsOf("vale_verify", "succeeded") # {}
<1>1. /\ ~Sealed /\ ckpt # None /\ ckpt \in Ckpts /\ payload \in Payloads
      /\ records \in Seq(Records)
  BY NodeFacts DEF IndInv, TypeOK, PreSeal
<1>2. Verdict(records, payload) /\ Path(records) /\ Ordered(records) /\ Agreed
  BY DEF JournalInv, Walk, Position, Durable, Path
<1>3. PICK i \in DOMAIN records :
        Is(records[i], "vale_verify", "succeeded") /\ records[i].key.in = payload
  BY <1>2 DEF Verdict
<1>4. i = Len(records)
  BY <1>1, <1>2, <1>3, VerdictIsLast
<1>5. ValeIndex = i /\ RecordsOf("vale_verify", "succeeded") = {i}
  BY <1>1, <1>2, <1>3, SoleSuccess DEF ValeIndex
<1>6. ckpt.phase \in 0..4
  BY <1>1 DEF Sealed, Sealing, PhaseOf, Ckpts, Phases
<1> QED
  BY <1>1, <1>2, <1>3, <1>4, <1>5, <1>6

\* The simulation's decision is appended.
LEMMA ApproveJournal ==
    ASSUME IndInv, JournalInv, ApproveSimulation
    PROVE  JournalInv'
<1>0. /\ pc = "simulation" /\ approvals = <<>> /\ Durable /\ NoFalseCorruption
      /\ approvals' = Append(approvals, ApprovalRecord(pc))
      /\ UNCHANGED <<records, ckpt, result, effects, entered, asked, decided, budget>>
      /\ pc' = "simulation" /\ step' = "phase" /\ UNCHANGED <<attempt, payload, outcome, val>>
  BY DEF ApproveSimulation, Continue, Goto, world, JournalInv, Walk
<1>1. /\ ~Sealed /\ ckpt # None /\ ckpt \in Ckpts /\ payload \in Payloads
      /\ records \in Seq(Records) /\ records # <<>>
      /\ Verdict(records, payload) /\ ValeIndex = Len(records)
  BY <1>0, AtBoundary DEF Stages
<1>2. PICK a : a = ApprovalRecord(pc)
  OBVIOUS
<1>3. a \in Approvals /\ a.pred = ChainLength /\ a.proposal = payload
  BY <1>0, <1>1, <1>2, CountTypes DEF ApprovalRecord, Approvals, Stages, IndInv
<1>4. /\ approvals \in Seq(Approvals) /\ Len(approvals) = 0 /\ approvals' # <<>>
      /\ Len(approvals') = 1 /\ approvals'[1] = a
  BY <1>0, <1>2, <1>3
<1>5. FoldLinks'
  BY <1>0, <1>1, <1>2, <1>3, <1>4, FoldApprove DEF Durable, Books
<1>6. ~Sealed'
  BY <1>0, <1>1 DEF Sealed
<1>7. ModelCalls' = ModelCalls /\ \A n, s : RecordsOf(n, s)' = RecordsOf(n, s)
  BY <1>0 DEF ModelCalls, RecordsOf
<1>8. Books'
  <2>1. /\ ckpt.chain <= ChainLength /\ ckpt.sequence <= Len(records) /\ Holds(ckpt.state)
        /\ Backed(ckpt.phase)
    BY <1>0, <1>1 DEF Durable, Books
  <2>2. ckpt.chain \in Nat /\ Len(records) \in Nat
    BY <1>1 DEF Ckpts
  <2>3. ckpt'.chain <= ChainLength'
    BY <1>0, <1>4, <2>1, <2>2 DEF ChainLength
  <2>4. Holds(ckpt.state)'
    BY <1>0, <2>1 DEF Holds
  <2>5. Backed(ckpt.phase)'
    BY <1>0, <1>4, <1>7, <2>1 DEF Backed
  <2> QED
    BY <1>0, <1>1, <1>5, <1>6, <2>1, <2>3, <2>4, <2>5 DEF Books
<1>9. Agreed'
  BY <1>0, <1>1, <1>3, <1>4 DEF Durable, Agreed
<1>10. Asked'
  <2>1. asked["production"] = None
    BY <1>0 DEF Durable, Asked
  <2> QED
    BY <1>0, <1>4, <2>1 DEF Durable, Asked
<1>11. Counts' /\ Done'
  <2>1. \A k : Started(k)' = Started(k)
    BY <1>0 DEF Started
  <2>2. result = None
    BY <1>0, <1>1 DEF Durable, Done
  <2> QED
    BY <1>0, <1>7, <2>1, <2>2 DEF Durable, Counts, Done
<1>12. Walk'
  <2>1. Position'
    BY <1>0, <1>1 DEF Position, Nodes, PureNodes, EffectNodes
  <2>2. Answered'
    BY <1>0 DEF Answered
  <2> QED
    BY <1>0, <2>1, <2>2 DEF Walk, NoFalseCorruption
<1> QED
  BY <1>0, <1>8, <1>9, <1>10, <1>11, <1>12 DEF JournalInv, Durable

\* The checkpoint of the simulation's decision, and a decision found again.
LEMMA SimulationJournal ==
    ASSUME IndInv, JournalInv, SimulationCheckpoint \/ ReplaySimulation
    PROVE  JournalInv'
<1>0. /\ pc = "simulation" /\ Durable /\ NoFalseCorruption /\ Still
  BY DEF SimulationCheckpoint, ReplaySimulation, world, Still, JournalInv, Walk
<1>1. /\ ~Sealed /\ ckpt # None /\ ckpt \in Ckpts /\ records \in Seq(Records)
      /\ Verdict(records, payload) /\ ckpt.phase \in 0..4
      /\ RecordsOf("vale_verify", "succeeded") # {}
  BY <1>0, AtBoundary DEF Stages
<1>2. approvals # <<>>
  BY <1>0 DEF SimulationCheckpoint, ReplaySimulation, IndInv, Consent
<1>3. approvals[1].proposal = payload
  BY <1>1, <1>2, OneVerdict DEF JournalInv, Durable, Agreed, Path
<1>4. /\ PhaseOf["simulation"] \in Phases /\ PhaseOf["simulation"] >= ckpt.phase
      /\ PhaseOf["simulation"] >= Sealing <=> ckpt.phase >= Sealing
      /\ PhaseOf["simulation"] = 4
  BY <1>1 DEF PhaseOf, Phases, Sealing
<1>5. Backed(PhaseOf["simulation"])
  <2>1. Backed(PhaseOf["vale_verify"])
    BY <1>0, <1>1, BackedBySuccess DEF PureNodes, EffectNodes
  <2> QED
    BY <1>2, <2>1 DEF Backed, PhaseOf, PureNodes, EffectNodes
<1>6. \/ Advance(PhaseOf["simulation"], ckpt.state, Proceed(pc, None))
      \/ EnsurePhase(PhaseOf["simulation"], Proceed(pc, None))
  BY <1>0, <1>3 DEF SimulationCheckpoint, ReplaySimulation
<1>7. Proceed(pc, None) /\ Durable' /\ Walks
  BY <1>0, <1>1, <1>4, <1>5, <1>6, AdvanceWalks, EnsureWalks
<1>8. pc' = "production" /\ step' = "enter" /\ payload' = payload /\ outcome' = outcome
  BY <1>0, <1>7 DEF Proceed, Goto, NextOf
<1>9. Walk'
  <2>1. Position'
    BY <1>1, <1>7, <1>8 DEF Position, Nodes, PureNodes, EffectNodes, Walks
  <2>2. Answered'
    BY <1>8 DEF Answered
  <2> QED
    BY <1>0, <1>8, <2>1, <2>2 DEF Walk, NoFalseCorruption
<1> QED
  BY <1>7, <1>9 DEF JournalInv

\* The production decision and the seal, in one transaction.
LEMMA SealJournal ==
    ASSUME IndInv, JournalInv, Seal
    PROVE  JournalInv'
<1>0. /\ pc = "production" /\ Durable /\ NoFalseCorruption
      /\ UNCHANGED <<records, result, effects, entered, asked, decided, budget>>
  BY DEF Seal, world, JournalInv, Walk
<1>1. /\ ~Sealed /\ ckpt # None /\ ckpt \in Ckpts /\ payload \in Payloads
      /\ records \in Seq(Records) /\ records # <<>> /\ Len(records) \in DOMAIN records
      /\ Is(records[Len(records)], "vale_verify", "succeeded")
      /\ records[Len(records)].key.in = payload
      /\ Verdict(records, payload) /\ ValeIndex = Len(records)
      /\ RecordsOf("vale_verify", "succeeded") # {}
  BY <1>0, AtBoundary DEF Stages
<1>2. approvals \in Seq(Approvals) /\ approvals # <<>> /\ Len(approvals) <= 1
  BY <1>0, <1>1 DEF IndInv, TypeOK, Consent, Durable, Agreed
<1>3. Len(approvals) = 1
  <2>1. PICK n \in Nat : n = Len(approvals)
    BY <1>2
  <2>2. n # 0
    BY <1>2, <2>1
  <2>3. n <= 1
    BY <1>2, <2>1
  <2> QED
    BY <2>1, <2>2, <2>3
<1>4. PICK a : a = ApprovalRecord(pc)
  OBVIOUS
<1>5. /\ a \in Approvals /\ a.pred = ChainLength /\ a.proposal = payload
      /\ ModelCalls \in Nat /\ ChainLength \in Nat /\ Len(records) \in Nat
  BY <1>0, <1>1, <1>4, CountTypes DEF ApprovalRecord, Approvals, Stages, IndInv
<1>6. /\ approvals' = Append(approvals, a)
      /\ ckpt' = [phase |-> Sealing, chain |-> ChainLength + 1,
                  sequence |-> Len(records), model_calls |-> ModelCalls,
                  model_calls_at_seal |-> ModelCalls,
                  seal |-> [proposal |-> payload, simulation |-> approvals[1], production |-> a],
                  state |-> ckpt.state]
      /\ pc' = "flow_dispatch" /\ step' = "enter"
      /\ UNCHANGED <<attempt, payload, val, outcome>>
  BY <1>3, <1>4 DEF Seal, Goto
<1>7. /\ approvals' # <<>> /\ Len(approvals') = 2 /\ approvals'[1] = approvals[1]
  BY <1>2, <1>3, <1>5, <1>6, SecondAppended
<1>8. /\ ckpt' # None /\ Sealed' /\ ckpt'.phase = 5 /\ ckpt'.chain = ChainLength + 1
      /\ ckpt'.sequence = Len(records) /\ ckpt'.model_calls = ModelCalls
      /\ ckpt'.model_calls_at_seal = ModelCalls /\ ckpt'.state = ckpt.state
      /\ ckpt'.seal.production.pred = ChainLength
  <2>1. /\ ckpt'.phase = 5 /\ ckpt'.chain = ChainLength + 1
        /\ ckpt'.sequence = Len(records) /\ ckpt'.model_calls = ModelCalls
        /\ ckpt'.model_calls_at_seal = ModelCalls /\ ckpt'.state = ckpt.state
        /\ ckpt'.seal.production = a
    BY <1>6 DEF Sealing, PhaseOf
  <2>2. ckpt' \in Ckpts
    <3>1. approvals[1] \in Approvals
      BY <1>2, <1>3
    <3> QED
      BY <1>1, <1>5, <1>6, <3>1 DEF Ckpts, Seals, Phases, Sealing, PhaseOf
  <2>3. ckpt' # None
    BY <2>2, NoneAssumption
  <2> QED
    BY <1>5, <2>1, <2>3 DEF Sealed, Sealing, PhaseOf
<1>9. FoldLinks'
  BY <1>0, <1>1, <1>2, <1>5, <1>6, FoldApprove DEF Durable, Books
<1>10. ModelCalls' = ModelCalls /\ \A n, s : RecordsOf(n, s)' = RecordsOf(n, s)
  BY <1>0 DEF ModelCalls, RecordsOf
<1>11. Books'
  <2>1. Holds(ckpt.state) /\ Backed(PhaseOf["vale_verify"])
    BY <1>0, <1>1, BackedBySuccess DEF Durable, Books, PureNodes, EffectNodes
  <2>2. ChainLength' = ChainLength + 1
    BY <1>0, <1>3, <1>5, <1>7 DEF ChainLength
  <2>3. Holds(ckpt.state)'
    BY <1>0, <1>8, <2>1 DEF Holds
  <2>4. Backed(ckpt.phase)'
    BY <1>7, <1>8, <1>10, <2>1 DEF Backed, PhaseOf, PureNodes, EffectNodes
  <2> QED
    BY <1>0, <1>5, <1>8, <1>9, <1>10, <2>2, <2>3, <2>4 DEF Books
<1>12. Agreed'
  BY <1>0, <1>2, <1>7, <1>8 DEF Durable, Agreed
<1>13. Asked'
  BY <1>0, <1>7, <1>8 DEF Durable, Asked
<1>14. Counts' /\ Done'
  <2>1. \A k : Started(k)' = Started(k)
    BY <1>0 DEF Started
  <2>2. result = None
    BY <1>0, <1>1 DEF Durable, Done
  <2> QED
    BY <1>0, <1>10, <2>1, <2>2 DEF Durable, Counts, Done
<1>15. Walk'
  <2>1. KeyOf(pc)' = Key("flow_dispatch", 0, payload, Len(records) + 1)
    <3>1. ChainLength = Len(records) + 1
      BY <1>3 DEF ChainLength
    <3> QED
      BY <1>6, <1>8, <3>1 DEF KeyOf, Key
  <2>2. PICK r : r = records[Len(records)]
    OBVIOUS
  <2>3. NextKey(r, Len(records)) = Key("flow_dispatch", 0, payload, Len(records) + 1)
    BY <1>1, <2>2 DEF NextKey, Is
  <2>4. OnPath(records', KeyOf(pc)')
    BY <1>0, <1>1, <2>1, <2>2, <2>3 DEF OnPath, Frontier, Ends, Leads, Is
  <2>5. Position'
    BY <1>6, <2>4 DEF Position, Active, Stages
  <2>6. Answered'
    BY <1>6 DEF Answered
  <2> QED
    BY <1>0, <1>6, <2>5, <2>6 DEF Walk, NoFalseCorruption
<1> QED
  BY <1>0, <1>11, <1>12, <1>13, <1>14, <1>15 DEF JournalInv, Durable

-----------------------------------------------------------------------------
(***************************************************************************)
(* execute itself, and its ends.                                           *)
(***************************************************************************)
\* A process that leaves execute for a reason that is no corruption, and a
\* crash, leave the journal as it is.
LEMMA LeaveJournal ==
    ASSUME IndInv, JournalInv, Still, ckpt' = ckpt, Left, outcome' \notin Corrupt
    PROVE  JournalInv'
<1>1. Durable'
  BY NoWriteDurable DEF JournalInv
<1>2. Walk'
  BY LeftWalk
<1> QED
  BY <1>1, <1>2 DEF JournalInv

\* The first call of execute: an empty journal gets its checkpoint.
LEMMA FreshDurable ==
    ASSUME IndInv, Durable, Still, ckpt = None, ckpt' = FreshCheckpoint, result = None
    PROVE  Durable'
<1>1. /\ UNCHANGED <<records, approvals, result, effects, entered, asked, decided, budget>>
      /\ records = <<>> /\ approvals = <<>> /\ ~Sealed
  BY DEF Still, Durable, Books, Sealed
<1>2. /\ ckpt'.phase = 0 /\ ckpt'.chain = 0 /\ ckpt'.sequence = 0 /\ ~Sealed'
  BY DEF FreshCheckpoint, Sealed, Sealing, PhaseOf
<1>3. ModelCalls' = ModelCalls /\ ChainLength' = ChainLength /\ ChainLength = 0
  BY <1>1 DEF ModelCalls, RecordsOf, ChainLength
<1>4. Books'
  <2>1. FoldLinks'
    BY <1>1 DEF FoldLinks
  <2>2. Backed(ckpt.phase)'
    BY <1>2 DEF Backed, PhaseOf, PureNodes, EffectNodes
  <2>3. Holds(ckpt.state)'
    BY <1>1 DEF Holds
  <2> QED
    BY <1>1, <1>2, <1>3, <2>1, <2>2, <2>3 DEF Books
<1>5. Agreed'
  BY <1>1 DEF Agreed
<1>6. Asked'
  <2>1. \A q : Pending(q)' <=> Pending(q)
    BY <1>1, <1>3 DEF Pending
  <2> QED
    BY <1>1, <1>2, <2>1 DEF Asked, Durable
<1>7. Counts' /\ Done'
  <2>1. \A k : Started(k)' = Started(k)
    BY <1>1 DEF Started
  <2> QED
    BY <1>1, <1>3, <2>1 DEF Counts, Done, Durable
<1> QED
  BY <1>1, <1>4, <1>5, <1>6, <1>7 DEF Durable

\* A run is entered on the path: at its first key, or at the dispatch that the
\* seal's place in the chain names.
LEMMA EnterJournal ==
    ASSUME IndInv, Durable, NoFalseCorruption, Enter, Still,
           Sealed => ckpt'.seal = ckpt.seal
    PROVE  Walk'
<1>0. /\ step' = "enter" /\ attempt' = 0 /\ outcome' = None
      /\ \/ Sealed /\ pc' = "flow_dispatch" /\ payload' = ckpt.seal.proposal
         \/ ~Sealed /\ pc' = "prisma_validate" /\ payload' = PlanPayload
  BY DEF Enter, Goto
<1>1. records \in Seq(Records) /\ Path(records) /\ records' = records
  BY DEF IndInv, TypeOK, Durable, Still
<1>2. NoFalseCorruption'
  <2>1. None \notin Corrupt
    BY NoneAssumption DEF Corrupt, Outcomes
  <2> QED
    BY <1>0, <2>1 DEF NoFalseCorruption, Corrupt
<1>3. CASE ~Sealed
  <2>1. KeyOf("prisma_validate")' = FirstKey
    BY <1>0, <1>3 DEF KeyOf, FirstKey
  <2>2. OnPath(records, FirstKey)
    <3>1. CASE records = <<>>
      BY <3>1 DEF OnPath, Frontier
    <3>2. CASE records # <<>>
      BY <1>1, <3>2 DEF OnPath, Path, Linked
    <3> QED
      BY <3>1, <3>2
  <2>3. Position' /\ Answered'
    BY <1>0, <1>1, <1>3, <2>1, <2>2
       DEF Position, Answered, Active, Nodes, PureNodes, EffectNodes, Stages
  <2> QED
    BY <1>2, <2>3 DEF Walk
<1>4. CASE Sealed
  <2>1. /\ approvals \in Seq(Approvals) /\ Len(approvals) = 2 /\ ckpt.seal.production = approvals[2]
        /\ approvals[1].proposal = ckpt.seal.proposal
    BY <1>4 DEF IndInv, TypeOK, Consent
  <2>2. approvals # <<>> /\ 2 \in DOMAIN approvals
    BY <2>1
  <2>3. PICK v \in DOMAIN records :
          Is(records[v], "vale_verify", "succeeded") /\ records[v].key.in = ckpt.seal.proposal
    BY <2>1, <2>2 DEF Durable, Agreed, Verdict
  <2>4. ValeIndex = v /\ v \in Nat
    BY <1>1, <2>3, SoleSuccess DEF Path, ValeIndex
  <2>5. ckpt.seal.production.pred = v + 1
    <3>1. approvals[2].pred = ValeIndex + 2 - 1
      BY <2>2 DEF Durable, Books, FoldLinks
    <3> QED
      BY <2>1, <2>4, <3>1
  <2>6. KeyOf("flow_dispatch")' = NextKey(records[v], v)
    <3>1. KeyOf("flow_dispatch")' = Key("flow_dispatch", 0, ckpt.seal.proposal, v + 1)
      BY <1>0, <1>4, <2>5 DEF KeyOf, Key
    <3>2. NextKey(records[v], v) = Key("flow_dispatch", 0, ckpt.seal.proposal, v + 1)
      BY <2>3 DEF NextKey, Is
    <3> QED
      BY <3>1, <3>2
  <2>7. OnPath(records, NextKey(records[v], v))
    BY <1>1, <2>3, PathLeadsOn DEF Path, Ends, Leads, Is
  <2>8. Position' /\ Answered'
    BY <1>0, <1>1, <1>4, <2>6, <2>7
       DEF Position, Answered, Active, Nodes, PureNodes, EffectNodes, Stages
  <2> QED
    BY <1>2, <2>8 DEF Walk
<1> QED
  BY <1>3, <1>4

\* execute loads a journal that folds, catches its checkpoint up and enters it.
LEMMA ExecuteJournal ==
    ASSUME IndInv, JournalInv, Execute
    PROVE  JournalInv'
<1>0. /\ Durable /\ NoFalseCorruption /\ Still /\ result = None /\ FoldLinks
      /\ ckpt \in Ckpts \cup {None}
  BY DEF Execute, world, Still, JournalInv, Walk, Durable, Books, IndInv, TypeOK
<1>1. CASE ckpt = None
  <2>1. ChainLength = 0
    BY <1>0, <1>1 DEF Durable, Books, ChainLength
  <2>2. ckpt' = FreshCheckpoint /\ Enter
    BY <1>0, <1>1, <2>1 DEF Execute
  <2>3. Durable' /\ ~Sealed
    BY <1>0, <1>1, <2>2, FreshDurable DEF Sealed
  <2>4. Walk'
    BY <1>0, <2>2, <2>3, EnterJournal
  <2> QED
    BY <2>3, <2>4 DEF JournalInv
<1>2. CASE ckpt # None
  <2>1. /\ ckpt \in Ckpts /\ ckpt.phase \in Phases /\ ckpt.chain \in Nat /\ ChainLength \in Nat
        /\ ckpt.phase \in Int /\ Backed(ckpt.phase)
    BY <1>0, <1>2, CountTypes DEF Ckpts, Phases, Durable, Books, IndInv
  <2>2. ~(ckpt.chain > ChainLength)
    BY <1>0, <1>2, <2>1 DEF Durable, Books
  <2>4. Advance(ckpt.phase, ckpt.state,
                IF Sealed /\ ~RevalidateSealed THEN Leave("STATE_CORRUPTION") ELSE Enter)
    BY <1>0, <1>2, <2>2 DEF Execute
  <2>5. /\ IF Sealed /\ ~RevalidateSealed THEN Leave("STATE_CORRUPTION") ELSE Enter
        /\ Durable' /\ Walks
    BY <1>0, <1>2, <2>1, <2>4, AdvanceWalks
  <2>6. Sealed => RevalidateSealed
    BY DEF IndInv, Consent, RevalidateSealed
  <2>7. Walk'
    BY <1>0, <2>5, <2>6, EnterJournal DEF Walks
  <2> QED
    BY <2>5, <2>7 DEF JournalInv
<1> QED
  BY <1>1, <1>2

\* What is stored as the result is what the certificate's record holds.
LEMMA FinaliseJournal ==
    ASSUME IndInv, JournalInv, Finalise
    PROVE  JournalInv'
<1>0. /\ pc = "finalise" /\ Durable /\ NoFalseCorruption /\ ckpt # None /\ Sealed
      /\ UNCHANGED <<records, approvals, ckpt, effects, entered, asked, decided, budget>>
  BY DEF Finalise, world, JournalInv, Walk, IndInv, Control, PostSeal
<1>1. ProvesModelFree /\ FoldLinks
  BY <1>0 DEF Durable, Books, ProvesModelFree
<1>2. /\ result' = [proposal |-> ckpt.seal.proposal,
                    certificate |-> ckpt.state[<<"forge_certify", 0>>],
                    trace |-> Len(records), repair_attempts |-> ModelCalls]
      /\ pc' = "finalise" /\ step' = "return" /\ UNCHANGED <<attempt, payload, outcome, val>>
  BY <1>0, <1>1 DEF Finalise, Continue, Goto
<1>3. PICK i \in DOMAIN records : Is(records[i], "forge_certify", "succeeded")
  BY <1>0 DEF JournalInv, Walk, Position, RecordsOf, Is
<1>4. records[i].out = ckpt.state[<<"forge_certify", 0>>]
  BY <1>0, <1>3 DEF Durable, Books, Holds, Is, HasSlot
<1>5. /\ \A k : Started(k)' = Started(k) /\ ModelCalls' = ModelCalls
      /\ \A n, s : RecordsOf(n, s)' = RecordsOf(n, s)
      /\ Sealed' = Sealed /\ ChainLength' = ChainLength
  BY <1>0 DEF Started, ModelCalls, RecordsOf, Sealed, ChainLength
<1>6. Done'
  <2>1. result'.proposal = ckpt.seal.proposal /\ result'.certificate = records[i].out
    BY <1>2, <1>4
  <2> QED
    BY <1>0, <1>3, <1>5, <2>1 DEF Durable, Done
<1>7. Books' /\ Agreed' /\ Asked' /\ Counts'
  <2>1. FoldLinks' /\ \A q : Pending(q)' <=> Pending(q)
    BY <1>0, <1>1 DEF FoldLinks, ChainBefore, ChainAt, ValeIndex, RecordsOf, Pending, ChainLength
  <2>2. Holds(ckpt.state)' /\ Backed(ckpt.phase)'
    BY <1>0, <1>5 DEF Durable, Books, Holds, Backed
  <2>3. Books'
    BY <1>0, <1>5, <2>1, <2>2 DEF Durable, Books
  <2>4. Agreed' /\ Asked' /\ Counts'
    BY <1>0, <1>5, <2>1 DEF Durable, Agreed, Asked, Counts
  <2> QED
    BY <2>3, <2>4
<1>8. Durable'
  BY <1>0, <1>6, <1>7 DEF Durable
<1>9. Walk'
  <2>1. Position'
    BY <1>0, <1>2, <1>3, <1>5 DEF Position, Nodes, PureNodes, EffectNodes, Stages, RecordsOf, Is
  <2>2. Answered'
    BY <1>2 DEF Answered, Nodes, PureNodes, EffectNodes
  <2> QED
    BY <1>0, <1>2, <2>1, <2>2 DEF Walk, NoFalseCorruption
<1> QED
  BY <1>8, <1>9 DEF JournalInv

\* No step of execute, of the approver or of a crash breaks the journal.
LEMMA StepJournal == IndInv /\ JournalInv /\ [Next]_vars => JournalInv'
<1> SUFFICES ASSUME IndInv, JournalInv, [Next]_vars PROVE JournalInv'
  OBVIOUS
<1>1. ASSUME NEW n \in Nodes, Node(n) PROVE JournalInv'
  BY <1>1, ReplayPureJournal, ReplayEffectJournal, BeginJournal, IntentJournal, InvokeJournal,
     OutputJournal, EndJournal, EndCheckpointJournal
     DEF Node
<1>2. CASE Boundary
  BY <1>2, AskJournal, ApproveJournal, SimulationJournal, SealJournal DEF Boundary
<1>3. CASE ReturnFinished \/ Return \/ RepairRefused \/ ModelBudgetRefused \/ Crash
  <2>1. /\ Still /\ ckpt' = ckpt
        /\ \E c \in {"done", "crashed", "REPAIR_BUDGET_EXHAUSTED", "MODEL_BUDGET_EXHAUSTED"} :
             Leave(c)
    BY <1>3 DEF ReturnFinished, Return, RepairRefused, ModelBudgetRefused, Crash, store, world, Still
  <2>2. Left /\ outcome' \notin Corrupt
    BY <2>1, LeaveLeft DEF Outcomes, Corrupt, Leave
  <2> QED
    BY <2>1, <2>2, LeaveJournal
<1>4. CASE UNCHANGED vars
  <2>1. UNCHANGED <<records, approvals, ckpt, result, effects, entered, asked, decided, budget,
                    pc, step, attempt, payload, val, outcome>>
    BY <1>4 DEF vars
  <2>2. Durable'
    BY <2>1, NoWriteDurable DEF Still, JournalInv
  <2>3. /\ KeyOf(pc)' = KeyOf(pc) /\ SlotOf(pc)' = SlotOf(pc) /\ ModelCalls' = ModelCalls
        /\ \A n, s : RecordsOf(n, s)' = RecordsOf(n, s)
    BY <2>1, SameJournal DEF KeyOf, SlotOf
  <2>4. Position'
    BY <2>1, <2>3 DEF JournalInv, Walk, Position
  <2>5. Answered' /\ NoFalseCorruption'
    BY <2>1, <2>3 DEF JournalInv, Walk, Answered, NoFalseCorruption
  <2> QED
    BY <2>2, <2>4, <2>5 DEF JournalInv, Walk
<1>5. CASE InvokeRepair
  <2>1. "prisma_repair" \in Nodes
    BY DEF Nodes
  <2> QED
    BY <1>5, <2>1, InvokeJournal
<1>6. CASE Execute \/ Finalise
  BY <1>6, ExecuteJournal, FinaliseJournal
<1>7. ASSUME NEW s \in Stages, Decide(s) PROVE JournalInv'
  BY <1>7, DecideJournal
<1> QED
  BY <1>1, <1>2, <1>3, <1>4, <1>5, <1>6, <1>7 DEF Next, Worker

\* An empty journal is a path.
LEMMA InitJournal == Init => JournalInv
<1> SUFFICES ASSUME Init PROVE JournalInv
  OBVIOUS
<1>1. /\ records = <<>> /\ approvals = <<>> /\ ckpt = None /\ result = None /\ effects = {}
      /\ entered = 0 /\ asked = [s \in Stages |-> None] /\ decided = [s \in Stages |-> None]
      /\ budget \in Nat /\ pc = "idle" /\ outcome = None /\ ~Sealed
  BY BudgetAssumption DEF Init, Sealed
<1>2. ModelCalls = 0
  <2>1. RecordsOf("prisma_repair", "started") = {}
    BY <1>1 DEF RecordsOf
  <2> QED
    BY <2>1, FS_EmptySet DEF ModelCalls
<1>3. Path(records)
  BY <1>1 DEF Path, Ordered, Linked
<1>4. Books
  BY <1>1 DEF Books, FoldLinks
<1>5. Agreed /\ Asked
  BY <1>1 DEF Agreed, Asked, Stages
<1>6. Counts /\ Done
  BY <1>1, <1>2, BudgetAssumption DEF Counts, Done
<1>7. Position /\ Answered
  BY <1>1 DEF Position, Answered, Nodes, PureNodes, EffectNodes, Stages
<1>8. NoFalseCorruption
  BY <1>1, NoneAssumption DEF NoFalseCorruption, Outcomes
<1> QED
  BY <1>3, <1>4, <1>5, <1>6, <1>7, <1>8 DEF JournalInv, Durable, Walk

\* The journal is one path in every state of every run.
LEMMA JournalInvariance == Spec => [](IndInv /\ JournalInv)
<1>1. Init => IndInv /\ JournalInv
  BY InitInv, InitJournal
<1>2. IndInv /\ JournalInv /\ [Next]_vars => (IndInv /\ JournalInv)'
  BY StepInv, StepJournal
<1> QED
  BY <1>1, <1>2, PTL DEF Spec

\* Two records with one effect node have one key.
LEMMA OneKeyPerNode ==
    ASSUME records \in Seq(Records), Ordered(records), NEW i \in DOMAIN records,
           NEW j \in DOMAIN records, records[i].key.node \in EffectNodes,
           records[i].key.node = records[j].key.node
    PROVE  records[i].key = records[j].key
<1>1. Rank(records[i].key) = Rank(records[j].key)
  BY DEF Rank, EffectNodes
<1>2. i \in Nat /\ j \in Nat
  OBVIOUS
<1>3. CASE i < j
  BY <1>1, <1>3 DEF Ordered
<1>4. CASE j < i
  BY <1>1, <1>4 DEF Ordered
<1> QED
  BY <1>2, <1>3, <1>4

\* A key's intents come before its one terminal record, and only a repair has
\* several.
LEMMA KeyOnce ==
    ASSUME records \in Seq(Records), Path(records)
    PROVE  JournalOnce
<1> SUFFICES ASSUME NEW i \in DOMAIN records, NEW j \in DOMAIN records,
                    records[i].key = records[j].key
             PROVE  /\ Ends(records[i]) /\ Ends(records[j]) => i = j
                    /\ ~Ends(records[i]) /\ Ends(records[j]) => i < j
                    /\ (~Ends(records[i]) /\ ~Ends(records[j])
                         /\ records[i].key.node # "prisma_repair") => i = j
  BY DEF JournalOnce, Ends
<1>0. /\ i \in Nat /\ j \in Nat /\ i >= 1 /\ j >= 1 /\ i <= Len(records) /\ j <= Len(records)
      /\ Len(records) \in Nat /\ DOMAIN records = 1..Len(records)
      /\ Rank(records[i].key) \in Int /\ Ordered(records) /\ Linked(records)
  BY RowType DEF Path
<1>1. ~(i < j /\ Ends(records[i])) /\ ~(j < i /\ Ends(records[j]))
  BY <1>0 DEF Ordered
<1>2. ASSUME NEW a \in DOMAIN records, NEW b \in DOMAIN records, a < b, ~Ends(records[a]),
             ~Ends(records[b]), records[a].key = records[b].key,
             records[a].key.node # "prisma_repair"
      PROVE  FALSE
  <2>1. a + 1 \in DOMAIN records /\ a \in Nat /\ b \in Nat
    BY <1>0, <1>2
  <2>2. records[a + 1].key = records[a].key /\ Ends(records[a + 1])
    BY <1>0, <1>2, <2>1 DEF Linked
  <2>3. a + 1 # b
    BY <1>2, <2>2
  <2>4. a + 1 < b
    BY <1>2, <2>1, <2>3
  <2>5. Rank(records[a + 1].key) < Rank(records[b].key)
    BY <1>0, <2>1, <2>2, <2>4 DEF Ordered
  <2>6. Rank(records[b].key) \in Int
    BY RowType
  <2> QED
    BY <1>2, <2>2, <2>5, <2>6
<1>3. Ends(records[i]) /\ Ends(records[j]) => i = j
  BY <1>0, <1>1
<1>4. ~Ends(records[i]) /\ Ends(records[j]) => i < j
  <2>1. i = j => Ends(records[i]) = Ends(records[j])
    OBVIOUS
  <2> QED
    BY <1>0, <1>1, <2>1
<1>5. (~Ends(records[i]) /\ ~Ends(records[j]) /\ records[i].key.node # "prisma_repair") => i = j
  <2>1. ~(i < j) \/ records[i].key.node = "prisma_repair" \/ Ends(records[i]) \/ Ends(records[j])
    BY <1>2
  <2>2. ~(j < i) \/ records[i].key.node = "prisma_repair" \/ Ends(records[i]) \/ Ends(records[j])
    BY <1>2
  <2> QED
    BY <1>0, <2>1, <2>2
<1> QED
  BY <1>3, <1>4, <1>5

\* The trust spine's journal holds what whoever resumes is promised: whatever
\* the crashes, one key per effect, intent before effect, outputs behind
\* successes, one terminal record per key, phases backed by records, and no
\* resume of TrustSpineRuntime.execute that takes its own journal for corrupt.
THEOREM JournalIsSound == Spec => []JournalSound
<1>1. IndInv /\ JournalInv => JournalSound
  <2> SUFFICES ASSUME IndInv, JournalInv PROVE JournalSound
    OBVIOUS
  <2>0. /\ records \in Seq(Records) /\ Path(records) /\ Ordered(records) /\ Books /\ Counts /\ Done
        /\ NoFalseCorruption
    BY DEF IndInv, TypeOK, JournalInv, Durable, Path, Walk
  <2>1. OneKeyPerEffect
    <3> SUFFICES ASSUME NEW e \in effects, NEW f \in effects, e.key.node = f.key.node
                 PROVE  e.key = f.key
      BY DEF OneKeyPerEffect
    <3>1. PICK i \in DOMAIN records : records[i].key = e.key
      BY <2>0 DEF Done, Started
    <3>2. PICK j \in DOMAIN records : records[j].key = f.key
      BY <2>0 DEF Done, Started
    <3> QED
      BY <2>0, <3>1, <3>2, OneKeyPerNode DEF Done
  <2>2. IntentBeforeEffect
    BY <2>0 DEF IntentBeforeEffect, Done, Counts
  <2>3. OutputDurable
    <3>1. CASE ckpt = None
      BY <2>0, <3>1 DEF Books, OutputDurable
    <3>2. CASE ckpt # None
      BY <2>0, <3>2 DEF Books, Holds, OutputDurable
    <3> QED
      BY <3>1, <3>2
  <2>4. JournalOnce
    BY <2>0, KeyOnce
  <2>5. PhaseBacked
    BY <2>0 DEF Books, Backed, PhaseBacked
  <2> QED
    BY <2>0, <2>1, <2>2, <2>3, <2>4, <2>5 DEF JournalSound
<1> QED
  BY <1>1, JournalInvariance, PTL

\* The result _finalise stores is what the effects did: its certificate was
\* issued for a reconciliation of a dispatch of the approved proposal.
THEOREM ResultIsFaithful == Spec => []ResultFaithful
<1>1. IndInv /\ JournalInv => ResultFaithful
  <2> SUFFICES ASSUME IndInv, JournalInv, result # None PROVE ResultFaithful
    BY DEF ResultFaithful
  <2>0. /\ \A i \in DOMAIN records : Root(records, records[i].key)
        /\ Done
    BY DEF JournalInv, Durable, Path
  <2>1. Sealed /\ result.proposal = ckpt.seal.proposal
    BY <2>0 DEF Done
  <2>2. PICK c \in DOMAIN records :
          Is(records[c], "forge_certify", "succeeded") /\ records[c].out = result.certificate
    BY <2>0 DEF Done
  <2>3. PICK l \in DOMAIN records :
          Is(records[l], "ledger_reconcile", "succeeded") /\ records[l].out = records[c].key.in
    BY <2>0, <2>2 DEF Root, Is
  <2>4. PICK d \in DOMAIN records :
          Is(records[d], "flow_dispatch", "succeeded") /\ records[d].out = records[l].key.in
    BY <2>0, <2>3 DEF Root, Is
  <2>5. /\ [key |-> records[d].key, answer |-> records[d].out] \in effects
        /\ [key |-> records[l].key, answer |-> records[l].out] \in effects
        /\ [key |-> records[c].key, answer |-> records[c].out] \in effects
    BY <2>0, <2>2, <2>3, <2>4 DEF Done, Is, EffectNodes
  <2>6. records[d].key.in = ckpt.seal.proposal
    BY <2>1, <2>4, <2>5 DEF IndInv, Consent, Is
  <2> QED
    BY <2>1, <2>2, <2>3, <2>4, <2>5, <2>6 DEF ResultFaithful, Is
<1> QED
  BY <1>1, JournalInvariance, PTL
=============================================================================
