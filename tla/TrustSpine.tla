------------------------------ MODULE TrustSpine ------------------------------
(***************************************************************************)
(* The trust spine (agent_runtime/trust_spine): the post-plan kernel that  *)
(* drives one frozen plan through                                          *)
(*                                                                         *)
(*   prisma_validate (<-> prisma_repair) -> deterministic_policy ->        *)
(*   vale_verify -> simulation approval -> production approval (the seal)  *)
(*   -> flow_dispatch -> ledger_reconcile -> forge_certify -> result       *)
(*                                                                         *)
(* TrustSpineRuntime.execute runs in the caller's process.  Every durable  *)
(* write to the StateStore and every call of a port is one step here, so a *)
(* crash may fall between any two of them; the caller resumes by calling   *)
(* execute again with the same plan, which re-walks the journal.           *)
(*                                                                         *)
(* Data abstraction.  A payload, a receipt, a report and a certificate are *)
(* opaque values.  A SHA-256 digest is the value it digests, and a digest  *)
(* of the hash chain is the number of items folded into it: the store is   *)
(* append-only and one execute runs at a time, so two chain values of one  *)
(* run are equal exactly when they fold equally many items in the same     *)
(* order.  An idempotency key is the record of the material it is derived  *)
(* from.                                                                   *)
(***************************************************************************)
EXTENDS Integers, Sequences, FiniteSets

CONSTANTS
    Payloads,         \* candidate proposal payloads
    PlanPayload,      \* the payload of the frozen plan
    Valid,            \* payloads prisma_validate accepts
    Allowed,          \* payloads the policy configuration allows
    Verified,         \* payloads Vale's own configuration re-derives
    Answers,          \* what dispatcher, ledger reader and signer may answer
    MaxRepairs,       \* BudgetPolicy.max_repairs
    ModelBudgets,     \* BudgetPolicy.max_model_calls that plans may carry
    ReaderIdempotent, \* whether the ledger reader repeats its answer to a key
    MaxCrashes,       \* bound on crashes of the caller's process
    None

ASSUME PayloadAssumption ==
    /\ PlanPayload \in Payloads
    /\ Valid \subseteq Payloads /\ Allowed \subseteq Valid /\ Verified \subseteq Allowed
    /\ None \notin Payloads /\ None \notin Answers

ASSUME BudgetAssumption ==
    /\ MaxRepairs \in 0..3
    /\ ModelBudgets \subseteq 0..30
    /\ ReaderIdempotent \in BOOLEAN
    /\ MaxCrashes \in Nat

PureNodes   == {"prisma_validate", "deterministic_policy", "vale_verify"}
EffectNodes == {"flow_dispatch", "ledger_reconcile", "forge_certify"}
Nodes       == PureNodes \cup EffectNodes \cup {"prisma_repair"}
Stages      == {"simulation", "production"}

VARIABLES
    \* durable, in the StateStore
    records,    \* append-only sequence of node records
    approvals,  \* append-only sequence of approval records
    ckpt,       \* the resumable checkpoint
    result,     \* the stored RunResult
    \* the outside world
    effects,    \* what the ports were asked and answered, by idempotency key
    entered,    \* how often the model adapter was really entered
    asked,      \* per stage, the question the approval authority has seen
    decided,    \* per stage, the approver's decision about that question
    budget,     \* max_model_calls of the frozen plan execute is given
    \* volatile, in the process that runs execute
    pc, step,   \* node or boundary being driven, and where in its driver
    attempt,    \* the repair attempt of the _propose loop
    payload,    \* the candidate (later: validated) payload
    val,        \* the answer of a node before it is durable
    outcome,    \* how the last call of execute ended
    crashes

store    == <<records, approvals, ckpt, result>>
world    == <<effects, entered, asked, decided, budget>>
volatile == <<pc, step, attempt, payload, val, outcome>>
vars     == <<records, approvals, ckpt, result, effects, entered, asked, decided, budget,
              pc, step, attempt, payload, val, outcome, crashes>>

(***************************************************************************)
(* Phases (RunPhase, in PHASE_ORDER).                                      *)
(***************************************************************************)
PhaseOf ==
    [prisma_validate |-> 1, deterministic_policy |-> 2, vale_verify |-> 3,
     simulation |-> 4, production |-> 5,
     flow_dispatch |-> 6, ledger_reconcile |-> 7, forge_certify |-> 8]

Phases  == 0..8
Sealing == PhaseOf["production"]

Sealed == ckpt # None /\ ckpt.phase >= Sealing

(***************************************************************************)
(* Checkpoint state: one slot per repair attempt and one per other output. *)
(***************************************************************************)
Slots == ({"prisma_validate"} \cup EffectNodes) \X {0}
           \cup {"prisma_repair"} \X (1..MaxRepairs)

\* Nodes whose driver is given a state_key.
HasSlot(n) == n \notin {"deterministic_policy", "vale_verify"}
SlotOf(n)  == IF n = "prisma_repair" THEN <<n, attempt>> ELSE <<n, 0>>

FreshCheckpoint ==
    [phase |-> 0, chain |-> 0, sequence |-> 0, model_calls |-> 0,
     model_calls_at_seal |-> None, seal |-> None, state |-> [s \in Slots |-> None]]

(***************************************************************************)
(* The journal's chain.  _fold walks the node records in append order with *)
(* the approvals folded right after the first successful vale_verify.      *)
(***************************************************************************)
First(I) == IF I = {} THEN 0 ELSE CHOOSE i \in I : \A j \in I : i <= j

RecordsOf(n, s) ==
    {i \in DOMAIN records : records[i].key.node = n /\ records[i].status = s}

ValeIndex == First(RecordsOf("vale_verify", "succeeded"))

ChainLength == Len(records) + Len(approvals)

\* The chain value after record i, and the one before it.
ChainAt(i)  == IF ValeIndex # 0 /\ ValeIndex < i THEN i + Len(approvals) ELSE i
ChainBefore(i) == ChainAt(i) - 1

FoldLinks ==
    /\ \A i \in DOMAIN records : records[i].pred = ChainBefore(i)
    /\ \A k \in DOMAIN approvals :
          ValeIndex # 0 /\ approvals[k].pred = ValeIndex + k - 1

\* chain_through(LEDGER_RECONCILE, SUCCEEDED)
LedgerChain == ChainAt(First(RecordsOf("ledger_reconcile", "succeeded")))

\* preapproval_attempt_count, which is also the sum of the charged deltas:
\* exactly the started records of prisma_repair charge one call.
ModelCalls == Cardinality(RecordsOf("prisma_repair", "started"))

(***************************************************************************)
(* Idempotency keys (derive_idempotency_key, derive_effect_key).           *)
(***************************************************************************)
\* Slips: a key derived from the chain's head, or from the wrong output.
KeyAtHead(n) ==
    [node |-> n, attempt |-> IF n = "prisma_repair" THEN attempt ELSE 0,
     in   |-> IF n \in EffectNodes THEN None ELSE payload,
     at   |-> IF n \in EffectNodes THEN ChainLength ELSE 0]

KeyOfReceipt(n) ==
    [node    |-> n,
     attempt |-> IF n \in {"prisma_validate", "prisma_repair"} THEN attempt ELSE 0,
     in      |-> IF n \in {"ledger_reconcile", "forge_certify"}
                   THEN ckpt.state[<<"flow_dispatch", 0>>] ELSE payload,
     at      |-> 0]

KeyOf(n) ==
    [node    |-> n,
     attempt |-> IF n \in {"prisma_validate", "prisma_repair"} THEN attempt ELSE 0,
     in      |-> CASE n = "ledger_reconcile" -> ckpt.state[<<"flow_dispatch", 0>>]
                   [] n = "forge_certify"    -> ckpt.state[<<"ledger_reconcile", 0>>]
                   [] OTHER                  -> payload,
     at      |-> CASE n \in {"flow_dispatch", "ledger_reconcile"} -> ckpt.seal.production.pred
                   [] n = "forge_certify" -> LedgerChain
                   [] OTHER -> 0]

Started(k)   == \E i \in DOMAIN records : records[i].key = k /\ records[i].status = "started"
Terminals(k) == {i \in DOMAIN records : records[i].key = k /\ records[i].status # "started"}
Terminal(k)  == records[First(Terminals(k))]

(***************************************************************************)
(* What the deterministic kernels compute: the payload they accept or the  *)
(* refusal they raise.  The policy node also reads the registry, which may *)
(* refuse (FlowKernel.resolve).                                            *)
(***************************************************************************)
Accepts(n) ==
    payload \in CASE n = "prisma_validate"      -> Valid
                  [] n = "deterministic_policy" -> Allowed
                  [] n = "vale_verify"          -> Verified

Refusal(n) ==
    CASE n = "prisma_validate"      -> "PROPOSAL_INVALID"
      [] n = "deterministic_policy" -> "POLICY_DENIED"
      [] n = "vale_verify"          -> "VALE_REFUSED"

Compute(n) ==
    {IF Accepts(n) THEN payload ELSE Refusal(n)}
      \cup (IF n = "deterministic_policy" THEN {"TEMPLATE_NOT_REGISTERED"} ELSE {})

-----------------------------------------------------------------------------
(***************************************************************************)
(* Where control goes.  An exception leaves execute; the volatile state of *)
(* the process is gone and the caller may call execute again.              *)
(***************************************************************************)
Goto(where, s) == pc' = where /\ step' = s

Leave(code) ==
    /\ Goto("idle", "enter")
    /\ outcome' = code
    /\ attempt' = 0 /\ payload' = None /\ val' = None

Continue(s) ==
    /\ Goto(pc, s)
    /\ UNCHANGED <<attempt, payload, outcome>>

NextOf ==
    [prisma_validate |-> "deterministic_policy", deterministic_policy |-> "vale_verify",
     vale_verify |-> "simulation", simulation |-> "production",
     prisma_repair |-> "prisma_validate",
     flow_dispatch |-> "ledger_reconcile", ledger_reconcile |-> "forge_certify",
     forge_certify |-> "finalise"]

\* Node or boundary n is durably complete with output v.
Proceed(n, v) ==
    /\ Goto(NextOf[n], "enter")
    /\ payload' = IF n = "prisma_repair" THEN v ELSE payload
    /\ val' = None
    /\ UNCHANGED <<attempt, outcome>>

\* Slip: one repair too many.
RaiseFromLate(n, code) ==
    IF n = "prisma_validate" /\ attempt <= MaxRepairs
      THEN /\ Goto("prisma_repair", "enter")
           /\ attempt' = attempt + 1 /\ val' = None
           /\ UNCHANGED <<payload, outcome>>
      ELSE Leave(code)

\* _propose catches the ValidationError of prisma_validate, and of nothing else.
RaiseFrom(n, code) ==
    IF n = "prisma_validate" /\ attempt + 1 <= MaxRepairs
      THEN /\ Goto("prisma_repair", "enter")
           /\ attempt' = attempt + 1 /\ val' = None
           /\ UNCHANGED <<payload, outcome>>
      ELSE Leave(IF n = "prisma_validate" THEN "REPAIR_BUDGET_EXHAUSTED" ELSE code)

(***************************************************************************)
(* Durable writes.  Advance is Journal._write: RunCheckpoint.advanced,     *)
(* with its refusals, then StateStore.write_checkpoint.                    *)
(***************************************************************************)
AdvanceRefusal(phase) ==
    IF phase < ckpt.phase \/ Len(records) < ckpt.sequence THEN "STATE_CORRUPTION"
    ELSE IF Sealed /\ ModelCalls # ckpt.model_calls THEN "POST_APPROVAL_MODEL_CALL"
    ELSE "ok"

\* Slip: the checkpoint is built anew and what the seal froze is not carried.
AdvanceAnew(phase, state, cont) ==
    /\ ckpt' = [FreshCheckpoint EXCEPT !.phase = phase, !.chain = ChainLength,
                                       !.sequence = Len(records),
                                       !.model_calls = ModelCalls, !.state = state]
    /\ cont

Advance(phase, state, cont) ==
    IF AdvanceRefusal(phase) = "ok"
      THEN /\ ckpt' = [ckpt EXCEPT !.phase = phase, !.chain = ChainLength,
                                   !.sequence = Len(records),
                                   !.model_calls = ModelCalls, !.state = state]
           /\ cont
      ELSE UNCHANGED ckpt /\ Leave(AdvanceRefusal(phase))

EnsurePhase(phase, cont) ==
    IF ckpt.phase < phase THEN Advance(phase, ckpt.state, cont)
                          ELSE UNCHANGED ckpt /\ cont

AppendRecord(n, s, o) ==
    records' = Append(records, [key |-> KeyOf(n), status |-> s, out |-> o,
                                pred |-> ChainLength])

(***************************************************************************)
(* The node drivers, _pure_node and _effect_node.                          *)
(***************************************************************************)
\* A terminal record answers a pure node: it is recomputed and compared.
ReplayPure(n) ==
    /\ pc = n /\ step = "enter" /\ n \in PureNodes
    /\ Terminals(KeyOf(n)) # {}
    /\ \E o \in Compute(n) :
          LET r == Terminal(KeyOf(n)) IN
          CASE r.status = "succeeded" /\ o = payload /\ o = r.out ->
                 EnsurePhase(PhaseOf[n], Proceed(n, o))
            [] o # payload /\ (r.status = "failed" => o = r.out) ->
                 UNCHANGED ckpt /\ RaiseFrom(n, o)
            [] OTHER -> UNCHANGED ckpt /\ Leave("RESULT_CORRUPTION")
    /\ UNCHANGED <<records, approvals, result, world, crashes>>

\* _repair refuses before it looks for a durable answer.
RepairRefused ==
    /\ pc = "prisma_repair" /\ step = "enter"
    /\ ModelCalls >= MaxRepairs
    /\ Leave("REPAIR_BUDGET_EXHAUSTED")
    /\ UNCHANGED <<store, world, crashes>>

EntryAllowed(n) == n = "prisma_repair" => ModelCalls < MaxRepairs

\* A terminal record answers an effect node: its output is decoded from the
\* checkpoint and the port is not touched.  The code raises STATE_CORRUPTION
\* for a node that failed terminally too; NODE_FAILED tells the two apart.
ReplayEffect(n) ==
    /\ pc = n /\ step = "enter" /\ n \notin PureNodes
    /\ EntryAllowed(n)
    /\ Terminals(KeyOf(n)) # {}
    /\ LET r == Terminal(KeyOf(n))
           stored == ckpt.state[SlotOf(n)]
       IN  IF r.status = "succeeded" /\ stored = r.out
             THEN EnsurePhase(IF n = "prisma_repair" THEN ckpt.phase ELSE PhaseOf[n],
                              Proceed(n, stored))
             ELSE /\ UNCHANGED ckpt
                  /\ Leave(IF r.status = "failed" THEN "NODE_FAILED"
                           ELSE IF stored = None THEN "STATE_CORRUPTION"
                           ELSE "RESULT_CORRUPTION")
    /\ UNCHANGED <<records, approvals, result, world, crashes>>

\* Journal.begin finds the intent of an earlier call and reuses it.
ReuseIntent(n) ==
    /\ pc = n /\ step = "enter" /\ n # "prisma_repair"
    /\ Terminals(KeyOf(n)) = {} /\ Started(KeyOf(n))
    /\ Continue("invoke") /\ UNCHANGED val
    /\ UNCHANGED <<store, world, crashes>>

ModelBudgetRefused ==
    /\ pc = "prisma_repair" /\ step = "enter" /\ EntryAllowed(pc)
    /\ Terminals(KeyOf(pc)) = {}
    /\ ModelCalls + 1 > budget
    /\ Leave("MODEL_BUDGET_EXHAUSTED")
    /\ UNCHANGED <<store, world, crashes>>

\* Journal.begin appends the intent.  A model call is charged anew on every
\* entry, so prisma_repair never reuses one.
Begin(n) ==
    /\ pc = n /\ step = "enter" /\ EntryAllowed(n)
    /\ Terminals(KeyOf(n)) = {}
    /\ IF n = "prisma_repair" THEN ModelCalls + 1 <= budget ELSE ~Started(KeyOf(n))
    /\ AppendRecord(n, "started", None)
    /\ Continue("intent") /\ UNCHANGED val
    /\ UNCHANGED <<approvals, ckpt, result, world, crashes>>

BeginCheckpoint(n) ==
    /\ pc = n /\ step = "intent"
    /\ Advance(ckpt.phase, ckpt.state, Continue("invoke") /\ UNCHANGED val)
    /\ UNCHANGED <<records, approvals, result, world, crashes>>

AfterInvoke(n) == IF HasSlot(n) THEN "output" ELSE "success"

InvokePure(n) ==
    /\ pc = n /\ step = "invoke" /\ n \in PureNodes
    /\ \E o \in Compute(n) :
          /\ val' = o
          /\ Continue(IF o = payload THEN AfterInvoke(n) ELSE "failed")
    /\ UNCHANGED <<store, world, crashes>>

\* The model adapter answers any payload, or raises.
InvokeRepair ==
    /\ pc = "prisma_repair" /\ step = "invoke"
    /\ entered' = entered + 1
    /\ \E o \in Payloads \cup {"ADAPTER_FAILURE"} :
          /\ val' = o
          /\ Continue(IF o \in Payloads THEN "output" ELSE "failed")
    /\ UNCHANGED <<store, effects, asked, decided, budget, crashes>>

\* Dispatcher and signer are idempotent on the key; the reader need not be.
PortAnswers(n) ==
    LET known == {e.answer : e \in {f \in effects : f.key = KeyOf(n)}}
    IN  IF known = {} \/ (n = "ledger_reconcile" /\ ~ReaderIdempotent)
          THEN Answers ELSE known

\* The port takes effect and answers, takes effect and raises, or raises.
InvokePort(n) ==
    /\ pc = n /\ step = "invoke" /\ n \in EffectNodes
    /\ \/ \E a \in PortAnswers(n) :
             /\ effects' = effects \cup {[key |-> KeyOf(n), answer |-> a]}
             /\ \/ val' = a /\ Continue("output")
                \/ val' = "ADAPTER_FAILURE" /\ Continue("failed")
       \/ /\ val' = "ADAPTER_FAILURE" /\ Continue("failed")
          /\ UNCHANGED effects
    /\ UNCHANGED <<store, entered, asked, decided, budget, crashes>>

\* _assert_replay_agrees, then the durable output of Journal.succeed.
Output(n) ==
    /\ pc = n /\ step = "output"
    /\ IF n # "prisma_validate" /\ ckpt.state[SlotOf(n)] \notin {None, val}
         THEN UNCHANGED ckpt /\ Leave("IDEMPOTENCY_CONFLICT")
         ELSE Advance(ckpt.phase, [ckpt.state EXCEPT ![SlotOf(n)] = val],
                      Continue("success") /\ UNCHANGED val)
    /\ UNCHANGED <<records, approvals, result, world, crashes>>

Succeed(n) ==
    /\ pc = n /\ step = "success"
    /\ AppendRecord(n, "succeeded", val)
    /\ Continue("phase") /\ UNCHANGED val
    /\ UNCHANGED <<approvals, ckpt, result, world, crashes>>

SucceedCheckpoint(n) ==
    /\ pc = n /\ step = "phase"
    /\ Advance(IF n = "prisma_repair" THEN ckpt.phase ELSE PhaseOf[n], ckpt.state,
               Proceed(n, val))
    /\ UNCHANGED <<records, approvals, result, world, crashes>>

\* Journal.fail
Fail(n) ==
    /\ pc = n /\ step = "failed"
    /\ AppendRecord(n, "failed", val)
    /\ Continue("failphase") /\ UNCHANGED val
    /\ UNCHANGED <<approvals, ckpt, result, world, crashes>>

FailCheckpoint(n) ==
    /\ pc = n /\ step = "failphase"
    /\ Advance(ckpt.phase, ckpt.state, RaiseFrom(n, val))
    /\ UNCHANGED <<records, approvals, result, world, crashes>>

-----------------------------------------------------------------------------
(***************************************************************************)
(* The approval boundaries.  The authority is asked about one subject at   *)
(* one position of the chain; a person decides in their own time, and the  *)
(* run learns of it when execute is called again.                          *)
(***************************************************************************)
Question == [proposal |-> payload, pred |-> ChainLength]

Decide(s) ==
    /\ asked[s] # None /\ decided[s] = None
    /\ \E d \in {"approve", "reject"} :
          decided' = [decided EXCEPT ![s] = [question |-> asked[s], decision |-> d]]
    /\ UNCHANGED <<store, effects, entered, asked, budget, volatile, crashes>>

\* fetch_approval finds no decision: APPROVAL_MISSING leaves the run resumable.
ApprovalMissing(s) ==
    /\ pc = s /\ step = "enter"
    /\ s = "simulation" => approvals = <<>>
    /\ decided[s] = None
    /\ asked' = [asked EXCEPT ![s] = Question]
    /\ Leave("APPROVAL_MISSING")
    /\ UNCHANGED <<store, effects, entered, decided, budget, crashes>>

\* verify_approval of a decision just fetched.
VerifyApproval(s) ==
    IF decided[s].question # Question THEN "APPROVAL_MISMATCH"
    ELSE IF decided[s].decision # "approve" THEN "APPROVAL_REJECTED"
    ELSE "ok"

ApprovalRefused(s) ==
    /\ pc = s /\ step = "enter"
    /\ s = "simulation" => approvals = <<>>
    /\ decided[s] # None /\ VerifyApproval(s) # "ok"
    /\ Leave(VerifyApproval(s))
    /\ UNCHANGED <<store, world, crashes>>

ApprovalRecord(s) == [stage |-> s, proposal |-> payload, pred |-> ChainLength]

\* _approve: the decision is appended, then the checkpoint written.
ApproveSimulation ==
    /\ pc = "simulation" /\ step = "enter" /\ approvals = <<>>
    /\ decided[pc] # None /\ VerifyApproval(pc) = "ok"
    /\ approvals' = Append(approvals, ApprovalRecord(pc))
    /\ Continue("phase") /\ UNCHANGED val
    /\ UNCHANGED <<records, ckpt, result, world, crashes>>

SimulationCheckpoint ==
    /\ pc = "simulation" /\ step = "phase"
    /\ Advance(PhaseOf[pc], ckpt.state, Proceed(pc, None))
    /\ UNCHANGED <<records, approvals, result, world, crashes>>

\* A durable decision is checked again, though not against the chain's head.
ReplaySimulation ==
    /\ pc = "simulation" /\ step = "enter" /\ approvals # <<>>
    /\ IF approvals[1].proposal = payload
         THEN EnsurePhase(PhaseOf[pc], Proceed(pc, None))
         ELSE UNCHANGED ckpt /\ Leave("APPROVAL_MISMATCH")
    /\ UNCHANGED <<records, approvals, result, world, crashes>>

\* Slip: the checkpoint is sealed in a write of its own, before the decision.
SealAlone ==
    /\ pc = "production" /\ step = "enter"
    /\ decided[pc] # None /\ VerifyApproval(pc) = "ok"
    /\ ckpt' = [ckpt EXCEPT !.phase = Sealing, !.model_calls_at_seal = ModelCalls,
                            !.seal = [proposal   |-> payload,
                                      simulation |-> approvals[1],
                                      production |-> ApprovalRecord(pc)]]
    /\ Goto("flow_dispatch", "enter")
    /\ UNCHANGED <<records, approvals, result, world, attempt, payload, val, outcome, crashes>>

\* commit_production_approval: decision and seal in one store transaction.
Seal ==
    /\ pc = "production" /\ step = "enter"
    /\ decided[pc] # None /\ VerifyApproval(pc) = "ok"
    /\ IF Len(approvals) # 1
         THEN UNCHANGED <<approvals, ckpt>> /\ Leave("STATE_CORRUPTION")
         ELSE /\ approvals' = Append(approvals, ApprovalRecord(pc))
              /\ ckpt' = [phase |-> Sealing, chain |-> ChainLength + 1,
                          sequence |-> Len(records), model_calls |-> ModelCalls,
                          model_calls_at_seal |-> ModelCalls,
                          seal |-> [proposal   |-> payload,
                                    simulation |-> approvals[1],
                                    production |-> ApprovalRecord(pc)],
                          state |-> ckpt.state]
              /\ Goto("flow_dispatch", "enter")
              /\ UNCHANGED <<attempt, payload, val, outcome>>
    /\ UNCHANGED <<records, result, world, crashes>>

-----------------------------------------------------------------------------
(***************************************************************************)
(* execute: load the journal, catch the checkpoint up with it, and enter   *)
(* the run at its start or, when it is sealed, at the first effect.        *)
(***************************************************************************)
RevalidateSealed ==
    /\ Len(approvals) = 2
    /\ approvals[1] = ckpt.seal.simulation /\ approvals[2] = ckpt.seal.production
    /\ \A k \in 1..2 : approvals[k].proposal = ckpt.seal.proposal

\* Slip: a sealed run is entered at its start.
EnterAtStart ==
    /\ Goto("prisma_validate", "enter") /\ payload' = PlanPayload
    /\ attempt' = 0 /\ val' = None /\ outcome' = None

Enter ==
    /\ IF Sealed
         THEN Goto("flow_dispatch", "enter") /\ payload' = ckpt.seal.proposal
         ELSE Goto("prisma_validate", "enter") /\ payload' = PlanPayload
    /\ attempt' = 0 /\ val' = None /\ outcome' = None

ReturnFinished ==
    /\ pc = "idle" /\ result # None
    /\ Leave("done")
    /\ UNCHANGED <<store, world, crashes>>

Execute ==
    /\ pc = "idle" /\ result = None
    /\ CASE ~FoldLinks -> UNCHANGED ckpt /\ Leave("CHAIN_CORRUPTION")
         [] FoldLinks /\ ckpt = None ->
              IF ChainLength = 0 THEN ckpt' = FreshCheckpoint /\ Enter
                                 ELSE UNCHANGED ckpt /\ Leave("STATE_CORRUPTION")
         [] FoldLinks /\ ckpt # None ->
              IF ckpt.chain > ChainLength
                THEN UNCHANGED ckpt /\ Leave("CHAIN_CORRUPTION")
                ELSE Advance(ckpt.phase, ckpt.state,
                             IF Sealed /\ ~RevalidateSealed THEN Leave("STATE_CORRUPTION")
                                                            ELSE Enter)
    /\ UNCHANGED <<records, approvals, result, world, crashes>>

(***************************************************************************)
(* _finalise: the checkpoint and the trace must prove a model-free         *)
(* production phase; then the result is stored, and returned.              *)
(***************************************************************************)
ProvesModelFree == Sealed /\ ckpt.model_calls_at_seal = ckpt.model_calls

Finalise ==
    /\ pc = "finalise" /\ step = "enter"
    /\ IF ~ProvesModelFree THEN UNCHANGED result /\ Leave("POST_APPROVAL_MODEL_CALL")
       ELSE IF ~FoldLinks THEN UNCHANGED result /\ Leave("CHAIN_CORRUPTION")
       ELSE   /\ result' = [proposal        |-> ckpt.seal.proposal,
                            certificate     |-> ckpt.state[<<"forge_certify", 0>>],
                            trace           |-> Len(records),
                            repair_attempts |-> ModelCalls]
              /\ Continue("return") /\ UNCHANGED val
    /\ UNCHANGED <<records, approvals, ckpt, world, crashes>>

Return ==
    /\ pc = "finalise" /\ step = "return"
    /\ Leave("done")
    /\ UNCHANGED <<store, world, crashes>>

\* The process dies; what it had not written is gone.
Crash ==
    /\ pc # "idle" /\ crashes < MaxCrashes
    /\ crashes' = crashes + 1
    /\ Leave("crashed")
    /\ UNCHANGED <<store, world>>

-----------------------------------------------------------------------------
Init ==
    /\ records = <<>> /\ approvals = <<>> /\ ckpt = None /\ result = None
    /\ effects = {} /\ entered = 0
    /\ asked = [s \in Stages |-> None] /\ decided = [s \in Stages |-> None]
    /\ budget \in ModelBudgets
    /\ pc = "idle" /\ step = "enter"
    /\ attempt = 0 /\ payload = None /\ val = None /\ outcome = None
    /\ crashes = 0

Node(n) ==
    \/ ReplayPure(n) \/ ReplayEffect(n) \/ ReuseIntent(n)
    \/ Begin(n) \/ BeginCheckpoint(n)
    \/ InvokePure(n) \/ InvokePort(n)
    \/ Output(n) \/ Succeed(n) \/ SucceedCheckpoint(n)
    \/ Fail(n) \/ FailCheckpoint(n)

Boundary ==
    \/ \E s \in Stages : ApprovalMissing(s) \/ ApprovalRefused(s)
    \/ ApproveSimulation \/ SimulationCheckpoint \/ ReplaySimulation \/ Seal

Worker ==
    \/ ReturnFinished \/ Execute
    \/ \E n \in Nodes : Node(n)
    \/ RepairRefused \/ ModelBudgetRefused \/ InvokeRepair
    \/ Boundary
    \/ Finalise \/ Return

Next ==
    \/ Worker
    \/ \E s \in Stages : Decide(s)
    \/ Crash

\* The worker that owns the run takes its next step, and its caller calls
\* execute again after a failure; nobody promises a decision.
Spec == Init /\ [][Next]_vars /\ WF_vars(Worker)

-----------------------------------------------------------------------------
Codes == {"PROPOSAL_INVALID", "POLICY_DENIED", "TEMPLATE_NOT_REGISTERED", "VALE_REFUSED",
          "ADAPTER_FAILURE"}

Outcomes == Codes \cup
    {"done", "crashed", "NODE_FAILED", "IDEMPOTENCY_CONFLICT",
     "REPAIR_BUDGET_EXHAUSTED", "MODEL_BUDGET_EXHAUSTED", "POST_APPROVAL_MODEL_CALL",
     "APPROVAL_MISSING", "APPROVAL_MISMATCH", "APPROVAL_REJECTED",
     "STATE_CORRUPTION", "CHAIN_CORRUPTION", "RESULT_CORRUPTION"}

Values    == Payloads \cup Answers \cup Codes \cup {None}
Keys      == [node : Nodes, attempt : 0..MaxRepairs, in : Values, at : Nat]
Records   == [key : Keys, status : {"started", "succeeded", "failed"}, out : Values,
              pred : Nat]
Approvals == [stage : Stages, proposal : Payloads, pred : Nat]
Questions == [proposal : Payloads, pred : Nat]
Seals     == [proposal : Payloads, simulation : Approvals, production : Approvals]
Ckpts     == [phase : Phases, chain : Nat, sequence : Nat, model_calls : Nat,
              model_calls_at_seal : Nat \cup {None}, seal : Seals \cup {None},
              state : [Slots -> Values]]
Results   == [proposal : Payloads, certificate : Values, trace : Nat,
              repair_attempts : Nat]

\* Nothing stored looks like an absent checkpoint, and no end of execute like
\* none.
ASSUME NoneAssumption == None \notin Ckpts /\ None \notin Outcomes

Steps     == {"enter", "intent", "invoke", "output", "success", "phase",
              "failed", "failphase", "return"}

\* Every variable stays in its domain.
TypeOK ==
    /\ records \in Seq(Records)
    /\ approvals \in Seq(Approvals)
    /\ ckpt \in Ckpts \cup {None}
    /\ result \in Results \cup {None}
    /\ effects \subseteq [key : Keys, answer : Answers]
    /\ entered \in Nat
    /\ asked \in [Stages -> Questions \cup {None}]
    /\ decided \in [Stages -> [question : Questions, decision : {"approve", "reject"}]
                                \cup {None}]
    /\ budget \in ModelBudgets
    /\ pc \in Nodes \cup Stages \cup {"idle", "finalise"}
    /\ step \in Steps
    /\ attempt \in 0..MaxRepairs
    /\ payload \in Payloads \cup {None}
    /\ val \in Values
    /\ outcome \in Outcomes \cup {None}
    /\ crashes \in 0..MaxCrashes

\* No effect without consent to exactly what is done: whatever a port was ever
\* asked to do, the run was sealed with two recorded approvals, simulation
\* then production, of the proposal that was dispatched.
EffectsAuthorised ==
    effects # {} =>
      /\ Sealed /\ Len(approvals) = 2
      /\ ckpt.seal.simulation = approvals[1] /\ ckpt.seal.production = approvals[2]
      /\ \A k \in 1..2 : approvals[k].proposal = ckpt.seal.proposal
      /\ \A e \in effects :
            e.key.node = "flow_dispatch" => e.key.in = ckpt.seal.proposal

\* Whatever crashes, resumes and repeated calls there are, each effect node
\* asks its port under one idempotency key, so an idempotent port acts once.
OneKeyPerEffect ==
    \A e, f \in effects : e.key.node = f.key.node => e.key = f.key

\* Intent before effect: a port is asked, and a model call made, only after a
\* durable record of the intent; no call of the model escapes its budget.
IntentBeforeEffect ==
    /\ \A e \in effects : Started(e.key)
    /\ entered <= ModelCalls /\ ModelCalls <= MaxRepairs /\ ModelCalls <= budget

\* "A persisted SUCCEEDED record always implies its output is readable"
\* (Journal.succeed), whichever write the crash preceded.
OutputDurable ==
    \A i \in DOMAIN records :
      LET r == records[i] IN
      r.status = "succeeded" /\ HasSlot(r.key.node) =>
        ckpt.state[<<r.key.node, IF r.key.node = "prisma_repair" THEN r.key.attempt ELSE 0>>]
          = r.out

\* Resuming never runs a node twice in the journal: a key has one terminal
\* record, after its intent, and one intent unless each entry is charged.
JournalOnce ==
    \A i, j \in DOMAIN records :
      records[i].key = records[j].key =>
        /\ records[i].status # "started" /\ records[j].status # "started" => i = j
        /\ records[i].status = "started" /\ records[j].status # "started" => i < j
        /\ /\ records[i].status = "started" /\ records[j].status = "started"
           /\ records[i].key.node # "prisma_repair"
           => i = j

\* The phase of the checkpoint never claims a node the journal does not hold.
PhaseBacked ==
    ckpt # None =>
      /\ \A n \in PureNodes \cup EffectNodes :
            ckpt.phase >= PhaseOf[n] => RecordsOf(n, "succeeded") # {}
      /\ ckpt.phase >= PhaseOf["simulation"] => approvals # <<>>

\* Whatever write a crash preceded, resuming never meets a journal it takes
\* for corrupt, and never strands a decision by asking another question.
NoFalseCorruption ==
    outcome \notin {"CHAIN_CORRUPTION", "STATE_CORRUPTION", "POST_APPROVAL_MODEL_CALL",
                    "APPROVAL_MISMATCH"}

\* The stored result is what the effects did: the certificate was issued for
\* a reconciliation of a dispatch of the approved proposal.
ResultFaithful ==
    result # None =>
      /\ result.proposal = ckpt.seal.proposal
      /\ \E d, l, c \in effects :
            /\ d.key.node = "flow_dispatch" /\ d.key.in = result.proposal
            /\ l.key.node = "ledger_reconcile" /\ l.key.in = d.answer
            /\ c.key.node = "forge_certify" /\ c.key.in = l.answer
            /\ c.answer = result.certificate

\* Crossing the production boundary is final: the seal stays, the phase never
\* falls, and the model is never entered nor charged again.
SealIrreversible ==
    [][Sealed => /\ Sealed' /\ ckpt'.seal = ckpt.seal /\ ckpt'.phase >= ckpt.phase
                 /\ entered' = entered /\ ModelCalls' = ModelCalls]_vars

\* What the journal promises to whoever resumes: one key per effect, intent
\* before effect, outputs behind successes, one terminal record per key, phases
\* backed by records, and no resume that takes its own journal for corrupt.
JournalSound ==
    /\ OneKeyPerEffect /\ IntentBeforeEffect /\ OutputDurable
    /\ JournalOnce /\ PhaseBacked /\ NoFalseCorruption

\* The ledger's reader answered two questions under one key differently: the
\* one way a repeated reconciliation contradicts the certificate's input.
ReaderContradicted ==
    \E e, f \in effects : e.key = f.key /\ e.answer # f.answer

\* A sealed run ends, with its result or with an effect that failed, unless the
\* ledger's reader contradicted itself.
SealedRunEnds ==
    Sealed ~> \/ result # None
              \/ \E n \in EffectNodes : RecordsOf(n, "failed") # {}
              \/ ReaderContradicted

\* "A pending approval raises APPROVAL_MISSING and leaves the checkpoint
\* intact; the caller resumes by calling execute again with the same frozen
\* plan": a run that has reached the approver is never refused for want of
\* repairs it does not need.
PendingApprovalResumes ==
    asked["simulation"] # None => outcome # "REPAIR_BUDGET_EXHAUSTED"
=============================================================================
