------------------------------ MODULE AgentProofs ------------------------------
(***************************************************************************)
(* Proofs about the two kernels an agent process runs: Approvals, for any  *)
(* callers, runs, plans, requests, nonces, credentials, quorum and         *)
(* lifetime, and DynamicEngine, for any shapes, proposals and limits.  The *)
(* kernels share no state; each part speaks of one of them.                *)
(***************************************************************************)
EXTENDS Approvals, DynamicEngine, FiniteSetTheorems, SequenceTheorems, WellFoundedInduction, TLAPS

(***************************************************************************)
(* PART 1.  APPROVALS                                                      *)
(***************************************************************************)

\* A request is issued under its own id, no two with one nonce, and a
\* production request not before the simulation it rests on was decided.
Issued ==
    \A r \in Requests : pending[r] # Absent =>
      /\ pending[r].request = r
      /\ \A q \in Requests : pending[q] # Absent /\ pending[q].nonce = pending[r].nonce => q = r
      /\ pending[r].stage = "production" => pending[r].issued >= pending[r].simulation.at

\* What a caller has read: an authority before its clock, and that clock before now.
Reading ==
    \A c \in Callers : call[c] # Absent /\ call[c].step # "resolve" =>
      /\ call[c].authority \in AuthorityContexts
      /\ call[c].step = "record" => call[c].now <= clock

\* No decision is of the future, and there are finitely many.
Dated == \A k \in Closed : records[k].at <= clock

Simulated(R, p) ==
    LET prior == R[<<p.run, "simulation">>]
    IN  /\ prior # Absent /\ p.simulation = prior
        /\ prior.decision = "approve" /\ prior.request.plan = p.plan

StagesKept ==
    /\ \A r \in Requests :
          pending[r] # Absent /\ pending[r].stage = "production" => Simulated(records, pending[r])
    /\ \A u \in RunIds : records[<<u, "production">>] # Absent =>
          /\ Simulated(records, records[<<u, "production">>].request)
          /\ records[<<u, "production">>].at >= records[<<u, "simulation">>].at

Decided(P, k, x) ==
    /\ <<x.request.run, x.request.stage>> = k
    /\ P[x.request.request] = x.request
    /\ x.at \in x.request.issued .. x.request.expires - 1

IndInv == /\ ApprovalTypeOK /\ Issued /\ Reading /\ Dated
          /\ IsFiniteSet(Closed) /\ IsFiniteSet(used)
          /\ StagesInOrder /\ DecidedOnce

\* The two invariants in the terms above, before and after a step.
LEMMA Unfolded ==
    /\ StagesInOrder <=> StagesKept
    /\ StagesInOrder' <=> StagesKept'
    /\ DecidedOnce <=>
         /\ answers = {records[k] : k \in Closed}
         /\ \A k \in Closed : Decided(pending, k, records[k])
         /\ used = {records[k].request.nonce : k \in Closed}
         /\ Cardinality(used) = Cardinality(Closed)
    /\ DecidedOnce' <=>
         /\ answers' = {records'[k] : k \in Closed'}
         /\ \A k \in Closed' : Decided(pending', k, records'[k])
         /\ used' = {records'[k].request.nonce : k \in Closed'}
         /\ Cardinality(used') = Cardinality(Closed')
  BY DEF StagesInOrder, StagesKept, Simulated, DecidedOnce, Decided

\* What a pending approval and a record are made of.
LEMMA PendingFields ==
    ASSUME NEW p \in PendingApprovals
    PROVE  /\ p.request \in Requests /\ p.run \in RunIds /\ p.stage \in ApprovalStage /\ p.plan \in Plans
           /\ p.nonce \in NonceIds /\ p.issued \in Nat /\ p.expires \in Nat
           /\ p.interrupt \in ApprovalStage \X Plans \X (Simulations \cup {Absent})
           /\ p.stage = "production" => p.simulation \in Simulations
  BY DEF PendingApprovals, PendingOf, ApprovalStage

\* What an approval record holds, and what makes one a simulation approval.
LEMMA RecordFields ==
    /\ \A x \in ApprovalRecords : x.request \in PendingApprovals /\ x.at \in Nat
    /\ \A x \in Simulations : x \in ApprovalRecords /\ x.request.stage = "simulation"
  BY DEF ApprovalRecords, Simulations, RecordsOf, PendingApprovals, PendingOf

-----------------------------------------------------------------------------
\* Nothing is issued and nothing decided at the start.
LEMMA InitInv == ApprovalInit => IndInv
<1> SUFFICES ASSUME ApprovalInit PROVE IndInv
  OBVIOUS
<1>1. Closed = {}
  BY DEF ApprovalInit, Closed
<1>2. ApprovalTypeOK
  BY DEF ApprovalInit, ApprovalTypeOK
<1>3. Issued /\ Reading /\ Dated
  BY <1>1 DEF ApprovalInit, Issued, Reading, Dated
<1>4. StagesKept
  BY DEF ApprovalInit, StagesKept, ApprovalStage
<1>5. IsFiniteSet(Closed) /\ IsFiniteSet(used) /\ Cardinality(Closed) = 0 /\ Cardinality(used) = 0
  BY <1>1, FS_EmptySet DEF ApprovalInit
<1> QED
  BY <1>1, <1>2, <1>3, <1>4, <1>5, Unfolded DEF ApprovalInit, IndInv

\* A step that issues and decides nothing: time, authority, or a caller's reading.
LEMMA QuietKeeps ==
    ASSUME IndInv, ApprovalTypeOK', Reading', clock' >= clock,
           UNCHANGED <<pending, records, used, answers>>
    PROVE  IndInv'
<1> USE DEF IndInv
<1>1. Closed' = Closed
  BY DEF Closed
<1>2. Issued'
  BY DEF Issued
<1>3. Dated'
  BY <1>1, RecordFields DEF Dated, Closed, ApprovalTypeOK
<1>4. StagesInOrder'
  BY DEF StagesInOrder
<1>5. DecidedOnce'
  BY <1>1 DEF DecidedOnce
<1> QED
  BY <1>1, <1>2, <1>3, <1>4, <1>5

\* A change of the registered authority keeps the invariant.
LEMMA RegisterKeeps == ASSUME IndInv, NEW t \in Tokens, Register(t) PROVE IndInv'
<1> USE DEF IndInv, Register
<1>1. PICK r \in Requests, k \in 0..MaxApprovers, valid \in BOOLEAN :
        /\ pending[r] # Absent
        /\ contexts' = [contexts EXCEPT ![t] = AuthorityContext(t, pending[r], k, valid)]
  OBVIOUS
<1>2. pending[r] \in PendingApprovals
  BY <1>1 DEF ApprovalTypeOK
<1>3. k \in Nat
  BY ApprovalsAssumption
<1>4. AuthorityContext(t, pending[r], k, valid) \in AuthorityContexts
  BY <1>2, <1>3, PendingFields DEF AuthorityContext, AuthorityContexts
<1>5. ApprovalTypeOK'
  BY <1>1, <1>4 DEF ApprovalTypeOK
<1>6. Reading' /\ clock' >= clock
  BY DEF Reading, ApprovalTypeOK
<1> QED
  BY <1>5, <1>6, QuietKeeps

\* So does the clock,
LEMMA TickKeeps == ASSUME IndInv, Tick PROVE IndInv'
<1> USE DEF IndInv, Tick
<1>1. ApprovalTypeOK' /\ clock' >= clock
  BY DEF ApprovalTypeOK
<1>2. Reading'
  BY DEF Reading, ApprovalTypeOK, Calls
<1> QED
  BY <1>1, <1>2, QuietKeeps

\* a caller that loads the pending approval,
LEMMA LoadKeeps == ASSUME IndInv, NEW c \in Callers, Load(c) PROVE IndInv'
<1> USE DEF IndInv, Load
<1>1. PICK r \in Requests :
        /\ pending[r] # Absent
        /\ call' = [call EXCEPT ![c] = [step |-> "resolve", pending |-> pending[r],
                                       authority |-> Absent, now |-> 0]]
  OBVIOUS
<1>2. [step |-> "resolve", pending |-> pending[r], authority |-> Absent, now |-> 0] \in Calls
  BY <1>1 DEF Calls, ApprovalTypeOK
<1>3. ApprovalTypeOK'
  BY <1>1, <1>2 DEF ApprovalTypeOK
<1>4. Reading' /\ clock' >= clock
  BY <1>1 DEF Reading, ApprovalTypeOK
<1> QED
  BY <1>3, <1>4, QuietKeeps

\* one that resolves the authority behind its credential,
LEMMA ResolveKeeps == ASSUME IndInv, NEW c \in Callers, Resolve(c) PROVE IndInv'
<1> USE DEF IndInv, Resolve
<1>1. PICK t \in Tokens :
        IF contexts[t] = Absent THEN Rejected(c)
        ELSE call' = [call EXCEPT ![c].step = "clock", ![c].authority = contexts[t]]
  OBVIOUS
<1>2. call[c] \in Calls
  BY DEF ApprovalTypeOK
<1>3. CASE contexts[t] = Absent
  <2>1. call' = [call EXCEPT ![c] = Absent]
    BY <1>1, <1>3 DEF Rejected
  <2>2. ApprovalTypeOK' /\ Reading' /\ clock' >= clock
    BY <2>1 DEF ApprovalTypeOK, Reading
  <2> QED
    BY <2>2, QuietKeeps
<1>4. CASE contexts[t] # Absent
  <2>1. contexts[t] \in AuthorityContexts
    BY <1>4 DEF ApprovalTypeOK
  <2> DEFINE v == [call[c] EXCEPT !.step = "clock", !.authority = contexts[t]]
  <2>2. call' = [call EXCEPT ![c] = v] /\ v \in Calls /\ v.step = "clock"
        /\ v.authority = contexts[t]
    BY <1>1, <1>2, <1>4, <2>1 DEF Calls, ApprovalTypeOK
  <2> HIDE DEF v
  <2>3. ApprovalTypeOK'
    BY <2>2 DEF ApprovalTypeOK
  <2>4. Reading' /\ clock' >= clock
    BY <2>1, <2>2 DEF ApprovalTypeOK, Reading
  <2> QED
    BY <2>3, <2>4, QuietKeeps
<1> QED
  BY <1>3, <1>4

\* and one that reads the clock: a reading is never ahead of the clock.
LEMMA ReadClockKeeps == ASSUME IndInv, NEW c \in Callers, ReadClock(c) PROVE IndInv'
<1> USE DEF IndInv, ReadClock
<1>1. call[c] \in Calls /\ call[c].authority \in AuthorityContexts
  BY DEF ApprovalTypeOK, Reading
<1> DEFINE v == [call[c] EXCEPT !.step = "record", !.now = clock]
<1>2. call' = [call EXCEPT ![c] = v] /\ v \in Calls /\ v.now = clock
      /\ v.authority \in AuthorityContexts
  BY <1>1 DEF Calls, ApprovalTypeOK
<1> HIDE DEF v
<1>3. ApprovalTypeOK'
  BY <1>2 DEF ApprovalTypeOK
<1>4. Reading' /\ clock' >= clock
  BY <1>2 DEF ApprovalTypeOK, Reading
<1> QED
  BY <1>3, <1>4, QuietKeeps


-----------------------------------------------------------------------------
\* Issuing: the simulation a production request names is the recorded one, so
\* it was decided by now and the request is not older than it.
LEMMA IssueKeeps ==
    ASSUME IndInv, NEW r \in Requests, NEW u \in RunIds, NEW s \in ApprovalStage, NEW p \in Plans,
           NEW n \in NonceIds, Issue(r, u, s, p, n)
    PROVE  IndInv'
<1> USE DEF IndInv
<1>0. PICK prior : prior = records[<<u, "simulation">>]
  OBVIOUS
<1>1. PICK t \in {clock, clock + 1} :
        pending' = [pending EXCEPT ![r] = PendingApproval(r, u, s, p, n, t)]
  BY DEF Issue
<1>2. /\ Unissued(r, n)
      /\ s = "production" => Progressed(u, p)
      /\ UNCHANGED <<clock, records, used, contexts, call, answers>>
  BY DEF Issue
<1>3. t \in Nat /\ t >= clock /\ t + Lifetime \in Nat /\ Quorum \in Nat
  BY ApprovalsAssumption DEF ApprovalTypeOK
<1>4. <<u, "simulation">> \in RunIds \X ApprovalStage /\ <<u, "production">> \in RunIds \X ApprovalStage
  BY DEF ApprovalStage
<1>5. s = "production" => /\ prior # Absent /\ prior \in ApprovalRecords
                          /\ prior.decision = "approve" /\ prior.request.plan = p
                          /\ prior.request.stage = "simulation" /\ prior.at <= clock
  BY <1>0, <1>2, <1>4, Unfolded DEF Progressed, ApprovalTypeOK, Decided, Closed, Dated
<1>6. s = "production" => prior \in Simulations
  BY <1>5 DEF ApprovalRecords, Simulations, RecordsOf, PendingApprovals, PendingOf
<1>a. PICK new : new = PendingApproval(r, u, s, p, n, t)
  OBVIOUS
<1>7. /\ new \in PendingApprovals /\ new.request = r /\ new.run = u /\ new.stage = s
      /\ new.plan = p /\ new.nonce = n /\ new.issued = t
      /\ s = "production" => new.simulation = prior
  BY <1>0, <1>3, <1>6, <1>a DEF PendingApproval, Interrupt, PendingApprovals, PendingOf, ApprovalStage
<1>8. pending' = [pending EXCEPT ![r] = new]
  BY <1>1, <1>a
<1>9. ApprovalTypeOK'
  BY <1>2, <1>7, <1>8 DEF ApprovalTypeOK
<1>10. Closed' = Closed
  BY <1>2 DEF Closed
<1>11. Issued'
  <2> SUFFICES ASSUME NEW q \in Requests, pending'[q] # Absent
               PROVE  /\ pending'[q].request = q
                      /\ \A o \in Requests :
                           pending'[o] # Absent /\ pending'[o].nonce = pending'[q].nonce => o = q
                      /\ pending'[q].stage = "production" =>
                           pending'[q].issued >= pending'[q].simulation.at
    BY DEF Issued
  <2>1. \A o \in Requests : o # r => pending'[o] = pending[o]
    BY <1>8 DEF ApprovalTypeOK
  <2>2. pending'[r] = new
    BY <1>8 DEF ApprovalTypeOK
  <2>3. CASE q = r
    <3>1. s = "production" => new.issued >= new.simulation.at
      BY <1>3, <1>5, <1>7, RecordFields DEF ApprovalTypeOK
    <3>2. \A o \in Requests : pending'[o] # Absent /\ pending'[o].nonce = n => o = r
      BY <1>2, <2>1 DEF Unissued
    <3> QED
      BY <1>7, <2>2, <2>3, <3>1, <3>2
  <2>4. CASE q # r
    <3>1. pending'[q] = pending[q] /\ pending[q] # Absent /\ pending[q].nonce # n
      BY <1>2, <2>1, <2>4 DEF Unissued
    <3>2. \A o \in Requests :
            pending'[o] # Absent /\ pending'[o].nonce = pending'[q].nonce => o = q
      BY <1>7, <2>1, <2>2, <3>1 DEF Issued
    <3> QED
      BY <3>1, <3>2 DEF Issued
  <2> QED
    BY <2>3, <2>4
<1>12. Reading' /\ Dated'
  BY <1>2, <1>10 DEF Reading, Dated
<1>13. StagesKept'
  <2>1. \A q \in Requests : q # r => pending'[q] = pending[q]
    BY <1>8 DEF ApprovalTypeOK
  <2>2. s = "production" => Simulated(records', new)
    BY <1>0, <1>2, <1>5, <1>7 DEF Simulated
  <2>4. pending'[r] = new
    BY <1>8 DEF ApprovalTypeOK
  <2> QED
    BY <1>2, <1>7, <2>1, <2>2, <2>4, Unfolded DEF StagesKept
<1>14. \A k \in Closed' : Decided(pending', k, records'[k])
  <2> SUFFICES ASSUME NEW k \in Closed PROVE Decided(pending', k, records[k])
    BY <1>2, <1>10
  <2>1. Decided(pending, k, records[k]) /\ records[k] \in ApprovalRecords
    BY Unfolded DEF Closed, ApprovalTypeOK
  <2>2. records[k].request.request \in Requests /\ records[k].request # Absent
    BY <2>1, RecordFields, PendingFields, AbsentAssumption
  <2>3. pending'[records[k].request.request] = pending[records[k].request.request]
    <3>1. records[k].request.request # r
      BY <1>2, <2>1, <2>2 DEF Unissued, Decided
    <3> QED
      BY <1>8, <2>2, <3>1 DEF ApprovalTypeOK
  <2> QED
    BY <1>2, <2>1, <2>3 DEF Decided
<1>15. DecidedOnce'
  BY <1>2, <1>10, <1>14, Unfolded
<1> QED
  BY <1>2, <1>9, <1>10, <1>11, <1>12, <1>13, <1>15, Unfolded

\* Deciding: whatever the caller read before the lock, the record is of a
\* request as it stands, and of a stage and with a nonce not used before.
LEMMA RecordKeeps ==
    ASSUME IndInv, NEW c \in Callers, NEW n \in NonceIds, NEW d \in Decision,
           CompareAndRecord(c, n, d)
    PROVE  IndInv'
<1> USE DEF IndInv
<1>0. PICK p, a, now, x, key :
        /\ p = call[c].pending /\ a = call[c].authority /\ now = call[c].now
        /\ x = ApprovalRecord(p, a, d, now) /\ key = <<p.run, p.stage>>
  OBVIOUS
<1>1. /\ p \in PendingApprovals /\ a \in AuthorityContexts /\ now \in Nat /\ now <= clock
  BY <1>0 DEF CompareAndRecord, ApprovalTypeOK, Reading, Calls
<1>2. /\ call' = [call EXCEPT ![c] = Absent] /\ UNCHANGED <<clock, pending, contexts>>
  BY DEF CompareAndRecord, Rejected
<1>3. Reading' /\ clock' >= clock
  BY <1>2 DEF Reading, ApprovalTypeOK
<1>4. CASE ~Recordable(p, a, n, now)
  <2>1. UNCHANGED <<records, used, answers>>
    BY <1>0, <1>4 DEF CompareAndRecord
  <2>2. ApprovalTypeOK'
    BY <1>2, <2>1 DEF ApprovalTypeOK
  <2> QED
    BY <1>2, <1>3, <2>1, <2>2, QuietKeeps
<1>5. CASE Recordable(p, a, n, now)
  <2>1. /\ records' = [records EXCEPT ![key] = x]
        /\ used' = used \cup {n} /\ answers' = answers \cup {x}
    BY <1>0, <1>5 DEF CompareAndRecord
  <2>2. /\ x \in ApprovalRecords /\ x # Absent
        /\ x.request = p /\ x.decision = d /\ x.at = now
    BY <1>0, <1>1, AbsentAssumption DEF ApprovalRecord, ApprovalRecords, RecordsOf, AuthorityContexts
  <2>3. /\ p.request \in Requests /\ p.run \in RunIds /\ p.stage \in ApprovalStage
        /\ p.issued \in Nat /\ p.expires \in Nat /\ key \in RunIds \X ApprovalStage
    BY <1>0, <1>1, PendingFields
  <2>4. /\ pending[p.request] = p /\ p # Absent /\ n \notin used /\ records[key] = Absent
        /\ n = p.nonce /\ p.issued <= now /\ now < p.expires
        /\ p.stage = "production" => Simulated(records, p)
    BY <1>0, <1>1, <1>5, AbsentAssumption DEF Recordable, Evaluate, Simulated
  <2>5. \A k \in RunIds \X ApprovalStage : records'[k] = IF k = key THEN x ELSE records[k]
    BY <2>1 DEF ApprovalTypeOK
  <2>6. Closed' = Closed \cup {key} /\ key \notin Closed
    BY <2>2, <2>3, <2>4, <2>5 DEF Closed
  <2>7. ApprovalTypeOK'
    BY <1>2, <2>1, <2>2, <2>3 DEF ApprovalTypeOK
  <2>8. Issued' /\ Dated'
    BY <1>1, <1>2, <2>2, <2>5, <2>6 DEF Issued, Dated, Closed
  <2>9. \A q \in PendingApprovals : Simulated(records, q) => Simulated(records', q)
    BY <2>3, <2>4, <2>5, PendingFields DEF Simulated, ApprovalStage
  <2>10. StagesKept'
    <3>1. \A q \in Requests :
            pending'[q] # Absent /\ pending'[q].stage = "production" => Simulated(records', pending'[q])
      BY <1>2, <2>9, Unfolded DEF StagesKept, ApprovalTypeOK
    <3> SUFFICES ASSUME NEW u \in RunIds, records'[<<u, "production">>] # Absent
                 PROVE  /\ Simulated(records', records'[<<u, "production">>].request)
                        /\ records'[<<u, "production">>].at
                             >= records'[<<u, "simulation">>].at
      BY <3>1 DEF StagesKept
    <3>2. <<u, "production">> \in RunIds \X ApprovalStage /\ <<u, "simulation">> \in RunIds \X ApprovalStage
      BY DEF ApprovalStage
    <3>3. CASE <<u, "production">> = key
      <4>1. p.run = u /\ p.stage = "production" /\ records'[<<u, "production">>] = x
        BY <1>0, <2>5, <3>2, <3>3
      <4>2. records[<<u, "simulation">>] = p.simulation
        BY <2>4, <4>1 DEF Simulated
      <4>3. records'[<<u, "simulation">>] = p.simulation
        BY <1>0, <2>5, <3>2, <4>1, <4>2
      <4>4. p.issued >= p.simulation.at /\ p.simulation \in Simulations
        BY <1>1, <2>3, <2>4, <4>1, PendingFields DEF Issued
      <4>5. now >= p.simulation.at
        BY <1>1, <2>3, <2>4, <4>4, RecordFields
      <4>6. Simulated(records', p)
        BY <1>1, <2>4, <2>9, <4>1
      <4> QED
        BY <2>2, <4>1, <4>3, <4>5, <4>6
    <3>4. CASE <<u, "production">> # key
      <4>1. records'[<<u, "production">>] = records[<<u, "production">>]
        BY <2>5, <3>2, <3>4
      <4>2. /\ records[<<u, "production">>] # Absent
            /\ Simulated(records, records[<<u, "production">>].request)
            /\ records[<<u, "production">>].at >= records[<<u, "simulation">>].at
        BY <4>1, Unfolded DEF StagesKept
      <4>3. records[<<u, "production">>].request \in PendingApprovals
        BY <3>2, <4>2, RecordFields DEF ApprovalTypeOK
      <4>4. records[<<u, "production">>].request.run = u
        BY <3>2, <4>2, Unfolded DEF Decided, Closed
      <4>5. records[<<u, "simulation">>] # Absent
        BY <4>2, <4>4 DEF Simulated
      <4>6. records'[<<u, "simulation">>] = records[<<u, "simulation">>]
        BY <2>4, <2>5, <3>2, <4>5
      <4> QED
        BY <2>9, <4>1, <4>2, <4>3, <4>6
    <3> QED
      BY <3>3, <3>4
  <2>11. \A k \in Closed' : Decided(pending', k, records'[k])
    <3>1. Decided(pending', key, records'[key])
      <4>1. records'[key] = x /\ x.request = p /\ x.at = now /\ pending' = pending
        BY <1>2, <2>2, <2>3, <2>5
      <4>2. now \in p.issued .. p.expires - 1
        BY ONLY <1>1, <2>3, <2>4
      <4>3. <<p.run, p.stage>> = key /\ pending[p.request] = p
        BY <1>0, <2>4
      <4> QED
        BY <4>1, <4>2, <4>3 DEF Decided
    <3>2. \A k \in Closed : Decided(pending', k, records'[k])
      BY <1>2, <2>5, <2>6, Unfolded DEF Decided, Closed
    <3> QED
      BY <2>6, <3>1, <3>2
  <2>12. answers' = {records'[k] : k \in Closed'}
    BY <2>1, <2>3, <2>5, <2>6, Unfolded DEF Closed
  <2>13. used' = {records'[k].request.nonce : k \in Closed'}
    BY <2>1, <2>2, <2>3, <2>4, <2>5, <2>6, Unfolded DEF Closed
  <2>14. IsFiniteSet(Closed') /\ Cardinality(Closed') = Cardinality(Closed) + 1
    BY <2>6, FS_AddElement
  <2>15. IsFiniteSet(used') /\ Cardinality(used') = Cardinality(used) + 1
    BY <2>1, <2>4, FS_AddElement
  <2>16. DecidedOnce'
    BY <2>11, <2>12, <2>13, <2>14, <2>15, Unfolded
  <2> QED
    BY <1>3, <2>7, <2>8, <2>10, <2>14, <2>15, <2>16, Unfolded
<1> QED
  BY <1>4, <1>5


-----------------------------------------------------------------------------
\* Every step keeps the invariant.
LEMMA StepKeeps == IndInv /\ [ApprovalNext]_kernel => IndInv'
<1> SUFFICES ASSUME IndInv, [ApprovalNext]_kernel PROVE IndInv'
  OBVIOUS
<1>1. CASE \E r \in Requests, u \in RunIds, s \in ApprovalStage, p \in Plans, n \in NonceIds :
             Issue(r, u, s, p, n)
  BY <1>1, IssueKeeps
<1>2. CASE \E t \in Tokens : Register(t)
  BY <1>2, RegisterKeeps
<1>3. CASE \E c \in Callers : Load(c) \/ Resolve(c) \/ ReadClock(c)
  BY <1>3, LoadKeeps, ResolveKeeps, ReadClockKeeps
<1>4. CASE \E c \in Callers, n \in NonceIds, d \in Decision : CompareAndRecord(c, n, d)
  BY <1>4, RecordKeeps
<1>5. CASE Tick
  BY <1>5, TickKeeps
<1>6. CASE UNCHANGED kernel
  <2>1. ApprovalTypeOK' /\ Reading' /\ clock' >= clock
    BY <1>6 DEF IndInv, ApprovalTypeOK, Reading, kernel
  <2> QED
    BY <1>6, <2>1, QuietKeeps DEF kernel
<1> QED
  BY <1>1, <1>2, <1>3, <1>4, <1>5, <1>6 DEF ApprovalNext

\* The invariant holds in every reachable state.
LEMMA Inductive == ApprovalSpec => []IndInv
  BY InitInv, StepKeeps, PTL DEF ApprovalSpec

\* What issue_pending, _approve and the authority store is always of its type.
THEOREM TypeCorrect == ApprovalSpec => []ApprovalTypeOK
<1>1. IndInv => ApprovalTypeOK
  BY DEF IndInv
<1> QED
  BY <1>1, Inductive, PTL

\* Whatever callers read before the store's lock, a production request and a
\* production decision rest on the run's recorded approval of the same plan.
THEOREM ProductionAfterSimulation == ApprovalSpec => []StagesInOrder
<1>1. IndInv => StagesInOrder
  BY DEF IndInv
<1> QED
  BY <1>1, Inductive, PTL

\* compare_and_record decides a stage once, whoever races for it, and every
\* answer is the stored record of a request as issued, with its own nonce.
THEOREM OneDecision == ApprovalSpec => []DecidedOnce
<1>1. IndInv => DecidedOnce
  BY DEF IndInv
<1> QED
  BY <1>1, Inductive, PTL

\* No step of the kernel changes or withdraws a record, a spent nonce or a request.
THEOREM DecisionsAreFinal == ApprovalSpec => DecisionsStand
<1> DEFINE Stands == /\ \A k \in Closed : records'[k] = records[k]
                     /\ used \subseteq used'
                     /\ \A r \in Requests : pending[r] # Absent => pending'[r] = pending[r]
<1>1. ASSUME IndInv, [ApprovalNext]_kernel PROVE [Stands]_kernel
  <2> SUFFICES ASSUME ApprovalNext PROVE Stands
    BY <1>1
  <2> USE <1>1 DEF IndInv, ApprovalTypeOK
  <2>1. ASSUME NEW r \in Requests, NEW u \in RunIds, NEW s \in ApprovalStage, NEW p \in Plans,
               NEW n \in NonceIds, Issue(r, u, s, p, n)
        PROVE  Stands
    BY <2>1 DEF Issue, Unissued
  <2>2. ASSUME NEW t \in Tokens, Register(t) PROVE Stands
    BY <2>2 DEF Register
  <2>3. ASSUME NEW c \in Callers, Load(c) \/ Resolve(c) \/ ReadClock(c) PROVE Stands
    BY <2>3 DEF Load, Resolve, ReadClock
  <2>4. ASSUME NEW c \in Callers, NEW n \in NonceIds, NEW d \in Decision,
               CompareAndRecord(c, n, d)
        PROVE  Stands
    BY <2>4 DEF CompareAndRecord, Recordable, Closed
  <2>5. ASSUME Tick PROVE Stands
    BY <2>5 DEF Tick
  <2> QED
    BY <2>1, <2>2, <2>3, <2>4, <2>5 DEF ApprovalNext
<1> QED
  BY <1>1, Inductive, PTL DEF ApprovalSpec, DecisionsStand

(***************************************************************************)
(* PART 2.  DYNAMIC ENGINE                                                 *)
(*                                                                         *)
(* The calls of a set of tasks are counted one by one (Units): the sum     *)
(* that UsageExact takes is the number of them, so a step that makes one   *)
(* call adds one, and a step that makes none changes nothing.              *)
(***************************************************************************)

\* A nonempty set of numbers has a least one.
LEMMA LeastNumber ==
    ASSUME NEW T, T \subseteq Nat, T # {}
    PROVE  \E m \in T : \A k \in T : m <= k
<1> DEFINE U == {0 .. n : n \in T}
<1>1. IsWellFoundedOn(StrictSubsetOrdering(Nat), FiniteSubsetsOf(Nat))
  BY FS_StrictSubsetOrderingWellFounded
<1>2. \A n \in Nat : IsFiniteSet(0 .. n)
  BY FS_Interval
<1>3. U \subseteq FiniteSubsetsOf(Nat)
  BY <1>2 DEF FiniteSubsetsOf
<1>4. U # {}
  OBVIOUS
<1> HIDE DEF U
<1>5. PICK x \in U : \A y \in U : <<y, x>> \notin StrictSubsetOrdering(Nat)
  BY <1>1, <1>3, <1>4, WFMin
<1>6. PICK m \in T : x = 0 .. m
  BY DEF U
<1>7. ASSUME NEW k \in T, k < m PROVE FALSE
  <2>1. 0 .. k \in U
    BY DEF U
  <2>2. 0 .. k \subseteq Nat /\ 0 .. m \subseteq Nat
    OBVIOUS
  <2>3. 0 .. k \subseteq 0 .. m /\ 0 .. k # 0 .. m
    BY <1>7
  <2>4. <<0 .. k, x>> \in StrictSubsetOrdering(Nat)
    BY <2>2, <2>3, <1>6 DEF StrictSubsetOrdering
  <2> QED BY <1>5, <2>1, <2>4
<1> QED BY <1>7

\* f sums up the calls of the tasks T on every set of paths of P.
Sums(T, P, f) ==
    f = [s \in SUBSET P |-> IF s = {} THEN 0
                            ELSE LET x == CHOOSE x \in s : TRUE IN  T[x].calls + f[s \ {x}]]

\* The calls of the tasks T on the paths P, one by one.
Units(T, P) == {u \in P \X Nat : u[2] \in 1..T[u[1]].calls}

\* The sum UsageExact takes is the value at P of a function that takes one path
\* after the other out of its argument.
LEMMA MadeUnfolded ==
    ASSUME NEW T, NEW P
    PROVE  Made(T, P) = (CHOOSE f : Sums(T, P, f))[P]
  BY DEF Made, MapThenSumSet, MapThenFoldSet, Sums

\* The calls of one path are as many as its count.
LEMMA UnitsOfOne ==
    ASSUME NEW T, NEW p, T[p].calls \in Nat
    PROVE  /\ IsFiniteSet(Units(T, {p}))
           /\ Cardinality(Units(T, {p})) = T[p].calls
<1> DEFINE n == T[p].calls
           h == [k \in 1..n |-> <<p, k>>]
<1>1. IsFiniteSet(1..n) /\ Cardinality(1..n) = n
  <2>1. n \in Nat
    OBVIOUS
  <2> HIDE DEF n
  <2> QED BY <2>1, FS_Interval
<1>2. h \in Bijection(1..n, Units(T, {p}))
  <2>1. Units(T, {p}) = {<<p, k>> : k \in 1..n}
    BY DEF Units
  <2>2. \A k \in 1..n : h[k] = <<p, k>>
    OBVIOUS
  <2>3. h \in Injection(1..n, Units(T, {p}))
    BY <2>1, <2>2 DEF Injection, IsInjective
  <2>4. h \in Surjection(1..n, Units(T, {p}))
    BY <2>1, <2>2 DEF Surjection
  <2> QED BY <2>3, <2>4 DEF Bijection
<1>3. ExistsBijection(1..n, Units(T, {p}))
  BY <1>2 DEF ExistsBijection
<1> QED BY <1>1, <1>3, FS_Bijection

\* The calls of a set of paths, one path taken out.
LEMMA UnitsSplit ==
    ASSUME NEW T, NEW P, NEW p \in P, T[p].calls \in Nat,
           NEW Q, Q = P \ {p}, IsFiniteSet(Units(T, Q))
    PROVE  Cardinality(Units(T, P)) = T[p].calls + Cardinality(Units(T, Q))
<1> DEFINE A == Units(T, {p})
           B == Units(T, Q)
<1>1. IsFiniteSet(A) /\ Cardinality(A) = T[p].calls
  BY UnitsOfOne
<1>2. Units(T, P) = A \cup B
  BY DEF Units
<1>3. A \cap B = {}
  BY DEF Units
<1>4. /\ IsFiniteSet(A \cup B)
      /\ Cardinality(A \cup B) = Cardinality(A) + Cardinality(B) - Cardinality(A \cap B)
  BY <1>1, FS_Union
<1>5. Cardinality(B) \in Nat /\ Cardinality(A \cap B) = 0
  BY <1>3, FS_CardinalityType, FS_EmptySet
<1> HIDE DEF A, B
<1>6. Cardinality(A \cup B) = T[p].calls + Cardinality(B)
  BY <1>1, <1>4, <1>5
<1> QED BY <1>2, <1>4, <1>6 DEF B

\* The calls of finitely many paths are finitely many.
LEMMA UnitsFinite ==
    ASSUME NEW T, NEW P, IsFiniteSet(P), \A p \in P : T[p].calls \in Nat
    PROVE  IsFiniteSet(Units(T, P))
<1> DEFINE F == {Units(T, {p}) : p \in P}
           h == [p \in P |-> Units(T, {p})]
<1>1. IsFiniteSet(F)
  <2>1. h \in Surjection(P, F)
    BY DEF Surjection
  <2> HIDE DEF h
  <2> QED BY <2>1, FS_Surjection
<1>2. \A U \in F : IsFiniteSet(U)
  BY UnitsOfOne, Zenon
<1>3. IsFiniteSet(UNION F)
  BY <1>1, <1>2, FS_UNION
<1>4. Units(T, P) = UNION F
  BY DEF Units
<1> QED BY <1>3, <1>4

\* The sum UsageExact takes is the number of the calls.
LEMMA MadeCounts ==
    ASSUME NEW T, NEW P, IsFiniteSet(P), \A p \in P : T[p].calls \in Nat
    PROVE  Made(T, P) = Cardinality(Units(T, P))
<1> DEFINE N(s) == Cardinality(Units(T, s))
           C == [s \in SUBSET P |-> N(s)]
<1>1. \A s \in SUBSET P : IsFiniteSet(s) /\ IsFiniteSet(Units(T, s)) /\ N(s) \in Nat
  BY FS_Subset, UnitsFinite, FS_CardinalityType
<1>2. ASSUME NEW s \in SUBSET P, s # {}, NEW x \in s
      PROVE  N(s) = T[x].calls + N(s \ {x})
  <2> DEFINE Q == s \ {x}
  <2>1. T[x].calls \in Nat /\ Q \in SUBSET P
    OBVIOUS
  <2>2. IsFiniteSet(Units(T, Q))
    BY <1>1, <2>1
  <2>3. Q = s \ {x}
    OBVIOUS
  <2> HIDE DEF Q
  <2>4. Cardinality(Units(T, s)) = T[x].calls + Cardinality(Units(T, Q))
    BY <2>1, <2>2, <2>3, UnitsSplit
  <2> QED BY <2>3, <2>4
<1>3. N({}) = 0
  <2>1. Units(T, {}) = {}
    BY DEF Units
  <2> QED BY <2>1, FS_EmptySet
<1>4. Sums(T, P, C)
  <2> HIDE DEF N
  <2>1. ASSUME NEW s \in SUBSET P
        PROVE  N(s) = IF s = {} THEN 0
                      ELSE LET x == CHOOSE x \in s : TRUE IN T[x].calls + C[s \ {x}]
    <3>1. CASE s = {}
      BY <1>3, <3>1
    <3>2. CASE s # {}
      <4> DEFINE x == CHOOSE x \in s : TRUE
      <4>1. x \in s
        BY <3>2
      <4> HIDE DEF x
      <4>2. s \ {x} \in SUBSET P
        OBVIOUS
      <4>3. N(s) = T[x].calls + N(s \ {x})
        BY <1>2, <3>2, <4>1
      <4>4. N(s) = T[x].calls + C[s \ {x}]
        BY <4>2, <4>3
      <4> QED BY <3>2, <4>4 DEF x
    <3> QED BY <3>1, <3>2
  <2> QED BY <2>1 DEF Sums
<1>5. ASSUME NEW f, Sums(T, P, f)
      PROVE  \A s \in SUBSET P : f[s] = N(s)
  <2> HIDE DEF N, C
  <2> DEFINE Bad == {s \in SUBSET P : f[s] # N(s)}
             K == {Cardinality(s) : s \in Bad}
  <2>1. SUFFICES ASSUME Bad # {} PROVE FALSE
    OBVIOUS
  <2>2. K \subseteq Nat /\ K # {}
    BY <1>1, <2>1, FS_CardinalityType
  <2>3. PICK m \in K : \A k \in K : m <= k
    BY <2>2, LeastNumber
  <2>4. PICK s \in Bad : m = Cardinality(s)
    OBVIOUS
  <2>5. f[s] = IF s = {} THEN 0
               ELSE LET x == CHOOSE x \in s : TRUE IN T[x].calls + f[s \ {x}]
    BY <1>5 DEF Sums
  <2>6. s # {}
    BY <1>3, <2>5
  <2> DEFINE x == CHOOSE x \in s : TRUE
  <2>7. x \in s
    BY <2>6
  <2>8. f[s] = T[x].calls + f[s \ {x}]
    BY <2>5, <2>6
  <2> HIDE DEF x
  <2>9. IsFiniteSet(s) /\ Cardinality(s \ {x}) = Cardinality(s) - 1 /\ Cardinality(s) \in Nat
    BY <1>1, <2>7, FS_RemoveElement, FS_CardinalityType
  <2>10. s \ {x} \notin Bad
    <3>1. SUFFICES ASSUME s \ {x} \in Bad PROVE FALSE
      OBVIOUS
    <3>2. Cardinality(s \ {x}) \in K
      BY <3>1
    <3>3. Cardinality(s) <= Cardinality(s \ {x})
      BY <2>3, <2>4, <3>2
    <3> QED BY <2>9, <3>3
  <2>11. f[s \ {x}] = N(s \ {x})
    BY <2>10
  <2>12. N(s) = T[x].calls + N(s \ {x})
    BY <1>2, <2>6, <2>7
  <2> QED BY <2>8, <2>11, <2>12
<1> DEFINE g == CHOOSE f : Sums(T, P, f)
<1>6. Sums(T, P, g)
  BY <1>4
<1>7. g[P] = N(P)
  BY <1>5, <1>6
<1> QED BY <1>7, MadeUnfolded

\* As many calls, as long as every path made as many.
LEMMA MadeSame ==
    ASSUME NEW T, NEW U, NEW P, IsFiniteSet(P),
           \A q \in P : T[q].calls \in Nat /\ U[q].calls = T[q].calls
    PROVE  Made(U, P) = Made(T, P)
<1>1. Units(U, P) = Units(T, P)
  BY DEF Units
<1>2. Made(U, P) = Cardinality(Units(U, P)) /\ Made(T, P) = Cardinality(Units(T, P))
  BY MadeCounts
<1> QED BY <1>1, <1>2

\* One call more, when one path made one more.
LEMMA MadeMore ==
    ASSUME NEW T, NEW U, NEW P, IsFiniteSet(P), NEW p \in P, U[p].calls = T[p].calls + 1,
           \A q \in P : T[q].calls \in Nat, \A q \in P \ {p} : U[q].calls = T[q].calls
    PROVE  Made(U, P) = Made(T, P) + 1 /\ Made(T, P) \in Nat
<1> DEFINE B == P \ {p}
<1>1. \A q \in P : U[q].calls \in Nat
  OBVIOUS
<1>2. T[p].calls \in Nat /\ U[p].calls \in Nat
  OBVIOUS
<1>3. IsFiniteSet(B) /\ B = P \ {p}
  BY FS_RemoveElement
<1>4. IsFiniteSet(Units(T, B)) /\ IsFiniteSet(Units(U, B))
  BY <1>1, <1>3, UnitsFinite
<1>5. Units(U, B) = Units(T, B)
  BY DEF Units
<1> HIDE DEF B
<1>6. Cardinality(Units(T, P)) = T[p].calls + Cardinality(Units(T, B))
  BY <1>2, <1>3, <1>4, UnitsSplit
<1>7. Cardinality(Units(U, P)) = U[p].calls + Cardinality(Units(U, B))
  BY <1>2, <1>3, <1>4, UnitsSplit
<1>8. Made(U, P) = Cardinality(Units(U, P)) /\ Made(T, P) = Cardinality(Units(T, P))
  BY <1>1, MadeCounts
<1>9. Cardinality(Units(T, B)) \in Nat
  BY <1>4, FS_CardinalityType
<1> QED BY <1>2, <1>5, <1>6, <1>7, <1>8, <1>9

\* Paths that made no call add none.
LEMMA MadeWider ==
    ASSUME NEW T, NEW P, NEW Q, IsFiniteSet(P), IsFiniteSet(Q),
           \A q \in P : T[q].calls \in Nat, \A q \in Q : T[q].calls = 0
    PROVE  Made(T, P \cup Q) = Made(T, P)
<1>1. Units(T, P \cup Q) = Units(T, P)
  BY DEF Units
<1>2. IsFiniteSet(P \cup Q)
  BY FS_Union
<1>3. \A q \in P \cup Q : T[q].calls \in Nat
  OBVIOUS
<1>4. Made(T, P) = Cardinality(Units(T, P))
  BY MadeCounts
<1>5. Made(T, P \cup Q) = Cardinality(Units(T, P \cup Q))
  BY <1>2, <1>3, MadeCounts
<1> QED BY <1>1, <1>4, <1>5

-----------------------------------------------------------------------------
(* The engine's states. *)

Steps == {"created", "queued", "calling", "sleeping", "gathering", "done", "cancelled"}
LiveSteps == {"created", "queued", "calling", "sleeping", "gathering"}

Tasks == [step : Steps, retries : Nat, repairs : Nat, calls : Nat,
          next : {"none", "transient", "schema"}, kids : Nat, ok : BOOLEAN]

\* What a task has done says where it is: one that was never called is asked
\* for the first time, and only one that was answered has children.
Consistent(t) ==
    /\ t.step \in {"created", "queued", "calling", "sleeping"} => t.kids = 0
    /\ t.step = "created" => t.calls = 0 /\ t.next = "none"
    /\ t.step = "queued" => (t.calls = 0 <=> t.next = "none")
    /\ t.step \in {"calling", "sleeping", "gathering"} => t.calls > 0

Usages == [calls : Nat, logical : Nat, retries : Nat, repairs : Nat]
RunStates == {"running", "stopping", "returned", "blocked", "timed_out"}

EngineTyped ==
    /\ shape \in Shapes
    /\ task \in [DOMAIN task -> Tasks]
    /\ DOMAIN task \subseteq Seq(Nat) /\ IsFiniteSet(DOMAIN task)
    /\ spent \in [Roots -> Nat]
    /\ usage \in Usages
    /\ run \in RunStates

\* The tasks form a tree of at most three levels, under roots that were called
\* before they had children.
Grown ==
    /\ \A i \in Roots : <<i>> \in DOMAIN task
    /\ \A p \in DOMAIN task :
         /\ Consistent(task[p])
         /\ Len(p) \in 1..3 /\ p[1] \in Roots
         /\ Kids(p) \subseteq DOMAIN task
         /\ p = <<p[1]>> \/ task[<<p[1]>>].calls > 0
         /\ Len(p) > 1 => \E q \in DOMAIN task : p \in Kids(q)

\* What root i has been charged, nothing if there is no such root.
Charge(i) == IF i \in Roots THEN spent[i] ELSE 0

\* A run has at most seven roots.
Charges == Charge(1) + Charge(2) + Charge(3) + Charge(4) + Charge(5) + Charge(6) + Charge(7)

\* The tasks that are counted as begun, and those that wait to begin.
Begun == {p \in DOMAIN task : task[p].calls > 0 \/ task[p].step = "queued"}
Unbegun == {p \in DOMAIN task : task[p].step = "created"}

\* What the tasks of root i made was charged to it, within its quota, and its
\* own first call came first.
RootAccount(i) ==
    /\ spent[i] = Made(task, Tree(i))
    /\ spent[i] <= Quota(i)
    /\ spent[i] > 0 => task[<<i>>].calls > 0
    /\ MaxAgentCalls >= shape[2] /\ task[<<i>>].step = "done" => task[<<i>>].calls > 0

\* The counters agree with the tasks, with the charges and with the slots.
Accounts ==
    /\ usage.calls = Made(task, DOMAIN task)
    /\ usage.calls = Charges
    /\ usage.calls = Cardinality(Called) + usage.retries + usage.repairs
    /\ Cardinality(Begun) <= usage.logical
    /\ usage.logical + Cardinality(Unbegun) <= Cardinality(DOMAIN task)
    /\ Cardinality(Calling) <= MaxConcurrency
    /\ \A i \in Roots : RootAccount(i)

\* A task that has ended has no child at work, and none is cancelled before
\* the run is told to stop.
Settled ==
    /\ \A p \in DOMAIN task :
         /\ ~Live(p) => \A k \in Kids(p) : ~Live(k)
         /\ Complete(p) => \A k \in Kids(p) : Complete(k)
         /\ run \notin {"stopping", "timed_out"} => task[p].step # "cancelled"
    /\ EndsWhole

EngineInv == EngineTyped /\ Grown /\ Accounts /\ Settled

-----------------------------------------------------------------------------
(* One task of the tree changes. *)

\* The tasks after one of them changed.
LEMMA OneTask ==
    ASSUME EngineTyped, NEW p \in DOMAIN task, NEW t \in Tasks, Set(p, t)
    PROVE  /\ DOMAIN task' = DOMAIN task /\ task'[p] = t
           /\ \A q \in DOMAIN task : q # p => task'[q] = task[q]
           /\ task' \in [DOMAIN task -> Tasks]
  BY DEF EngineTyped, Set

\* A child is another path than its parent, a step deeper, and has one parent.
LEMMA Child ==
    ASSUME NEW p \in Seq(Nat), NEW i \in Nat
    PROVE  /\ Append(p, i) \in Seq(Nat) /\ Append(p, i) # p
           /\ Len(Append(p, i)) = Len(p) + 1
           /\ Len(p) > 0 => Append(p, i)[1] = p[1]
           /\ \A q \in Seq(Nat), j \in Nat : Append(q, j) = Append(p, i) => q = p /\ j = i
<1>1. Len(Append(p, i)) = Len(p) + 1 /\ Append(p, i) \in Seq(Nat)
  OBVIOUS
<1>2. Append(p, i) # p
  BY <1>1
<1>3. ASSUME NEW q \in Seq(Nat), NEW j \in Nat, Append(q, j) = Append(p, i)
      PROVE  q = p /\ j = i
  BY <1>3, AppendInjective
<1> QED BY <1>1, <1>2, <1>3

\* Types outlast a change of one task.
LEMMA TypedKept ==
    ASSUME EngineTyped, NEW p \in DOMAIN task, NEW t \in Tasks, Set(p, t), shape' = shape,
           spent' \in [Roots -> Nat], usage' \in Usages, run' \in RunStates
    PROVE  EngineTyped'
  BY OneTask DEF EngineTyped, Roots

\* The tree keeps its shape when a task keeps its children and forgets no call.
LEMMA GrownKept ==
    ASSUME EngineTyped, Grown, NEW p \in DOMAIN task, NEW t \in Tasks, Set(p, t), shape' = shape,
           Consistent(t), t.kids = task[p].kids, t.calls >= task[p].calls
    PROVE  Grown'
<1>1. /\ DOMAIN task' = DOMAIN task /\ task'[p] = t /\ Roots' = Roots
      /\ \A q \in DOMAIN task : q # p => task'[q] = task[q]
  BY OneTask DEF Roots
<1>2. \A q \in DOMAIN task : task[q].calls \in Nat /\ task'[q].calls \in Nat
        /\ task'[q].calls >= task[q].calls
  <2>1. ASSUME NEW q \in DOMAIN task PROVE task[q] \in Tasks
    BY DEF EngineTyped
  <2>2. \A u \in Tasks : u.calls \in Nat
    BY DEF Tasks
  <2> QED BY <1>1, <2>1, <2>2
<1>3. \A q \in DOMAIN task : Kids(q)' = Kids(q)
  BY <1>1 DEF Kids
<1>4. \A i \in Roots : <<i>> \in DOMAIN task
  BY DEF Grown
<1>5. ASSUME NEW q \in DOMAIN task
      PROVE  /\ Consistent(task'[q])
             /\ Len(q) \in 1..3 /\ q[1] \in Roots
             /\ Kids(q)' \subseteq DOMAIN task
             /\ q = <<q[1]>> \/ task'[<<q[1]>>].calls > 0
             /\ Len(q) > 1 => \E r \in DOMAIN task : q \in Kids(r)'
  <2>1. Consistent(task'[q])
    BY <1>1 DEF Grown
  <2>2. Len(q) \in 1..3 /\ q[1] \in Roots /\ Kids(q)' \subseteq DOMAIN task
    BY <1>3 DEF Grown
  <2>3. q = <<q[1]>> \/ task'[<<q[1]>>].calls > 0
    <3>1. q = <<q[1]>> \/ task[<<q[1]>>].calls > 0
      BY DEF Grown
    <3> QED BY <1>2, <1>4, <2>2, <3>1
  <2>4. Len(q) > 1 => \E r \in DOMAIN task : q \in Kids(r)'
    <3>1. Len(q) > 1 => \E r \in DOMAIN task : q \in Kids(r)
      BY DEF Grown
    <3> QED BY <1>3, <3>1
  <2> QED BY <2>1, <2>2, <2>3, <2>4
<1> QED BY <1>1, <1>4, <1>5 DEF Grown

\* No task is left behind when a live one changes: it ends after its children,
\* and its own parent is live.
LEMMA SettledKept ==
    ASSUME EngineTyped, Grown, Settled, NEW p \in DOMAIN task, NEW t \in Tasks, Set(p, t),
           Live(p), run' = run, run \in {"running", "stopping"}, t.kids = task[p].kids,
           t.step \notin LiveSteps => \A k \in Kids(p) : ~Live(k),
           t.step = "done" /\ t.ok => \A k \in Kids(p) : Complete(k),
           run = "running" => t.step # "cancelled"
    PROVE  Settled'
<1>1. /\ DOMAIN task' = DOMAIN task /\ task'[p] = t
      /\ \A q \in DOMAIN task : q # p => task'[q] = task[q]
  BY OneTask
<1>2. \A q \in DOMAIN task : Kids(q)' = Kids(q) /\ Kids(q) \subseteq DOMAIN task
  BY <1>1 DEF Kids, Grown
<1>3. p \notin Kids(p)
  <2>1. p \in Seq(Nat)
    BY DEF EngineTyped
  <2> QED BY <2>1, Child DEF Kids
<1>4. \A q \in DOMAIN task : q # p => (Live(q)' <=> Live(q)) /\ (Complete(q)' <=> Complete(q))
  BY <1>1 DEF Live, Complete
<1>5. ASSUME NEW q \in DOMAIN task
      PROVE  /\ ~Live(q)' => \A k \in Kids(q)' : ~Live(k)'
             /\ Complete(q)' => \A k \in Kids(q)' : Complete(k)'
             /\ run \notin {"stopping", "timed_out"} => task'[q].step # "cancelled"
  <2>1. /\ ~Live(q) => \A k \in Kids(q) : ~Live(k)
        /\ Complete(q) => \A k \in Kids(q) : Complete(k)
        /\ run \notin {"stopping", "timed_out"} => task[q].step # "cancelled"
    BY DEF Settled
  <2>2. ~Complete(p)
    BY DEF Complete, Live
  <2>3. CASE q # p
    <3>1. p \in Kids(q) => Live(q) /\ ~Complete(q)
      BY <2>1, <2>2
    <3> QED BY <1>1, <1>2, <1>4, <2>1, <2>3, <3>1
  <2>4. CASE q = p
    <3>1. ~Live(q)' => \A k \in Kids(q)' : ~Live(k)'
      BY <1>1, <1>2, <1>3, <1>4, <2>4 DEF Live, LiveSteps
    <3>2. Complete(q)' => \A k \in Kids(q)' : Complete(k)'
      <4>1. Complete(q)' => t.step = "done" /\ t.ok
        BY <1>1, <2>4 DEF Complete
      <4> QED BY <1>2, <1>3, <1>4, <2>4, <4>1
    <3> QED BY <1>1, <2>4, <3>1, <3>2
  <2> QED BY <2>3, <2>4
<1>6. EndsWhole'
  BY DEF EndsWhole, Ended
<1> QED BY <1>1, <1>5, <1>6 DEF Settled

-----------------------------------------------------------------------------
(* The budget. *)

\* The widths a run has, and what they make of the quotas.
LEMMA Widths ==
    ASSUME EngineTyped
    PROVE  /\ shape[2] \in 1..7 /\ Roots \subseteq 1..7 /\ Roots = 1..shape[2]
           /\ \A i \in Roots : Quota(i) \in Nat
           /\ MaxAgentCalls >= shape[2] => \A i \in Roots : Quota(i) >= 1
<1>1. shape[2] \in 1..7
  BY DynamicAssumption DEF EngineTyped
<1>2. MaxAgentCalls \in 1..30
  BY DynamicAssumption
<1> DEFINE w == shape[2]
           M == MaxAgentCalls
<1>3. Roots = 1..w
  BY DEF Roots
<1>4. \A i \in Roots : Quota(i) = M \div w + (IF i <= M % w THEN 1 ELSE 0)
  BY DEF Quota
<1>5. M \div w \in Nat /\ (M >= w => M \div w >= 1)
  <2>1. w \in 1..7 /\ M \in 1..30
    BY <1>1, <1>2
  <2> HIDE DEF w, M
  <2>2. CASE w = 1
    BY <2>1, <2>2
  <2>3. CASE w = 2
    BY <2>1, <2>3
  <2>4. CASE w = 3
    BY <2>1, <2>4
  <2>5. CASE w = 4
    BY <2>1, <2>5
  <2>6. CASE w = 5
    BY <2>1, <2>6
  <2>7. CASE w = 6
    BY <2>1, <2>7
  <2>8. CASE w = 7
    BY <2>1, <2>8
  <2> QED BY <2>1, <2>2, <2>3, <2>4, <2>5, <2>6, <2>7, <2>8
<1> HIDE DEF w, M
<1>6. \A i \in Roots : Quota(i) \in Nat /\ (M >= w => Quota(i) >= 1)
  BY <1>4, <1>5
<1> QED BY <1>1, <1>3, <1>6 DEF w, M

\* The quotas share the ceiling out: trees within theirs stay under it.
LEMMA Ceiling ==
    ASSUME EngineTyped, \A i \in Roots : spent[i] <= Quota(i)
    PROVE  Charges <= MaxAgentCalls
<1>1. shape[2] \in 1..7 /\ Roots = 1..shape[2]
  BY Widths
<1>2. MaxAgentCalls \in 1..30
  BY DynamicAssumption
<1> DEFINE w == shape[2]
           M == MaxAgentCalls
           d == M \div w
           r == M % w
           share(i) == IF i <= w THEN d + (IF i <= r THEN 1 ELSE 0) ELSE 0
<1>3. \A i \in 1..7 : Charge(i) \in Nat /\ Charge(i) <= share(i)
  <2>1. \A i \in Roots : spent[i] \in Nat /\ Quota(i) = share(i)
    BY <1>1 DEF EngineTyped, Quota
  <2>2. ASSUME NEW i \in 1..7, i \in Roots PROVE Charge(i) \in Nat /\ Charge(i) <= share(i)
    <3>1. Charge(i) = spent[i] /\ spent[i] <= Quota(i)
      BY <2>2 DEF Charge
    <3> QED BY <2>1, <2>2, <3>1
  <2>3. ASSUME NEW i \in 1..7, i \notin Roots PROVE Charge(i) \in Nat /\ Charge(i) <= share(i)
    BY <1>1, <2>3 DEF Charge
  <2> QED BY <2>2, <2>3
<1>4. d \in Nat /\ r \in Nat /\ r < w
        /\ share(1) + share(2) + share(3) + share(4) + share(5) + share(6) + share(7) = M
  <2>1. w \in 1..7 /\ M \in 1..30
    BY <1>1, <1>2
  <2> HIDE DEF w, M
  <2>2. CASE w = 1
    BY <2>1, <2>2
  <2>3. CASE w = 2
    BY <2>1, <2>3
  <2>4. CASE w = 3
    BY <2>1, <2>4
  <2>5. CASE w = 4
    BY <2>1, <2>5
  <2>6. CASE w = 5
    BY <2>1, <2>6
  <2>7. CASE w = 6
    BY <2>1, <2>7
  <2>8. CASE w = 7
    BY <2>1, <2>8
  <2> QED BY <2>1, <2>2, <2>3, <2>4, <2>5, <2>6, <2>7, <2>8
<1>5. \A i \in 1..7 : share(i) \in Nat
  <2>1. d \in Nat
    BY <1>4
  <2> HIDE DEF d
  <2> QED BY <2>1
<1> HIDE DEF w, M, d, r, share
<1> QED BY <1>3, <1>4, <1>5 DEF M, Charges

-----------------------------------------------------------------------------
(* The accounts. *)

\* The sets the accounts count are finite.
LEMMA Counting ==
    ASSUME EngineTyped, NEW S \in SUBSET DOMAIN task
    PROVE  IsFiniteSet(S) /\ Cardinality(S) \in Nat
             /\ \A R \in SUBSET S : Cardinality(R) <= Cardinality(S) /\ Cardinality(R) \in Nat
<1>1. IsFiniteSet(DOMAIN task)
  BY DEF EngineTyped
<1>2. IsFiniteSet(S) /\ Cardinality(S) \in Nat
  BY <1>1, FS_Subset, FS_CardinalityType
<1>3. ASSUME NEW R \in SUBSET S PROVE Cardinality(R) <= Cardinality(S) /\ Cardinality(R) \in Nat
  BY <1>2, FS_Subset, FS_CardinalityType
<1> QED BY <1>2, <1>3

\* The calls of the tasks are numbers.
LEMMA CallNumbers ==
    ASSUME EngineTyped
    PROVE  \A q \in DOMAIN task : task[q] \in Tasks /\ task[q].calls \in Nat
<1>1. ASSUME NEW q \in DOMAIN task PROVE task[q] \in Tasks
  BY DEF EngineTyped
<1>2. \A u \in Tasks : u.calls \in Nat
  BY DEF Tasks
<1> QED BY <1>1, <1>2

\* The accounts outlast a step that makes no call and begins no task.
LEMMA AccountsKept ==
    ASSUME EngineTyped, Grown, Accounts, NEW p \in DOMAIN task, NEW t \in Tasks, Set(p, t),
           UNCHANGED <<shape, spent, usage>>,
           t.calls = task[p].calls, t.step \notin {"created", "calling"},
           t.step = "queued" => t.calls > 0,
           MaxAgentCalls >= shape[2] /\ t.step = "done" /\ p = <<p[1]>> => t.calls > 0
    PROVE  Accounts'
<1>1. /\ DOMAIN task' = DOMAIN task /\ task'[p] = t
      /\ \A q \in DOMAIN task : q # p => task'[q] = task[q]
  BY OneTask
<1>2. Roots' = Roots /\ Charges' = Charges /\ \A i : Quota(i)' = Quota(i)
  BY DEF Roots, Charges, Charge, Quota
<1>3. \A q \in DOMAIN task : task[q].calls \in Nat /\ task'[q].calls = task[q].calls
  BY <1>1, CallNumbers
<1>4. \A P \in SUBSET DOMAIN task : Made(task', P) = Made(task, P)
  <2>1. ASSUME NEW P \in SUBSET DOMAIN task PROVE Made(task', P) = Made(task, P)
    <3>1. IsFiniteSet(P)
      BY Counting
    <3> QED BY <1>3, <3>1, MadeSame
  <2> QED BY <2>1
<1>5. Called' = Called /\ \A i : Tree(i)' = Tree(i) /\ Tree(i) \in SUBSET DOMAIN task
  BY <1>1, <1>3 DEF Called, Tree
<1>6. Cardinality(Begun') <= Cardinality(Begun) /\ Cardinality(Begun) \in Nat
        /\ Cardinality(Begun') \in Nat
  <2>1. Begun' \in SUBSET Begun /\ Begun \in SUBSET DOMAIN task
    BY <1>1, <1>3 DEF Begun
  <2> QED BY <2>1, Counting
<1>7. Cardinality(Unbegun') <= Cardinality(Unbegun) /\ Cardinality(Unbegun) \in Nat
        /\ Cardinality(Unbegun') \in Nat
  <2>1. Unbegun' \in SUBSET Unbegun /\ Unbegun \in SUBSET DOMAIN task
    BY <1>1 DEF Unbegun
  <2> QED BY <2>1, Counting
<1>8. Cardinality(Calling') <= Cardinality(Calling) /\ Cardinality(Calling) \in Nat
        /\ Cardinality(Calling') \in Nat
  <2>1. Calling' \in SUBSET Calling /\ Calling \in SUBSET DOMAIN task
    BY <1>1 DEF Calling
  <2> QED BY <2>1, Counting
<1>9. /\ usage' = usage /\ usage.logical \in Nat /\ Cardinality(DOMAIN task) \in Nat
      /\ MaxConcurrency \in Nat
  BY Counting, DynamicAssumption DEF EngineTyped, Usages
<1>10. /\ (usage.calls = Made(task, DOMAIN task))'
       /\ (usage.calls = Charges)'
       /\ (usage.calls = Cardinality(Called) + usage.retries + usage.repairs)'
  BY <1>1, <1>2, <1>4, <1>5, <1>9 DEF Accounts
<1>11. /\ (Cardinality(Begun) <= usage.logical)'
       /\ (usage.logical + Cardinality(Unbegun) <= Cardinality(DOMAIN task))'
       /\ (Cardinality(Calling) <= MaxConcurrency)'
  <2>1. /\ Cardinality(Begun) <= usage.logical
        /\ usage.logical + Cardinality(Unbegun) <= Cardinality(DOMAIN task)
        /\ Cardinality(Calling) <= MaxConcurrency
    BY DEF Accounts
  <2> QED BY ONLY <1>1, <1>6, <1>7, <1>8, <1>9, <2>1
<1>12. ASSUME NEW i \in Roots
       PROVE  RootAccount(i)'
  <2>1. /\ spent[i] = Made(task, Tree(i)) /\ spent[i] <= Quota(i)
        /\ spent[i] > 0 => task[<<i>>].calls > 0
        /\ MaxAgentCalls >= shape[2] /\ task[<<i>>].step = "done" => task[<<i>>].calls > 0
    BY DEF Accounts, RootAccount
  <2>2. <<i>> \in DOMAIN task /\ <<i>>[1] = i
    BY DEF Grown
  <2>3. spent'[i] = Made(task', Tree(i)') /\ spent'[i] <= Quota(i)'
    BY <1>2, <1>4, <1>5, <2>1
  <2>4. spent'[i] > 0 => task'[<<i>>].calls > 0
    BY <1>3, <2>1, <2>2
  <2>5. CASE <<i>> = p
    BY <1>1, <2>2, <2>3, <2>4, <2>5 DEF RootAccount
  <2>6. CASE <<i>> # p
    BY <1>1, <2>1, <2>2, <2>3, <2>4, <2>6 DEF RootAccount
  <2> QED BY <2>5, <2>6
<1> QED BY <1>2, <1>10, <1>11, <1>12 DEF Accounts

-----------------------------------------------------------------------------
(* The steps that make no call. *)

\* What an outcome keeps of its task.
LEMMA Outcome ==
    ASSUME NEW t \in Tasks, NEW ok \in BOOLEAN
    PROVE  LET c == [Done(t, FALSE) EXCEPT !.step = "cancelled"]
           IN  /\ Done(t, ok) \in Tasks /\ Consistent(Done(t, ok)) /\ Done(t, ok).step = "done"
               /\ Done(t, ok).calls = t.calls /\ Done(t, ok).kids = t.kids /\ Done(t, ok).ok = ok
               /\ c \in Tasks /\ Consistent(c) /\ c.step = "cancelled"
               /\ c.calls = t.calls /\ c.kids = t.kids
  BY DEF Done, Created, Tasks, Steps, Consistent

\* What a task that is to be called again keeps.
LEMMA Again ==
    ASSUME NEW t \in Tasks
    PROVE  LET s == [t EXCEPT !.step = "sleeping", !.retries = @ + 1]
               m == [t EXCEPT !.step = "queued", !.repairs = @ + 1, !.next = "schema"]
               w == [t EXCEPT !.step = "queued", !.next = "transient"]
           IN  /\ s \in Tasks /\ s.kids = t.kids /\ s.calls = t.calls /\ s.step = "sleeping"
               /\ m \in Tasks /\ m.kids = t.kids /\ m.calls = t.calls /\ m.step = "queued"
                    /\ m.next = "schema"
               /\ w \in Tasks /\ w.kids = t.kids /\ w.calls = t.calls /\ w.step = "queued"
                    /\ w.next = "transient"
<1>1. t.retries + 1 \in Nat /\ t.repairs + 1 \in Nat
  BY DEF Tasks
<1>2. ASSUME NEW r \in Nat
      PROVE  LET s == [t EXCEPT !.step = "sleeping", !.retries = r]
             IN  s \in Tasks /\ s.kids = t.kids /\ s.calls = t.calls /\ s.step = "sleeping"
  BY DEF Tasks, Steps
<1>3. ASSUME NEW r \in Nat
      PROVE  LET m == [t EXCEPT !.step = "queued", !.repairs = r, !.next = "schema"]
             IN  /\ m \in Tasks /\ m.kids = t.kids /\ m.calls = t.calls /\ m.step = "queued"
                 /\ m.next = "schema"
  BY DEF Tasks, Steps
<1>4. LET w == [t EXCEPT !.step = "queued", !.next = "transient"]
      IN  /\ w \in Tasks /\ w.kids = t.kids /\ w.calls = t.calls /\ w.step = "queued"
          /\ w.next = "transient"
  BY DEF Tasks, Steps
<1> QED BY <1>1, <1>2, <1>3, <1>4, Zenon

\* A step that makes no call, begins no task and ends none before its children.
LEMMA CalmKeeps ==
    ASSUME EngineInv, NEW p \in DOMAIN task, NEW t \in Tasks, Set(p, t),
           UNCHANGED <<shape, spent, usage, run>>, Live(p), run \in {"running", "stopping"},
           Consistent(t), t.kids = task[p].kids, t.calls = task[p].calls,
           t.step \notin {"created", "calling"}, t.step = "queued" => t.calls > 0,
           MaxAgentCalls >= shape[2] /\ t.step = "done" /\ p = <<p[1]>> => t.calls > 0,
           t.step \notin LiveSteps => \A k \in Kids(p) : ~Live(k),
           t.step = "done" /\ t.ok => \A k \in Kids(p) : Complete(k),
           run = "running" => t.step # "cancelled"
    PROVE  EngineInv'
<1>1. EngineTyped /\ Grown /\ Accounts /\ Settled
  BY DEF EngineInv
<1>2. EngineTyped'
  BY <1>1, TypedKept DEF EngineTyped
<1>3. Grown'
  <2>1. t.calls >= task[p].calls
    BY <1>1, CallNumbers
  <2> QED BY <1>1, <2>1, GrownKept
<1>4. Accounts'
  BY <1>1, AccountsKept
<1>5. Settled'
  BY <1>1, SettledKept
<1> QED BY <1>2, <1>3, <1>4, <1>5 DEF EngineInv

\* A task that is called has no children yet, and was called before.
LEMMA CallingTask ==
    ASSUME EngineInv, NEW p \in DOMAIN task
    PROVE  /\ task[p] \in Tasks /\ Consistent(task[p]) /\ task[p].calls \in Nat
           /\ task[p].step \in {"created", "queued", "calling", "sleeping"} => task[p].kids = 0
                /\ Kids(p) = {}
           /\ task[p].step \in {"calling", "sleeping", "gathering"} => task[p].calls > 0
<1>1. task[p] \in Tasks /\ task[p].calls \in Nat
  BY CallNumbers DEF EngineInv
<1>2. Consistent(task[p])
  BY DEF EngineInv, Grown
<1>3. task[p].kids = 0 => Kids(p) = {}
  BY DEF Kids
<1> QED BY <1>1, <1>2, <1>3 DEF Consistent

\* A call that ended without an answer: the task gives up or asks again later.
LEMMA ReturnsKeeps ==
    ASSUME EngineInv, NEW p \in DOMAIN task, NEW t \in Tasks, Returns(p, t),
           Consistent(t), t.kids = 0, t.calls = task[p].calls,
           t.step \in {"queued", "sleeping", "done"}
    PROVE  EngineInv'
<1>1. /\ run = "running" /\ task[p].step = "calling" /\ Set(p, t)
      /\ UNCHANGED <<shape, spent, usage, run>>
  BY DEF Returns
<1>2. task[p].kids = 0 /\ Kids(p) = {} /\ task[p].calls > 0
  BY <1>1, CallingTask
<1>3. Live(p)
  BY <1>1 DEF Live
<1> QED BY <1>1, <1>2, <1>3, CalmKeeps

\* A transient failure.
LEMMA TransientKeeps ==
    ASSUME EngineInv, NEW p \in DOMAIN task, Transient(p)
    PROVE  EngineInv'
<1> DEFINE t == task[p]
           b == [t EXCEPT !.step = "sleeping", !.retries = @ + 1]
<1>1. t.step = "calling"
  BY DEF Transient, Returns
<1>2. t \in Tasks /\ Consistent(t) /\ t.kids = 0 /\ t.calls > 0
  BY <1>1, CallingTask
<1>3. CASE Returns(p, Done(t, FALSE))
  BY <1>2, <1>3, Outcome, ReturnsKeeps
<1>4. CASE Returns(p, b)
  <2>1. b \in Tasks /\ b.kids = 0 /\ b.calls = t.calls /\ b.step = "sleeping"
    BY <1>2, Again
  <2>2. Consistent(b)
    BY <1>2, <2>1 DEF Consistent
  <2> HIDE DEF b
  <2> QED BY <1>4, <2>1, <2>2, ReturnsKeeps
<1> QED BY <1>3, <1>4 DEF Transient

\* An answer that is not of the schema.
LEMMA MalformedKeeps ==
    ASSUME EngineInv, NEW p \in DOMAIN task, Malformed(p)
    PROVE  EngineInv'
<1> DEFINE t == task[p]
           b == [t EXCEPT !.step = "queued", !.repairs = @ + 1, !.next = "schema"]
<1>1. t.step = "calling"
  BY DEF Malformed, Returns
<1>2. t \in Tasks /\ Consistent(t) /\ t.kids = 0 /\ t.calls > 0 /\ t.calls \in Nat
  BY <1>1, CallingTask
<1>3. CASE Returns(p, Done(t, FALSE))
  BY <1>2, <1>3, Outcome, ReturnsKeeps
<1>4. CASE Returns(p, b)
  <2>1. b \in Tasks /\ b.kids = 0 /\ b.calls = t.calls /\ b.step = "queued" /\ b.next = "schema"
    BY <1>2, Again
  <2>2. Consistent(b)
    BY <1>2, <2>1 DEF Consistent
  <2> HIDE DEF b
  <2> QED BY <1>4, <2>1, <2>2, ReturnsKeeps
<1> QED BY <1>3, <1>4 DEF Malformed

\* A call that broke.
LEMMA BrokenKeeps ==
    ASSUME EngineInv, NEW p \in DOMAIN task, Broken(p)
    PROVE  EngineInv'
<1>1. task[p].step = "calling"
  BY DEF Broken, Returns
<1>2. task[p] \in Tasks /\ task[p].kids = 0
  BY <1>1, CallingTask
<1> QED BY <1>2, Outcome, ReturnsKeeps DEF Broken

\* The end of a back-off.
LEMMA WakeKeeps ==
    ASSUME EngineInv, NEW p \in DOMAIN task, Wake(p)
    PROVE  EngineInv'
<1> DEFINE t == task[p]
           b == [t EXCEPT !.step = "queued", !.next = "transient"]
<1>1. run = "running" /\ t.step = "sleeping" /\ Set(p, b) /\ UNCHANGED <<shape, spent, usage, run>>
  BY DEF Wake
<1>2. t \in Tasks /\ Consistent(t) /\ t.kids = 0 /\ Kids(p) = {} /\ t.calls > 0 /\ t.calls \in Nat
  BY <1>1, CallingTask
<1>3. b \in Tasks /\ b.kids = 0 /\ b.calls = t.calls /\ b.step = "queued" /\ b.next = "transient"
  BY <1>2, Again
<1>4. Consistent(b)
  BY <1>2, <1>3 DEF Consistent
<1>5. Live(p)
  BY <1>1 DEF Live
<1> HIDE DEF b
<1> QED BY <1>1, <1>2, <1>3, <1>4, <1>5, CalmKeeps

\* A parent ends when its children have.
LEMMA GatherKeeps ==
    ASSUME EngineInv, NEW p \in DOMAIN task, GatherChildren(p)
    PROVE  EngineInv'
<1> DEFINE ok == \A q \in Kids(p) : Complete(q)
           t == Done(task[p], ok)
<1>1. /\ run = "running" /\ task[p].step = "gathering" /\ \A q \in Kids(p) : task[q].step = "done"
      /\ Set(p, t) /\ UNCHANGED <<shape, spent, usage, run>>
  BY DEF GatherChildren
<1>2. task[p] \in Tasks /\ task[p].calls > 0 /\ task[p].calls \in Nat
  BY <1>1, CallingTask
<1>3. /\ t \in Tasks /\ Consistent(t) /\ t.step = "done" /\ t.calls = task[p].calls
      /\ t.kids = task[p].kids /\ t.ok = ok
  BY <1>2, Outcome
<1>4. Live(p) /\ \A k \in Kids(p) : ~Live(k)
  BY <1>1 DEF Live
<1>5. t.ok => \A k \in Kids(p) : Complete(k)
  BY <1>3
<1> HIDE DEF t
<1> QED BY <1>1, <1>2, <1>3, <1>4, <1>5, CalmKeeps

\* The children of a task are tasks, one level down.
LEMMA Levels ==
    ASSUME EngineInv, NEW p \in DOMAIN task
    PROVE  /\ p \in Seq(Nat) /\ Len(p) \in 1..3
           /\ \A k \in Kids(p) : k \in DOMAIN task /\ Len(k) = Len(p) + 1
           /\ Len(p) = 1 => p = <<p[1]>> /\ p[1] \in Roots
           /\ Len(p) > 1 => \E q \in DOMAIN task : p \in Kids(q) /\ Len(p) = Len(q) + 1
<1>1. /\ p \in Seq(Nat) /\ Len(p) \in 1..3 /\ p[1] \in Roots
      /\ Len(p) > 1 => \E q \in DOMAIN task : p \in Kids(q)
  BY DEF EngineInv, EngineTyped, Grown
<1>2. ASSUME NEW q \in DOMAIN task, NEW k \in Kids(q)
      PROVE  k \in DOMAIN task /\ Len(k) = Len(q) + 1
  <2>1. k \in DOMAIN task /\ q \in Seq(Nat) /\ task[q].kids \in Nat
    BY CallNumbers DEF EngineInv, EngineTyped, Grown, Tasks
  <2>2. PICK i \in 1..task[q].kids : k = Append(q, i)
    BY DEF Kids
  <2>3. i \in Nat
    BY <2>1
  <2> QED BY <2>1, <2>2, <2>3, Child
<1>3. Len(p) = 1 => p = <<p[1]>>
  BY <1>1
<1>4. Len(p) > 1 => \E q \in DOMAIN task : p \in Kids(q) /\ Len(p) = Len(q) + 1
  BY <1>1, <1>2
<1> QED BY <1>1, <1>2, <1>3, <1>4

\* Below a live task there is one without live children.
LEMMA Deepest ==
    ASSUME EngineInv, NEW p \in DOMAIN task, Live(p)
    PROVE  \E q \in DOMAIN task : Live(q) /\ \A k \in Kids(q) : ~Live(k)
<1>1. SUFFICES ASSUME \A q \in DOMAIN task : Live(q) => \E k \in Kids(q) : Live(k)
               PROVE  FALSE
  OBVIOUS
<1>2. ASSUME NEW q \in DOMAIN task, Live(q)
      PROVE  \E k \in DOMAIN task : Live(k) /\ Len(k) = Len(q) + 1
  <2>1. PICK k \in Kids(q) : Live(k)
    BY <1>1, <1>2
  <2>2. k \in DOMAIN task /\ Len(k) = Len(q) + 1
    BY Levels
  <2> QED BY <2>1, <2>2
<1>3. PICK k \in DOMAIN task : Live(k) /\ Len(k) = Len(p) + 1
  BY <1>2
<1>4. PICK m \in DOMAIN task : Live(m) /\ Len(m) = Len(k) + 1
  BY <1>2, <1>3
<1>5. PICK n \in DOMAIN task : Live(n) /\ Len(n) = Len(m) + 1
  BY <1>2, <1>4
<1>6. Len(p) \in 1..3 /\ Len(k) \in 1..3 /\ Len(m) \in 1..3 /\ Len(n) \in 1..3
  BY Levels
<1> DEFINE a == Len(p)  b == Len(k)  c == Len(m)  d == Len(n)
<1>7. a \in 1..3 /\ b \in 1..3 /\ c \in 1..3 /\ d \in 1..3 /\ b = a + 1 /\ c = b + 1 /\ d = c + 1
  BY <1>3, <1>4, <1>5, <1>6
<1> HIDE DEF a, b, c, d
<1> QED BY ONLY <1>7

\* What holds of the roots and passes to children holds of every task.
LEMMA Downward ==
    ASSUME EngineInv, NEW E, \A i \in Roots : <<i>> \in E,
           \A q \in DOMAIN task : q \in E => Kids(q) \subseteq E
    PROVE  DOMAIN task \subseteq E
<1>1. \A q \in DOMAIN task : Len(q) \in 1..3
  BY Levels
<1>2. \A q \in DOMAIN task : Len(q) > 1 => \E r \in DOMAIN task : q \in Kids(r) /\ Len(q) = Len(r) + 1
  BY Levels
<1>3. \A q \in DOMAIN task : Len(q) = 1 => q \in E
  BY Levels
<1>4. ASSUME NEW q \in DOMAIN task, Len(q) = 2 PROVE q \in E
  <2>1. Len(q) > 1
    BY <1>4
  <2>2. PICK r \in DOMAIN task : q \in Kids(r) /\ Len(q) = Len(r) + 1
    BY <1>2, <2>1
  <2>3. Len(r) = 1
    <3> DEFINE b == Len(r)
    <3>1. b \in 1..3 /\ 2 = b + 1
      BY <1>1, <1>4, <2>2
    <3> HIDE DEF b
    <3>2. b = 1
      BY <3>1
    <3> QED BY <3>2 DEF b
  <2> QED BY <1>3, <2>2, <2>3
<1>5. ASSUME NEW q \in DOMAIN task, Len(q) = 3 PROVE q \in E
  <2>1. Len(q) > 1
    BY <1>5
  <2>2. PICK r \in DOMAIN task : q \in Kids(r) /\ Len(q) = Len(r) + 1
    BY <1>2, <2>1
  <2>3. Len(r) = 2
    <3> DEFINE b == Len(r)
    <3>1. b \in 1..3 /\ 3 = b + 1
      BY <1>1, <1>5, <2>2
    <3> HIDE DEF b
    <3>2. b = 2
      BY <3>1
    <3> QED BY <3>2 DEF b
  <2> QED BY <1>4, <2>2, <2>3
<1> QED BY <1>1, <1>3, <1>4, <1>5

\* A whole tree has ended when its roots have, and completely if they did.
LEMMA WholeTree ==
    ASSUME EngineInv
    PROVE  /\ (\A i \in Roots : ~Live(<<i>>)) => \A p \in DOMAIN task : ~Live(p)
           /\ (\A i \in Roots : Complete(<<i>>)) => \A p \in DOMAIN task : Complete(p)
<1> DEFINE E == {p \in DOMAIN task : ~Live(p)}
           F == {p \in DOMAIN task : Complete(p)}
<1>1. /\ \A i \in Roots : <<i>> \in DOMAIN task
      /\ \A q \in DOMAIN task : Kids(q) \subseteq DOMAIN task
  BY DEF EngineInv, Grown
<1>2. \A q \in DOMAIN task : (q \in E => Kids(q) \subseteq E) /\ (q \in F => Kids(q) \subseteq F)
  BY <1>1 DEF EngineInv, Settled
<1>3. ASSUME \A i \in Roots : ~Live(<<i>>) PROVE DOMAIN task \subseteq E
  <2>1. \A i \in Roots : <<i>> \in E
    BY <1>1, <1>3
  <2> HIDE DEF E
  <2> QED BY <1>2, <2>1, Downward
<1>4. ASSUME \A i \in Roots : Complete(<<i>>) PROVE DOMAIN task \subseteq F
  <2>1. \A i \in Roots : <<i>> \in F
    BY <1>1, <1>4
  <2> HIDE DEF F
  <2> QED BY <1>2, <2>1, Downward
<1> QED BY <1>3, <1>4

\* A cancelled task ends, after its children.
LEMMA UnwindKeeps ==
    ASSUME EngineInv, NEW p \in DOMAIN task, Unwind(p)
    PROVE  EngineInv'
<1> DEFINE t == [Done(task[p], FALSE) EXCEPT !.step = "cancelled"]
<1>1. /\ run = "stopping" /\ Live(p) /\ Set(p, t) /\ UNCHANGED <<shape, spent, usage, run>>
      /\ p = CHOOSE q \in DOMAIN task : Live(q) /\ \A k \in Kids(q) : ~Live(k)
  BY DEF Unwind
<1>2. task[p] \in Tasks
  BY CallingTask
<1>3. /\ t \in Tasks /\ Consistent(t) /\ t.step = "cancelled" /\ t.calls = task[p].calls
      /\ t.kids = task[p].kids
  BY <1>2, Outcome
<1> HIDE DEF t
<1>4. \A k \in Kids(p) : ~Live(k)
  <2>1. \E q \in DOMAIN task : Live(q) /\ \A k \in Kids(q) : ~Live(k)
    BY <1>1, Deepest
  <2> QED BY <1>1, <2>1
<1> QED BY <1>1, <1>3, <1>4, CalmKeeps

\* The steps of the run itself leave the tasks as they are.
LEMMA RunKeeps ==
    ASSUME EngineInv, UNCHANGED <<shape, task, spent, usage>>, run \in {"running", "stopping"},
           run' \in RunStates, EndsWhole', run = "stopping" => run' = "timed_out"
    PROVE  EngineInv'
<1>1. EngineTyped' /\ Grown' /\ Accounts'
  BY DEF EngineInv, EngineTyped, Grown, Accounts, Roots, Kids, Charges, Charge, Quota, RootAccount, Begun, Unbegun,
         Called, Calling, Tree
<1>2. \A p \in DOMAIN task : (Live(p)' <=> Live(p)) /\ (Complete(p)' <=> Complete(p))
        /\ Kids(p)' = Kids(p)
  BY DEF Live, Complete, Kids
<1>3. \A p \in DOMAIN task : Kids(p) \subseteq DOMAIN task
  BY DEF EngineInv, Grown
<1>4. Settled'
  BY <1>2, <1>3 DEF EngineInv, Settled
<1> QED BY <1>1, <1>4 DEF EngineInv

\* The run returns or is blocked.
LEMMA ReturnKeeps ==
    ASSUME EngineInv, Return
    PROVE  EngineInv'
<1>1. /\ run = "running" /\ \A i \in Roots : task[<<i>>].step = "done"
      /\ run' = IF \A i \in Roots : Complete(<<i>>) THEN "returned" ELSE "blocked"
      /\ UNCHANGED <<shape, task, spent, usage>>
  BY DEF Return
<1>2. \A i \in Roots : ~Live(<<i>>)
  BY <1>1 DEF Live
<1>3. \A p \in DOMAIN task : ~Live(p)
  BY <1>2, WholeTree
<1>4. run' = "returned" => \A p \in DOMAIN task : Complete(p)
  BY <1>1, WholeTree
<1>5. EndsWhole'
  BY <1>1, <1>3, <1>4 DEF EndsWhole, Live, Complete
<1> QED BY <1>1, <1>5, RunKeeps DEF RunStates

\* The run is told to stop.
LEMMA ExpireKeeps ==
    ASSUME EngineInv, Expire
    PROVE  EngineInv'
<1>1. run = "running" /\ run' = "stopping" /\ UNCHANGED <<shape, task, spent, usage>>
  BY DEF Expire
<1>2. EndsWhole'
  BY <1>1 DEF EndsWhole, Ended
<1> QED BY <1>1, <1>2, RunKeeps DEF RunStates

\* The run has stopped.
LEMMA TimeOutKeeps ==
    ASSUME EngineInv, TimeOut
    PROVE  EngineInv'
<1>1. /\ run = "stopping" /\ run' = "timed_out" /\ UNCHANGED <<shape, task, spent, usage>>
      /\ \A i \in Roots : ~Live(<<i>>)
  BY DEF TimeOut
<1>2. \A p \in DOMAIN task : ~Live(p)
  BY <1>1, WholeTree
<1>3. EndsWhole'
  BY <1>1, <1>2 DEF EndsWhole, Live
<1> QED BY <1>1, <1>3, RunKeeps DEF RunStates

-----------------------------------------------------------------------------
(* A task begins. *)

\* A task that begins is counted once.
LEMMA BeginKeeps ==
    ASSUME EngineInv, NEW p \in DOMAIN task, Begin(p)
    PROVE  EngineInv'
<1> DEFINE t == [task[p] EXCEPT !.step = "queued"]
<1>1. /\ run = "running" /\ task[p].step = "created" /\ Set(p, t)
      /\ usage' = [usage EXCEPT !.logical = @ + 1] /\ UNCHANGED <<shape, spent, run>>
  BY DEF Begin
<1>2. /\ EngineTyped /\ Grown /\ Accounts /\ Settled /\ task[p] \in Tasks /\ Consistent(task[p])
      /\ task[p].kids = 0 /\ Kids(p) = {}
  BY <1>1, CallingTask DEF EngineInv
<1>3. task[p].calls = 0 /\ task[p].next = "none"
  BY <1>1, <1>2 DEF Consistent
<1>4. t \in Tasks /\ t.step = "queued" /\ t.calls = 0 /\ t.kids = 0 /\ t.next = "none"
  <2>1. ASSUME NEW u \in Tasks
        PROVE  LET v == [u EXCEPT !.step = "queued"]
               IN  /\ v \in Tasks /\ v.step = "queued" /\ v.calls = u.calls /\ v.kids = u.kids
                   /\ v.next = u.next
    BY DEF Tasks, Steps
  <2> QED BY <1>2, <1>3, <2>1
<1>5. Consistent(t)
  BY <1>4 DEF Consistent
<1> HIDE DEF t
<1>6. usage' \in Usages /\ usage'.logical = usage.logical + 1 /\ usage.logical \in Nat
      /\ usage'.calls = usage.calls /\ usage'.retries = usage.retries /\ usage'.repairs = usage.repairs
  <2>1. usage \in Usages /\ usage.logical \in Nat
    BY <1>2 DEF EngineTyped, Usages
  <2>2. ASSUME NEW u \in Usages, NEW n \in Nat
        PROVE  LET v == [u EXCEPT !.logical = n]
               IN  /\ v \in Usages /\ v.logical = n /\ v.calls = u.calls
                   /\ v.retries = u.retries /\ v.repairs = u.repairs
    BY DEF Usages
  <2>3. usage.logical + 1 \in Nat
    BY <2>1
  <2> QED BY <1>1, <2>1, <2>2, <2>3
<1>7. EngineTyped'
  BY <1>1, <1>2, <1>4, <1>6, TypedKept DEF EngineTyped
<1>8. Grown'
  <2>1. t.calls >= task[p].calls
    BY <1>3, <1>4
  <2> QED BY <1>1, <1>2, <1>4, <1>5, <2>1, GrownKept
<1>9. Settled'
  <2>1. Live(p)
    BY <1>1 DEF Live
  <2> QED BY <1>1, <1>2, <1>4, <2>1, SettledKept
<1>10. /\ DOMAIN task' = DOMAIN task /\ task'[p] = t
       /\ \A q \in DOMAIN task : q # p => task'[q] = task[q]
  BY <1>1, <1>2, <1>4, OneTask
<1>11. Roots' = Roots /\ Charges' = Charges /\ \A i : Quota(i)' = Quota(i)
  BY <1>1 DEF Roots, Charges, Charge, Quota
<1>12. \A q \in DOMAIN task : task[q].calls \in Nat /\ task'[q].calls = task[q].calls
  BY <1>2, <1>3, <1>4, <1>10, CallNumbers
<1>13. \A P \in SUBSET DOMAIN task : Made(task', P) = Made(task, P)
  <2>1. ASSUME NEW P \in SUBSET DOMAIN task PROVE Made(task', P) = Made(task, P)
    <3>1. IsFiniteSet(P)
      BY <1>2, Counting
    <3> QED BY <1>12, <3>1, MadeSame
  <2> QED BY <2>1
<1>14. Called' = Called /\ \A i : Tree(i)' = Tree(i) /\ Tree(i) \in SUBSET DOMAIN task
  BY <1>10, <1>12 DEF Called, Tree
<1>15. Cardinality(Begun') = Cardinality(Begun) + 1 /\ Cardinality(Begun) \in Nat
  <2>1. Begun' = Begun \cup {p} /\ p \notin Begun /\ Begun \in SUBSET DOMAIN task
    BY <1>1, <1>3, <1>4, <1>10, <1>12 DEF Begun
  <2>2. IsFiniteSet(Begun) /\ Cardinality(Begun) \in Nat
    BY <1>2, <2>1, Counting
  <2> QED BY <2>1, <2>2, FS_AddElement
<1>16. Cardinality(Unbegun') = Cardinality(Unbegun) - 1 /\ Cardinality(Unbegun) \in Nat
  <2>1. Unbegun' = Unbegun \ {p} /\ p \in Unbegun /\ Unbegun \in SUBSET DOMAIN task
    BY <1>1, <1>4, <1>10 DEF Unbegun
  <2>2. IsFiniteSet(Unbegun) /\ Cardinality(Unbegun) \in Nat
    BY <1>2, <2>1, Counting
  <2> QED BY <2>1, <2>2, FS_RemoveElement
<1>17. Calling' = Calling
  BY <1>1, <1>4, <1>10 DEF Calling
<1>18. Accounts'
  <2>1. /\ (usage.calls = Made(task, DOMAIN task))'
        /\ (usage.calls = Charges)'
        /\ (usage.calls = Cardinality(Called) + usage.retries + usage.repairs)'
        /\ (Cardinality(Calling) <= MaxConcurrency)'
    BY <1>2, <1>6, <1>10, <1>11, <1>13, <1>14, <1>17 DEF Accounts
  <2>2. /\ (Cardinality(Begun) <= usage.logical)'
        /\ (usage.logical + Cardinality(Unbegun) <= Cardinality(DOMAIN task))'
    <3>1. /\ Cardinality(Begun) <= usage.logical
          /\ usage.logical + Cardinality(Unbegun) <= Cardinality(DOMAIN task)
      BY <1>2 DEF Accounts
    <3>2. Cardinality(DOMAIN task) \in Nat
      BY <1>2, Counting
    <3> QED BY ONLY <1>6, <1>10, <1>15, <1>16, <3>1, <3>2
  <2>3. ASSUME NEW i \in Roots
        PROVE  RootAccount(i)'
    <3>1. /\ spent[i] = Made(task, Tree(i)) /\ spent[i] <= Quota(i)
          /\ spent[i] > 0 => task[<<i>>].calls > 0
          /\ MaxAgentCalls >= shape[2] /\ task[<<i>>].step = "done" => task[<<i>>].calls > 0
      BY <1>2 DEF Accounts, RootAccount
    <3>2. <<i>> \in DOMAIN task
      BY <1>2 DEF Grown
    <3>3. spent'[i] = Made(task', Tree(i)') /\ spent'[i] <= Quota(i)'
      BY <1>1, <1>11, <1>13, <1>14, <3>1
    <3>4. spent'[i] > 0 => task'[<<i>>].calls > 0
      BY <1>1, <1>12, <3>1, <3>2
    <3>5. MaxAgentCalls >= shape'[2] /\ task'[<<i>>].step = "done" => task'[<<i>>].calls > 0
      BY <1>1, <1>4, <1>10, <3>1, <3>2
    <3> QED BY <3>3, <3>4, <3>5 DEF RootAccount
  <2> QED BY <1>11, <2>1, <2>2, <2>3 DEF Accounts
<1> QED BY <1>7, <1>8, <1>9, <1>18 DEF EngineInv

-----------------------------------------------------------------------------
(* A task takes a slot. *)

\* What one more call adds to the counters: a call and, unless it is the first
\* one of its task, a retry or a repair.
LEMMA CountedOnce ==
    ASSUME NEW u \in Usages, NEW t \in Tasks
    PROVE  LET v == Counted(u, t)
           IN  /\ v \in Usages /\ v.calls = u.calls + 1 /\ v.logical = u.logical
               /\ v.retries + v.repairs = u.retries + u.repairs + (IF t.next = "none" THEN 0 ELSE 1)
<1> DEFINE a == IF t.next = "transient" THEN u.retries + 1 ELSE u.retries
           b == IF t.next = "schema" THEN u.repairs + 1 ELSE u.repairs
           c == u.calls + 1
<1>1. u.calls \in Nat /\ u.logical \in Nat /\ u.retries \in Nat /\ u.repairs \in Nat
  BY DEF Usages
<1>2. a \in Nat /\ b \in Nat /\ c \in Nat
  BY <1>1
<1>3. Counted(u, t) = [u EXCEPT !.calls = c, !.retries = a, !.repairs = b]
  BY DEF Counted
<1>4. t.next \in {"none", "transient", "schema"}
  BY DEF Tasks
<1>5. a + b = u.retries + u.repairs + (IF t.next = "none" THEN 0 ELSE 1)
  BY <1>1, <1>4
<1> HIDE DEF a, b
<1>6. /\ Counted(u, t) \in Usages /\ Counted(u, t).calls = c /\ Counted(u, t).logical = u.logical
      /\ Counted(u, t).retries = a /\ Counted(u, t).repairs = b
  <2> HIDE DEF c
  <2> QED BY <1>2, <1>3 DEF Usages
<1> QED BY <1>5, <1>6

\* The budget of the root is spent: the task ends without a call.
LEMMA DeniedKeeps ==
    ASSUME EngineInv, NEW p \in DOMAIN task, Enter(p), spent[p[1]] >= Quota(p[1])
    PROVE  EngineInv'
<1> DEFINE t == Done(task[p], FALSE)
           i == p[1]
<1>1. run = "running" /\ task[p].step = "queued" /\ Set(p, t) /\ UNCHANGED <<shape, spent, usage, run>>
  BY DEF Enter
<1>2. EngineTyped /\ task[p] \in Tasks /\ task[p].kids = 0 /\ Kids(p) = {} /\ task[p].calls \in Nat
  BY <1>1, CallingTask DEF EngineInv
<1>3. t \in Tasks /\ Consistent(t) /\ t.step = "done" /\ t.calls = task[p].calls /\ t.kids = 0
        /\ t.ok = FALSE
  BY <1>2, Outcome
<1>4. ASSUME MaxAgentCalls >= shape[2], p = <<p[1]>> PROVE t.calls > 0
  <2>1. i \in Roots
    BY DEF EngineInv, Grown
  <2>2. Quota(i) >= 1 /\ Quota(i) \in Nat /\ spent[i] \in Nat
    BY <1>2, <1>4, <2>1, Widths DEF EngineTyped
  <2>3. spent[i] > 0
    <3> HIDE DEF i
    <3> QED BY <2>2 DEF i
  <2>4. task[<<i>>].calls > 0
    BY <2>1, <2>3 DEF EngineInv, Accounts, RootAccount
  <2> QED BY <1>3, <1>4, <2>4
<1>5. Live(p)
  BY <1>1 DEF Live
<1> HIDE DEF t
<1> QED BY <1>1, <1>2, <1>3, <1>4, <1>5, CalmKeeps

\* One more call is charged to one root.
LEMMA ChargedOnce ==
    ASSUME EngineTyped, NEW i \in Roots, shape' = shape, spent' = [spent EXCEPT ![i] = @ + 1]
    PROVE  /\ Roots' = Roots /\ spent' \in [Roots -> Nat] /\ spent'[i] = spent[i] + 1
           /\ \A j \in Roots : j # i => spent'[j] = spent[j]
           /\ Charges' = Charges + 1
<1>1. Roots' = Roots /\ i \in 1..7
  BY Widths DEF Roots
<1>2. spent \in [Roots -> Nat]
  BY DEF EngineTyped
<1>3. spent' \in [Roots -> Nat] /\ spent'[i] = spent[i] + 1 /\ \A j \in Roots : j # i
        => spent'[j] = spent[j]
  BY <1>2
<1>4. ASSUME NEW j \in 1..7
      PROVE  Charge(j) \in Nat /\ Charge(j)' = Charge(j) + (IF j = i THEN 1 ELSE 0)
  <2>1. CASE j \in Roots
    <3>1. Charge(j) = spent[j] /\ Charge(j)' = spent'[j] /\ spent[j] \in Nat
      BY <1>1, <1>2, <2>1 DEF Charge
    <3> QED BY <1>3, <2>1, <3>1
  <2>2. CASE j \notin Roots
    <3>1. Charge(j) = 0 /\ Charge(j)' = 0 /\ j # i
      BY <1>1, <2>2 DEF Charge
    <3> QED BY <3>1
  <2> QED BY <2>1, <2>2
<1> DEFINE one(j) == IF j = i THEN 1 ELSE 0
<1>5. one(1) + one(2) + one(3) + one(4) + one(5) + one(6) + one(7) = 1 /\ \A j \in 1..7 : one(j) \in Nat
  BY <1>1
<1>6. \A j \in 1..7 : Charge(j) \in Nat /\ Charge(j)' = Charge(j) + one(j)
  BY <1>4
<1> HIDE DEF one
<1>7. Charges' = Charges + 1
  BY ONLY <1>5, <1>6 DEF Charges
<1> QED BY <1>1, <1>3, <1>7

\* A call is made in a slot, counted and charged to its root.
LEMMA ChargedKeeps ==
    ASSUME EngineInv, NEW p \in DOMAIN task, Enter(p), ~(spent[p[1]] >= Quota(p[1]))
    PROVE  EngineInv'
<1> DEFINE t == [task[p] EXCEPT !.step = "calling", !.calls = @ + 1, !.next = "none"]
           i == p[1]
<1>1. /\ run = "running" /\ task[p].step = "queued" /\ Set(p, t)
      /\ Cardinality(Calling) < MaxConcurrency /\ usage' = Counted(usage, task[p])
      /\ spent' = [spent EXCEPT ![i] = @ + 1] /\ UNCHANGED <<shape, run>>
  BY DEF Enter
<1>2. /\ EngineTyped /\ Grown /\ Accounts /\ Settled /\ task[p] \in Tasks /\ Consistent(task[p])
      /\ task[p].kids = 0 /\ Kids(p) = {} /\ task[p].calls \in Nat
  BY <1>1, CallingTask DEF EngineInv
<1>3. i \in Roots /\ <<i>> \in DOMAIN task /\ (p = <<i>> \/ task[<<i>>].calls > 0)
  BY <1>2 DEF Grown
<1>4. t \in Tasks /\ t.step = "calling" /\ t.calls = task[p].calls + 1 /\ t.kids = 0 /\ t.next = "none"
  <2>1. ASSUME NEW u \in Tasks, NEW n \in Nat
        PROVE  LET v == [u EXCEPT !.step = "calling", !.calls = n, !.next = "none"]
               IN  /\ v \in Tasks /\ v.step = "calling" /\ v.calls = n /\ v.kids = u.kids
                   /\ v.next = "none"
    BY DEF Tasks, Steps
  <2>2. task[p].calls + 1 \in Nat
    BY <1>2
  <2> QED BY <1>2, <2>1, <2>2, ZenonT(30)
<1>5. Consistent(t)
  BY <1>2, <1>4 DEF Consistent
<1> HIDE DEF t, i
<1>6. /\ usage \in Usages /\ usage' \in Usages /\ usage'.calls = usage.calls + 1
           /\ usage'.logical = usage.logical
     
           /\ usage'.retries + usage'.repairs = usage.retries + usage.repairs + (IF task[p].next = "none" THEN 0 ELSE 1)
  <2>1. usage \in Usages
    BY <1>2 DEF EngineTyped
  <2> QED BY <1>1, <1>2, <2>1, CountedOnce
<1>7. /\ Roots' = Roots /\ spent' \in [Roots -> Nat] /\ spent'[i] = spent[i] + 1
      /\ \A j \in Roots : j # i => spent'[j] = spent[j]
      /\ Charges' = Charges + 1
  BY <1>1, <1>2, <1>3, ChargedOnce
<1>8. EngineTyped'
  BY <1>1, <1>2, <1>4, <1>6, <1>7, TypedKept DEF EngineTyped
<1>9. Grown'
  <2>1. t.calls >= task[p].calls
    BY <1>2, <1>4
  <2> QED BY <1>1, <1>2, <1>4, <1>5, <2>1, GrownKept
<1>10. Settled'
  <2>1. Live(p)
    BY <1>1 DEF Live
  <2> QED BY <1>1, <1>2, <1>4, <2>1, SettledKept
<1>11. /\ DOMAIN task' = DOMAIN task /\ task'[p] = t
       /\ \A q \in DOMAIN task : q # p => task'[q] = task[q]
  BY <1>1, <1>2, <1>4, OneTask
<1>12. task'[p].calls = task[p].calls + 1
  BY <1>4, <1>11
<1>13. \A q \in DOMAIN task : task[q].calls \in Nat
  BY <1>2, CallNumbers
<1>14. \A q \in DOMAIN task : q # p => task'[q].calls = task[q].calls
  BY <1>11
<1>15. ASSUME NEW P \in SUBSET DOMAIN task
       PROVE  Made(task', P) = (IF p \in P THEN Made(task, P) + 1 ELSE Made(task, P))
  <2>1. IsFiniteSet(P)
    BY <1>2, Counting
  <2>2. CASE p \in P
    <3>1. /\ \A q \in P : task[q].calls \in Nat
          /\ \A q \in P \ {p} : task'[q].calls = task[q].calls
      BY <1>13, <1>14
    <3>2. Made(task', P) = Made(task, P) + 1
      BY <1>12, <2>1, <2>2, <3>1, MadeMore
    <3> QED BY <2>2, <3>2
  <2>3. CASE p \notin P
    <3>1. \A q \in P : task[q].calls \in Nat /\ task'[q].calls = task[q].calls
      BY <1>13, <1>14, <2>3
    <3> QED BY <2>1, <2>3, <3>1, MadeSame
  <2> QED BY <2>2, <2>3
<1>16. \A j : Tree(j)' = Tree(j) /\ Tree(j) \in SUBSET DOMAIN task /\ (p \in Tree(j) <=> j = i)
         /\ Quota(j)' = Quota(j)
  BY <1>1, <1>11 DEF Tree, i, Quota
<1>17. Cardinality(Called') + usage'.retries + usage'.repairs = Cardinality(Called) + usage.retries + usage.repairs + 1
  <2>1. Called' = Called \cup {p} /\ Called \in SUBSET DOMAIN task
    <3>1. task'[p].calls > 0
      BY <1>2, <1>12
    <3>2. \A q \in DOMAIN task : task'[q].calls > 0 <=> task[q].calls > 0 \/ q = p
      BY <1>14, <3>1
    <3> QED BY <1>11, <3>2 DEF Called
  <2>2. IsFiniteSet(Called) /\ Cardinality(Called) \in Nat
    BY <1>2, <2>1, Counting
  <2>3. p \in Called <=> task[p].next # "none"
    BY <1>1, <1>2 DEF Called, Consistent
  <2>4. Cardinality(Called') = Cardinality(Called) + (IF task[p].next = "none" THEN 1 ELSE 0)
    <3>1. Cardinality(Called \cup {p}) = IF p \in Called THEN Cardinality(Called) ELSE Cardinality(Called) + 1
      BY <2>2, FS_AddElement
    <3> QED BY <2>1, <2>2, <2>3, <3>1
  <2>5. /\ usage.retries \in Nat /\ usage.repairs \in Nat
        /\ usage'.retries \in Nat /\ usage'.repairs \in Nat
    BY <1>6 DEF Usages
  <2>6. CASE task[p].next = "none"
    BY ONLY <1>6, <2>2, <2>4, <2>5, <2>6
  <2>7. CASE task[p].next # "none"
    BY ONLY <1>6, <2>2, <2>4, <2>5, <2>7
  <2> QED BY <2>6, <2>7
<1>18. Begun' = Begun /\ Unbegun' = Unbegun
  <2>1. task'[p].calls > 0
    BY <1>2, <1>12
  <2>2. \A q \in DOMAIN task : task'[q].step = "created" <=> task[q].step = "created"
    BY <1>1, <1>4, <1>11
  <2>3. \A q \in DOMAIN task : (task'[q].calls > 0 \/ task'[q].step = "queued")
                                <=> (task[q].calls > 0 \/ task[q].step = "queued")
    BY <1>1, <1>11, <2>1
  <2>4. Unbegun' = Unbegun
    BY <1>11, <2>2 DEF Unbegun
  <2>5. Begun' = Begun
    BY <1>11, <2>3 DEF Begun
  <2> QED BY <2>4, <2>5
<1>19. Cardinality(Calling') <= MaxConcurrency
  <2>1. Calling' = Calling \cup {p} /\ p \notin Calling /\ Calling \in SUBSET DOMAIN task
    BY <1>1, <1>4, <1>11 DEF Calling
  <2>2. IsFiniteSet(Calling) /\ Cardinality(Calling) \in Nat
    BY <1>2, <2>1, Counting
  <2>3. Cardinality(Calling') = Cardinality(Calling) + 1
    BY <2>1, <2>2, FS_AddElement
  <2>4. MaxConcurrency \in Nat
    BY DynamicAssumption
  <2> QED BY <1>1, <2>2, <2>3, <2>4
<1>20. Accounts'
  <2>1. /\ (usage.calls = Made(task, DOMAIN task))'
        /\ (usage.calls = Charges)'
        /\ (usage.calls = Cardinality(Called) + usage.retries + usage.repairs)'
    <3>1. /\ usage.calls = Made(task, DOMAIN task)
          /\ usage.calls = Charges
          /\ usage.calls = Cardinality(Called) + usage.retries + usage.repairs
      BY <1>2 DEF Accounts
    <3>2. Made(task', DOMAIN task') = Made(task, DOMAIN task) + 1
      BY <1>11, <1>15
    <3> QED BY <1>6, <1>7, <1>17, <3>1, <3>2
  <2>2. /\ (Cardinality(Begun) <= usage.logical)'
        /\ (usage.logical + Cardinality(Unbegun) <= Cardinality(DOMAIN task))'
    BY <1>2, <1>6, <1>11, <1>18 DEF Accounts
  <2>3. ASSUME NEW j \in Roots
        PROVE  RootAccount(j)'
    <3>1. /\ spent[j] = Made(task, Tree(j)) /\ spent[j] <= Quota(j)
          /\ spent[j] > 0 => task[<<j>>].calls > 0
          /\ MaxAgentCalls >= shape[2] /\ task[<<j>>].step = "done" => task[<<j>>].calls > 0
      BY <1>2 DEF Accounts, RootAccount
    <3>2. <<j>> \in DOMAIN task /\ spent[j] \in Nat /\ Quota(j) \in Nat
      BY <1>2, Widths DEF Grown, EngineTyped
    <3>3. spent'[j] = Made(task', Tree(j)')
      <4>1. Made(task', Tree(j)) = (IF j = i THEN Made(task, Tree(j)) + 1 ELSE Made(task, Tree(j)))
        BY <1>15, <1>16
      <4> QED BY <1>7, <1>16, <3>1, <4>1
    <3>4. spent'[j] <= Quota(j)'
      <4>1. CASE j = i
        <5>1. ~(spent[j] >= Quota(j))
          BY <4>1 DEF i
        <5> QED BY <1>7, <1>16, <3>2, <4>1, <5>1
      <4>2. CASE j # i
        BY <1>7, <1>16, <3>1, <4>2
      <4> QED BY <4>1, <4>2
    <3>5. spent'[j] > 0 => task'[<<j>>].calls > 0
      <4>1. CASE <<j>> = p
        BY <1>2, <1>12, <4>1
      <4>2. CASE <<j>> # p
        <5>1. task'[<<j>>].calls = task[<<j>>].calls
          BY <1>14, <3>2, <4>2
        <5>2. CASE j = i
          BY <1>3, <4>2, <5>1, <5>2
        <5>3. CASE j # i
          BY <1>7, <3>1, <5>1, <5>3
        <5> QED BY <5>2, <5>3
      <4> QED BY <4>1, <4>2
    <3>6. MaxAgentCalls >= shape'[2] /\ task'[<<j>>].step = "done" => task'[<<j>>].calls > 0
      BY <1>1, <1>4, <1>11, <3>1, <3>2
    <3> QED BY <3>3, <3>4, <3>5, <3>6 DEF RootAccount
  <2> QED BY <1>7, <1>19, <2>1, <2>2, <2>3 DEF Accounts
<1> QED BY <1>8, <1>9, <1>10, <1>20 DEF EngineInv

-----------------------------------------------------------------------------
(* A task is answered. *)

\* The tree after a task proposed children: they are new, one level down, and
\* nothing else changed.
Branched(p, n, new) ==
    /\ new = {Append(p, i) : i \in 1..n} /\ new \cap DOMAIN task = {}
    /\ IsFiniteSet(new) /\ new \subseteq Seq(Nat)
    /\ \A q \in new : Len(q) = Len(p) + 1 /\ q[1] = p[1] /\ task'[q] = Created
    /\ DOMAIN task' = DOMAIN task \cup new
    /\ task'[p].step = "gathering" /\ task'[p].kids = n /\ task'[p].calls = task[p].calls
    /\ task'[p] \in Tasks /\ Consistent(task'[p])
    /\ \A q \in DOMAIN task : q # p => task'[q] = task[q]

\* A task proposes children only once, so none of them is there before.
LEMMA Branches ==
    ASSUME EngineInv, NEW p \in DOMAIN task, NEW n \in 1..3, NEW new, NEW t,
           task[p].step = "calling", new = {Append(p, i) : i \in 1..n},
           t \in Tasks, t.step = "gathering", t.kids = n, t.calls = task[p].calls,
           DOMAIN task' = DOMAIN task \cup new,
           \A q \in DOMAIN task \cup new :
              task'[q] = IF q \in new THEN Created ELSE IF q = p THEN t ELSE task[q]
    PROVE  Branched(p, n, new)
<1>1. p \in Seq(Nat) /\ Len(p) \in 1..3 /\ DOMAIN task \subseteq Seq(Nat)
  BY Levels DEF EngineInv, EngineTyped
<1>2. task[p] \in Tasks /\ Consistent(task[p]) /\ Kids(p) = {} /\ task[p].calls > 0
  BY CallingTask
<1>3. ASSUME NEW q \in new
      PROVE  q \in Seq(Nat) /\ Len(q) = Len(p) + 1 /\ q[1] = p[1] /\ q \notin DOMAIN task
  <2>1. PICK i \in 1..n : q = Append(p, i)
    BY <1>3
  <2>2. i \in Nat
    BY <2>1
  <2>3. q \in Seq(Nat) /\ Len(q) = Len(p) + 1 /\ q[1] = p[1]
    BY <1>1, <2>1, <2>2, Child
  <2>4. ASSUME q \in DOMAIN task PROVE FALSE
    <3>1. Len(q) > 1
      BY <1>1, <2>3
    <3>2. PICK r \in DOMAIN task : q \in Kids(r)
      BY <2>4, <3>1, Levels
    <3>3. r \in Seq(Nat) /\ task[r].kids \in Nat
      BY <1>1, CallNumbers DEF EngineInv, Tasks
    <3>4. PICK j \in 1..task[r].kids : q = Append(r, j)
      BY <3>2 DEF Kids
    <3>5. j \in Nat
      BY <3>3
    <3>6. r = p
      BY <1>1, <2>1, <2>2, <3>3, <3>4, <3>5, Child
    <3> QED BY <1>2, <3>2, <3>6
  <2> QED BY <2>3, <2>4
<1>4. IsFiniteSet(new)
  <2>1. IsFiniteSet(1..n)
    BY ONLY n \in 1..3, FS_Interval
  <2>2. [i \in 1..n |-> Append(p, i)] \in Surjection(1..n, new)
    BY DEF Surjection
  <2> QED BY <2>1, <2>2, FS_Surjection
<1>5. Consistent(t)
  BY <1>2 DEF Consistent
<1>6. new \cap DOMAIN task = {} /\ p \notin new /\ new \subseteq Seq(Nat)
  BY <1>3
<1>7. /\ task'[p] = t
      /\ \A q \in new : task'[q] = Created
      /\ \A q \in DOMAIN task : q # p => task'[q] = task[q]
  BY <1>6
<1> QED BY <1>3, <1>4, <1>5, <1>6, <1>7 DEF Branched

\* Types, when a task branched.
LEMMA BranchedTyped ==
    ASSUME EngineInv, NEW p \in DOMAIN task, NEW n \in 1..3, NEW new, Branched(p, n, new),
           UNCHANGED <<shape, spent, usage, run>>, task' = [q \in DOMAIN task' |-> task'[q]]
    PROVE  EngineTyped'
<1>1. Created \in Tasks
  BY DEF Created, Tasks, Steps
<1>2. \A q \in DOMAIN task' : task'[q] \in Tasks
  <2>1. \A q \in DOMAIN task : task[q] \in Tasks
    BY CallNumbers DEF EngineInv
  <2> QED BY <1>1, <2>1 DEF Branched
<1>3. task' \in [DOMAIN task' -> Tasks]
  BY <1>2
<1>4. DOMAIN task' \subseteq Seq(Nat) /\ IsFiniteSet(DOMAIN task')
  <2>1. IsFiniteSet(DOMAIN task \cup new)
    BY FS_Union DEF Branched, EngineInv, EngineTyped
  <2> QED BY <2>1 DEF Branched, EngineInv, EngineTyped
<1> QED BY <1>3, <1>4 DEF EngineInv, EngineTyped, Roots

\* The tree, when a task branched.
LEMMA BranchedGrown ==
    ASSUME EngineInv, NEW p \in DOMAIN task, NEW n \in 1..3, NEW new, Branched(p, n, new),
           shape' = shape, task[p].step = "calling", Len(p) < 3
    PROVE  /\ Grown'
           /\ Kids(p)' = new /\ \A q \in DOMAIN task : q # p => Kids(q)' = Kids(q)
           /\ \A q \in new : Kids(q)' = {}
<1>1. /\ DOMAIN task' = DOMAIN task \cup new /\ new = {Append(p, i) : i \in 1..n}
      /\ task'[p].kids = n /\ task'[p].calls = task[p].calls /\ Consistent(task'[p])
  BY DEF Branched
<1>2. \A q \in DOMAIN task : q # p => task'[q] = task[q]
  BY DEF Branched
<1>3. \A q \in new : Len(q) = Len(p) + 1 /\ q[1] = p[1] /\ task'[q] = Created
  BY DEF Branched
<1>4. Kids(p)' = new
  BY <1>1 DEF Kids
<1>5. \A q \in DOMAIN task : q # p => Kids(q)' = Kids(q)
  BY <1>2 DEF Kids
<1>6. ASSUME NEW q \in new PROVE Kids(q)' = {} /\ Consistent(task'[q])
  <2>1. task'[q] = Created
    BY <1>3
  <2>2. Created.kids = 0 /\ Consistent(Created)
    BY DEF Created, Consistent
  <2> QED BY <2>1, <2>2 DEF Kids
<1>7. Kids(p) = {} /\ task[p].calls > 0 /\ Len(p) \in 1..3
  BY CallingTask, Levels
<1>8. /\ Roots' = Roots /\ \A i \in Roots : <<i>> \in DOMAIN task
      /\ \A q \in DOMAIN task :
           /\ Consistent(task[q]) /\ Len(q) \in 1..3 /\ q[1] \in Roots /\ Kids(q) \subseteq DOMAIN task
           /\ q = <<q[1]>> \/ task[<<q[1]>>].calls > 0
           /\ Len(q) > 1 => \E r \in DOMAIN task : q \in Kids(r)
  BY DEF EngineInv, Grown, Roots
<1>9. \A q \in DOMAIN task : task'[q].calls = task[q].calls
  BY <1>1, <1>2
<1>10. ASSUME NEW q \in DOMAIN task
       PROVE  /\ Consistent(task'[q])
              /\ Len(q) \in 1..3 /\ q[1] \in Roots
              /\ Kids(q)' \subseteq DOMAIN task'
              /\ q = <<q[1]>> \/ task'[<<q[1]>>].calls > 0
              /\ Len(q) > 1 => \E r \in DOMAIN task' : q \in Kids(r)'
  <2>1. Consistent(task'[q])
    BY <1>1, <1>2, <1>8
  <2>2. Len(q) \in 1..3 /\ q[1] \in Roots
    BY <1>8
  <2>3. Kids(q)' \subseteq DOMAIN task'
    BY <1>1, <1>4, <1>5, <1>8
  <2>4. q = <<q[1]>> \/ task'[<<q[1]>>].calls > 0
    BY <1>8, <1>9, <2>2
  <2>5. Len(q) > 1 => \E r \in DOMAIN task' : q \in Kids(r)'
    <3>1. ASSUME Len(q) > 1 PROVE \E r \in DOMAIN task' : q \in Kids(r)'
      <4>1. PICK r \in DOMAIN task : q \in Kids(r)
        BY <1>8, <3>1
      <4>2. r # p
        BY <1>7, <4>1
      <4> QED BY <1>1, <1>5, <4>1, <4>2
    <3> QED BY <3>1
  <2> QED BY <2>1, <2>2, <2>3, <2>4, <2>5
<1>11. ASSUME NEW q \in new
       PROVE  /\ Consistent(task'[q])
              /\ Len(q) \in 1..3 /\ q[1] \in Roots
              /\ Kids(q)' \subseteq DOMAIN task'
              /\ q = <<q[1]>> \/ task'[<<q[1]>>].calls > 0
              /\ Len(q) > 1 => \E r \in DOMAIN task' : q \in Kids(r)'
  <2>1. Len(q) \in 1..3 /\ q[1] = p[1] /\ p[1] \in Roots
    <3> DEFINE a == Len(p)  b == Len(q)
    <3>1. a \in 1..3 /\ a < 3 /\ b = a + 1 /\ q[1] = p[1] /\ p[1] \in Roots
      BY <1>3, <1>7, <1>8
    <3> HIDE DEF a, b
    <3>2. b \in 1..3
      BY ONLY <3>1
    <3> QED BY <3>1, <3>2 DEF b
  <2>2. task'[<<p[1]>>].calls > 0
    <3>1. task[<<p[1]>>].calls > 0
      BY <1>7, <1>8
    <3> QED BY <1>8, <1>9, <2>1, <3>1
  <2>3. p \in DOMAIN task' /\ q \in Kids(p)'
    BY <1>1, <1>4
  <2> QED BY <1>6, <2>1, <2>2, <2>3
<1>12. Grown'
  <2>1. \A i \in Roots' : <<i>> \in DOMAIN task'
    BY <1>1, <1>8
  <2> QED BY <1>1, <1>8, <1>10, <1>11, <2>1 DEF Grown
<1> QED BY <1>4, <1>5, <1>6, <1>12

\* The accounts, when a task branched: the children made no call yet, and wait
\* to begin.
LEMMA BranchedAccounts ==
    ASSUME EngineInv, NEW p \in DOMAIN task, NEW n \in 1..3, NEW new, Branched(p, n, new),
           UNCHANGED <<shape, spent, usage>>, task[p].step = "calling"
    PROVE  Accounts'
<1>1. EngineTyped /\ Grown /\ Accounts
  BY DEF EngineInv
<1>2. /\ DOMAIN task' = DOMAIN task \cup new /\ new \cap DOMAIN task = {} /\ IsFiniteSet(new)
      /\ task'[p].step = "gathering" /\ task'[p].calls = task[p].calls
  BY DEF Branched
<1>3. \A q \in DOMAIN task : q # p => task'[q] = task[q]
  BY DEF Branched
<1>4. \A q \in new : task'[q].calls = 0 /\ task'[q].step = "created"
  <2>1. Created.step = "created" /\ Created.calls = 0
    BY DEF Created
  <2>2. \A q \in new : task'[q] = Created
    BY DEF Branched
  <2> QED BY <2>1, <2>2
<1>5. \A q \in DOMAIN task : task[q].calls \in Nat /\ task'[q].calls = task[q].calls
  BY <1>1, <1>2, <1>3, CallNumbers
<1>6. ASSUME NEW q \in DOMAIN task
      PROVE  /\ task'[q].step = "created" <=> task[q].step = "created"
             /\ task'[q].step = "queued" <=> task[q].step = "queued"
             /\ task'[q].step = "done" <=> task[q].step = "done"
             /\ task'[q].step = "calling" => task[q].step = "calling"
  BY <1>2, <1>3
<1>7. ASSUME NEW P \in SUBSET DOMAIN task, NEW Q \in SUBSET new
      PROVE  Made(task', P \cup Q) = Made(task, P)
  <2>1. IsFiniteSet(P) /\ IsFiniteSet(Q)
    BY <1>1, <1>2, Counting, FS_Subset
  <2>2. \A q \in P : task[q].calls \in Nat /\ task'[q].calls = task[q].calls
    BY <1>5
  <2>3. Made(task', P) = Made(task, P)
    BY <2>1, <2>2, MadeSame
  <2>4. \A q \in P : task'[q].calls \in Nat
    BY <2>2
  <2>5. \A q \in Q : task'[q].calls = 0
    BY <1>4
  <2>6. Made(task', P \cup Q) = Made(task', P)
    BY <2>1, <2>4, <2>5, MadeWider
  <2> QED BY <2>3, <2>6
<1>8. Roots' = Roots /\ Charges' = Charges /\ \A i : Quota(i)' = Quota(i)
  BY DEF Roots, Charges, Charge, Quota
<1>9. Called' = Called
  BY <1>2, <1>4, <1>5 DEF Called
<1>10. Begun' = Begun
  <2>1. \A q \in DOMAIN task : (task'[q].calls > 0 \/ task'[q].step = "queued")
                                <=> (task[q].calls > 0 \/ task[q].step = "queued")
    BY <1>5, <1>6
  <2>2. \A q \in new : ~(task'[q].calls > 0 \/ task'[q].step = "queued")
    BY <1>4
  <2> QED BY <1>2, <2>1, <2>2 DEF Begun
<1>11. Cardinality(Calling') <= Cardinality(Calling) /\ Cardinality(Calling) \in Nat
         /\ Cardinality(Calling') \in Nat
  <2>1. Calling' \in SUBSET Calling /\ Calling \in SUBSET DOMAIN task
    BY <1>2, <1>4, <1>6 DEF Calling
  <2> QED BY <1>1, <2>1, Counting
<1>12. /\ Cardinality(Unbegun') = Cardinality(Unbegun) + Cardinality(new)
       /\ Cardinality(DOMAIN task') = Cardinality(DOMAIN task) + Cardinality(new)
       /\ Cardinality(Unbegun) \in Nat /\ Cardinality(DOMAIN task) \in Nat /\ Cardinality(new) \in Nat
  <2>1. Unbegun' = Unbegun \cup new /\ Unbegun \in SUBSET DOMAIN task
    BY <1>2, <1>4, <1>6 DEF Unbegun
  <2>2. /\ IsFiniteSet(Unbegun) /\ Cardinality(Unbegun) \in Nat
        /\ IsFiniteSet(DOMAIN task) /\ Cardinality(DOMAIN task) \in Nat
    BY <1>1, <2>1, Counting
  <2>3. Cardinality(new) \in Nat
    BY <1>2, FS_CardinalityType
  <2>4. ASSUME NEW S, IsFiniteSet(S), S \cap new = {}, Cardinality(S) \in Nat
        PROVE  Cardinality(S \cup new) = Cardinality(S) + Cardinality(new)
    <3>1. Cardinality(S \cup new) = Cardinality(S) + Cardinality(new) - Cardinality(S \cap new)
      BY <1>2, <2>4, FS_Union
    <3>2. Cardinality(S \cap new) = 0
      BY <2>4, FS_EmptySet
    <3> QED BY ONLY <2>3, <2>4, <3>1, <3>2
  <2>5. Unbegun \cap new = {} /\ DOMAIN task \cap new = {}
    BY <1>2, <2>1
  <2>6. Cardinality(Unbegun \cup new) = Cardinality(Unbegun) + Cardinality(new)
    BY <2>2, <2>4, <2>5
  <2>7. Cardinality(DOMAIN task \cup new) = Cardinality(DOMAIN task) + Cardinality(new)
    BY <2>2, <2>4, <2>5
  <2> QED BY <1>2, <2>1, <2>2, <2>3, <2>6, <2>7
<1>13. /\ usage' = usage /\ usage.logical \in Nat /\ MaxConcurrency \in Nat
  BY <1>1, DynamicAssumption DEF EngineTyped, Usages
<1>14. /\ (usage.calls = Made(task, DOMAIN task))'
       /\ (usage.calls = Charges)'
       /\ (usage.calls = Cardinality(Called) + usage.retries + usage.repairs)'
  <2>1. Made(task', DOMAIN task') = Made(task, DOMAIN task)
    BY <1>2, <1>7
  <2> QED BY <1>1, <1>8, <1>9, <1>13, <2>1 DEF Accounts
<1>15. /\ (Cardinality(Begun) <= usage.logical)'
       /\ (usage.logical + Cardinality(Unbegun) <= Cardinality(DOMAIN task))'
       /\ (Cardinality(Calling) <= MaxConcurrency)'
  <2>1. /\ Cardinality(Begun) <= usage.logical
        /\ usage.logical + Cardinality(Unbegun) <= Cardinality(DOMAIN task)
        /\ Cardinality(Calling) <= MaxConcurrency
    BY <1>1 DEF Accounts
  <2> QED BY ONLY <1>10, <1>11, <1>12, <1>13, <2>1
<1>16. ASSUME NEW i \in Roots
       PROVE  RootAccount(i)'
  <2>1. /\ spent[i] = Made(task, Tree(i)) /\ spent[i] <= Quota(i)
        /\ spent[i] > 0 => task[<<i>>].calls > 0
        /\ MaxAgentCalls >= shape[2] /\ task[<<i>>].step = "done" => task[<<i>>].calls > 0
    BY <1>1 DEF Accounts, RootAccount
  <2>2. <<i>> \in DOMAIN task
    BY <1>1 DEF Grown
  <2> DEFINE Q == {q \in new : q[1] = i}
  <2>3. Tree(i)' = Tree(i) \cup Q /\ Tree(i) \in SUBSET DOMAIN task /\ Q \in SUBSET new
    BY <1>2 DEF Tree
  <2> HIDE DEF Q
  <2>4. Made(task', Tree(i)') = Made(task, Tree(i))
    BY <1>7, <2>3
  <2>5. spent'[i] = Made(task', Tree(i)') /\ spent'[i] <= Quota(i)'
    BY <1>8, <2>1, <2>4
  <2>6. spent'[i] > 0 => task'[<<i>>].calls > 0
    BY <1>5, <2>1, <2>2
  <2>7. MaxAgentCalls >= shape'[2] /\ task'[<<i>>].step = "done" => task'[<<i>>].calls > 0
    BY <1>5, <1>6, <2>1, <2>2
  <2> QED BY <2>5, <2>6, <2>7 DEF RootAccount
<1> QED BY <1>8, <1>14, <1>15, <1>16 DEF Accounts

\* No task is left behind, when one branched.
LEMMA BranchedSettled ==
    ASSUME EngineInv, NEW p \in DOMAIN task, NEW n \in 1..3, NEW new, Branched(p, n, new),
           shape' = shape, run' = run, run = "running", task[p].step = "calling",
           Kids(p)' = new, \A q \in DOMAIN task : q # p => Kids(q)' = Kids(q),
           \A q \in new : Kids(q)' = {}
    PROVE  Settled'
<1>1. DOMAIN task' = DOMAIN task \cup new /\ task'[p].step = "gathering" /\ new \cap DOMAIN task = {}
  BY DEF Branched
<1>2. \A q \in DOMAIN task : q # p => task'[q] = task[q]
  BY DEF Branched
<1>3. \A q \in new : task'[q].step = "created"
  <2>1. Created.step = "created"
    BY DEF Created
  <2>2. \A q \in new : task'[q] = Created
    BY DEF Branched
  <2> QED BY <2>1, <2>2
<1>4. \A q \in DOMAIN task : q # p => (Live(q)' <=> Live(q)) /\ (Complete(q)' <=> Complete(q))
  BY <1>2 DEF Live, Complete
<1>5. Live(p) /\ ~Complete(p) /\ Live(p)' /\ ~Complete(p)'
  BY <1>1 DEF Live, Complete
<1>6. ASSUME NEW q \in DOMAIN task
      PROVE  /\ ~Live(q)' => \A k \in Kids(q)' : ~Live(k)'
             /\ Complete(q)' => \A k \in Kids(q)' : Complete(k)'
             /\ task'[q].step # "cancelled"
  <2>1. /\ ~Live(q) => \A k \in Kids(q) : ~Live(k)
        /\ Complete(q) => \A k \in Kids(q) : Complete(k)
        /\ task[q].step # "cancelled" /\ Kids(q) \subseteq DOMAIN task
    BY DEF EngineInv, Settled, Grown
  <2>2. CASE q = p
    BY <1>1, <1>5, <2>2
  <2>3. CASE q # p
    <3>1. p \in Kids(q) => Live(q) /\ ~Complete(q)
      BY <1>5, <2>1
    <3>2. Kids(q)' = Kids(q) /\ task'[q] = task[q]
      BY <1>2, <2>3
    <3> QED BY <1>4, <2>1, <2>3, <3>1, <3>2
  <2> QED BY <2>2, <2>3
<1>7. ASSUME NEW q \in new
      PROVE  /\ ~Live(q)' => \A k \in Kids(q)' : ~Live(k)'
             /\ Complete(q)' => \A k \in Kids(q)' : Complete(k)'
             /\ task'[q].step # "cancelled"
  BY <1>3
<1>8. EndsWhole'
  BY DEF EndsWhole, Ended
<1> QED BY <1>1, <1>6, <1>7, <1>8 DEF Settled

\* An answer ends its task, or has it wait for the children it proposes.
LEMMA AnswerKeeps ==
    ASSUME EngineInv, NEW p \in DOMAIN task, NEW complete \in BOOLEAN, NEW n \in Proposals,
           Answer(p, complete, n)
    PROVE  EngineInv'
<1> DEFINE ok == complete /\ n = 0
           d == Done(task[p], ok)
           b == [task[p] EXCEPT !.step = "gathering", !.kids = n]
           next(t) == LET new == {Append(p, i) : i \in 1..t.kids}
                      IN  task' = [q \in DOMAIN task \cup new |->
                                      CASE q \in new -> Created [] q = p -> t [] OTHER -> task[q]]
<1>1. run = "running" /\ task[p].step = "calling" /\ UNCHANGED <<shape, spent, usage, run>>
  BY DEF Answer
<1>2. /\ task[p] \in Tasks /\ Consistent(task[p]) /\ task[p].kids = 0 /\ Kids(p) = {}
      /\ task[p].calls > 0 /\ task[p].calls \in Nat /\ Len(p) \in 1..3
  BY <1>1, CallingTask, Levels
<1>3. next(d) \/ (next(b) /\ n \in 1..3 /\ Len(p) - 1 < 2)
  BY DEF Answer, Source, Research
<1>4. CASE next(d)
  <2>1. /\ d \in Tasks /\ Consistent(d) /\ d.step = "done" /\ d.calls = task[p].calls
        /\ d.kids = 0
    BY <1>2, Outcome
  <2> HIDE DEF d
  <2>2. Set(p, d)
    <3>1. {Append(p, i) : i \in 1..d.kids} = {}
      BY <2>1
    <3>2. task' = [q \in DOMAIN task |-> IF q = p THEN d ELSE task[q]]
      BY <1>4, <3>1
    <3>3. task = [q \in DOMAIN task |-> task[q]]
      BY DEF EngineInv, EngineTyped
    <3> QED BY <3>2, <3>3 DEF Set
  <2>3. Live(p)
    BY <1>1 DEF Live
  <2> QED BY <1>1, <1>2, <2>1, <2>2, <2>3, CalmKeeps
<1>5. CASE next(b) /\ n \in 1..3 /\ Len(p) - 1 < 2
  <2> DEFINE new == {Append(p, i) : i \in 1..n}
  <2>1. b \in Tasks /\ b.step = "gathering" /\ b.kids = n /\ b.calls = task[p].calls
    <3>1. ASSUME NEW u \in Tasks, NEW m \in Nat
          PROVE  LET v == [u EXCEPT !.step = "gathering", !.kids = m]
                 IN  v \in Tasks /\ v.step = "gathering" /\ v.kids = m /\ v.calls = u.calls
      BY DEF Tasks, Steps
    <3>2. n \in Nat
      BY <1>5
    <3> QED BY <1>2, <3>1, <3>2
  <2>2. task' = [q \in DOMAIN task \cup new |->
                   CASE q \in new -> Created [] q = p -> b [] OTHER -> task[q]]
    <3>1. new = {Append(p, i) : i \in 1..b.kids}
      BY <2>1
    <3> HIDE DEF b, new
    <3> QED BY <1>5, <3>1
  <2>3. n \in 1..3 /\ Len(p) < 3
    BY <1>2, <1>5
  <2>4. Branched(p, n, new)
    <3>1. new = {Append(p, i) : i \in 1..n}
      OBVIOUS
    <3> HIDE DEF b, new
    <3>2. p \notin new
      <4>1. ASSUME NEW i \in 1..n PROVE Append(p, i) # p
        <5>1. p \in Seq(Nat) /\ i \in Nat
          BY <2>3, Levels
        <5> QED BY <5>1, Child
      <4> QED BY <3>1, <4>1
    <3>3. /\ DOMAIN task' = DOMAIN task \cup new
          /\ \A q \in DOMAIN task \cup new :
                task'[q] = IF q \in new THEN Created ELSE IF q = p THEN b ELSE task[q]
      BY <2>2, <3>2
    <3> QED BY <1>1, <2>1, <2>3, <3>1, <3>3, Branches
  <2>5. task' = [q \in DOMAIN task' |-> task'[q]]
    <3> HIDE DEF b, new
    <3> QED BY <2>2
  <2> HIDE DEF new
  <2>6. EngineTyped'
    BY <1>1, <2>3, <2>4, <2>5, BranchedTyped
  <2>7. /\ Grown' /\ Kids(p)' = new /\ \A q \in DOMAIN task : q # p => Kids(q)' = Kids(q)
        /\ \A q \in new : Kids(q)' = {}
    BY <1>1, <2>3, <2>4, BranchedGrown
  <2>8. Accounts'
    BY <1>1, <2>3, <2>4, BranchedAccounts
  <2>9. Settled'
    BY <1>1, <2>3, <2>4, <2>7, BranchedSettled
  <2> QED BY <2>6, <2>7, <2>8, <2>9 DEF EngineInv
<1> QED BY <1>3, <1>4, <1>5

-----------------------------------------------------------------------------
(* The run. *)

\* A run starts with a task for each root, and nothing spent.
LEMMA EngineStarts == EngineInit => EngineInv
<1> SUFFICES ASSUME EngineInit PROVE EngineInv
  OBVIOUS
<1> DEFINE D == {<<i>> : i \in Roots}
<1>1. /\ shape \in Shapes /\ task = [p \in D |-> Created] /\ spent = [i \in Roots |-> 0]
      /\ usage = [calls |-> 0, logical |-> 0, retries |-> 0, repairs |-> 0] /\ run = "running"
  BY DEF EngineInit
<1>2. shape[2] \in 1..7 /\ Roots = 1..shape[2]
  BY <1>1, DynamicAssumption DEF Roots
<1>3. IsFiniteSet(D)
  <2>1. IsFiniteSet(Roots)
    BY <1>2, FS_Interval
  <2>2. [i \in Roots |-> <<i>>] \in Surjection(Roots, D)
    BY DEF Surjection
  <2> QED BY <2>1, <2>2, FS_Surjection
<1>4. \A p \in D : p \in Seq(Nat) /\ Len(p) = 1 /\ p = <<p[1]>> /\ p[1] \in Roots
  <2>1. ASSUME NEW i \in Roots
        PROVE  <<i>> \in Seq(Nat) /\ Len(<<i>>) = 1 /\ <<i>>[1] = i
    <3>1. i \in Nat
      BY <1>2
    <3> QED BY <3>1
  <2> QED BY <2>1
<1>5. /\ Created \in Tasks /\ Consistent(Created) /\ Created.calls = 0 /\ Created.kids = 0
      /\ Created.step = "created"
  BY DEF Created, Tasks, Steps, Consistent
<1> HIDE DEF D
<1>6. DOMAIN task = D /\ \A p \in D : task[p] = Created
  BY <1>1
<1>7. EngineTyped
  <2>1. task \in [DOMAIN task -> Tasks]
    BY <1>1, <1>5, <1>6
  <2>2. usage \in Usages /\ run \in RunStates /\ spent \in [Roots -> Nat]
    BY <1>1 DEF Usages, RunStates
  <2> QED BY <1>1, <1>3, <1>4, <1>6, <2>1, <2>2 DEF EngineTyped
<1>8. \A p \in D : Kids(p) = {} /\ Live(p) /\ ~Complete(p) /\ task[p].step # "cancelled"
  BY <1>5, <1>6 DEF Kids, Live, Complete
<1>9. Grown
  <2>1. \A i \in Roots : <<i>> \in D
    BY DEF D
  <2>2. ASSUME NEW p \in D
        PROVE  /\ Consistent(task[p]) /\ Len(p) \in 1..3 /\ p[1] \in Roots /\ Kids(p) \subseteq D
               /\ p = <<p[1]>> /\ ~(Len(p) > 1)
    <3>1. Len(p) = 1 /\ p = <<p[1]>> /\ p[1] \in Roots
      BY <1>4
    <3>2. Len(p) \in 1..3 /\ ~(Len(p) > 1)
      BY ONLY <3>1
    <3>3. Consistent(task[p]) /\ Kids(p) \subseteq D
      BY <1>5, <1>6, <1>8
    <3> QED BY <3>1, <3>2, <3>3
  <2> QED BY <1>6, <2>1, <2>2 DEF Grown
<1>10. Accounts
  <2>1. ASSUME NEW P \in SUBSET D PROVE Made(task, P) = 0
    <3>1. IsFiniteSet(P) /\ \A p \in P : task[p].calls = 0
      BY <1>3, <1>5, <1>6, FS_Subset
    <3>2. Made(task, P) = Cardinality(Units(task, P))
      BY <3>1, MadeCounts
    <3>3. Units(task, P) = {}
      BY <3>1 DEF Units
    <3> QED BY <3>2, <3>3, FS_EmptySet
  <2>2. Called = {} /\ Begun = {} /\ Calling = {} /\ Unbegun = DOMAIN task
    BY <1>5, <1>6 DEF Called, Begun, Calling, Unbegun
  <2>3. \A i \in 1..7 : Charge(i) = 0
    BY <1>1 DEF Charge
  <2>4. /\ Cardinality({}) = 0 /\ Cardinality(DOMAIN task) \in Nat
        /\ usage.calls = 0 /\ usage.logical = 0 /\ usage.retries = 0 /\ usage.repairs = 0
        /\ MaxConcurrency \in 1..4
    BY <1>1, <1>3, <1>6, FS_EmptySet, FS_CardinalityType, DynamicAssumption
  <2>5. /\ usage.calls = Made(task, DOMAIN task)
        /\ usage.calls = Charges
        /\ usage.calls = Cardinality(Called) + usage.retries + usage.repairs
        /\ Cardinality(Begun) <= usage.logical
        /\ usage.logical + Cardinality(Unbegun) <= Cardinality(DOMAIN task)
        /\ Cardinality(Calling) <= MaxConcurrency
    BY <1>6, <2>1, <2>2, <2>3, <2>4 DEF Charges
  <2>6. ASSUME NEW i \in Roots
        PROVE  /\ spent[i] = Made(task, Tree(i)) /\ spent[i] <= Quota(i) /\ spent[i] = 0
               /\ task[<<i>>].step # "done"
    <3>1. Tree(i) \in SUBSET D
      BY <1>6 DEF Tree
    <3>2. spent[i] = 0 /\ Quota(i) \in Nat
      BY <1>1, <1>7, Widths
    <3>3. <<i>> \in D
      BY DEF D
    <3> QED BY <1>5, <1>6, <2>1, <3>1, <3>2, <3>3
  <2> QED BY <2>5, <2>6 DEF Accounts, RootAccount
<1>11. Settled
  <2>1. EndsWhole
    BY <1>1 DEF EndsWhole, Ended
  <2> QED BY <1>6, <1>8, <2>1 DEF Settled
<1> QED BY <1>7, <1>9, <1>10, <1>11 DEF EngineInv

\* Every step of the engine keeps the invariant.
LEMMA EngineStepKeeps == EngineInv /\ [EngineNext]_engine => EngineInv'
<1> SUFFICES ASSUME EngineInv, [EngineNext]_engine PROVE EngineInv'
  OBVIOUS
<1>1. ASSUME NEW p \in DOMAIN task, Invoked(p) PROVE EngineInv'
  <2>1. CASE Begin(p)
    BY <2>1, BeginKeeps
  <2>2. CASE Enter(p)
    BY <2>2, DeniedKeeps, ChargedKeeps
  <2>3. CASE Wake(p)
    BY <2>3, WakeKeeps
  <2>4. CASE GatherChildren(p)
    BY <2>4, GatherKeeps
  <2>5. CASE Transient(p)
    BY <2>5, TransientKeeps
  <2>6. CASE Malformed(p)
    BY <2>6, MalformedKeeps
  <2>7. CASE Broken(p)
    BY <2>7, BrokenKeeps
  <2>8. CASE \E complete \in BOOLEAN, n \in Proposals : Answer(p, complete, n)
    BY <2>8, AnswerKeeps
  <2> QED BY <1>1, <2>1, <2>2, <2>3, <2>4, <2>5, <2>6, <2>7, <2>8 DEF Invoked
<1>2. ASSUME NEW p \in DOMAIN task, Unwind(p) PROVE EngineInv'
  BY <1>2, UnwindKeeps
<1>3. CASE Return
  BY <1>3, ReturnKeeps
<1>4. CASE Expire
  BY <1>4, ExpireKeeps
<1>5. CASE TimeOut
  BY <1>5, TimeOutKeeps
<1>6. CASE UNCHANGED engine
  BY <1>6 DEF engine, EngineInv, EngineTyped, Grown, Accounts, Settled, EndsWhole, Ended, Roots, Kids,
              Live, Complete, Charges, Charge, Quota, RootAccount, Begun, Unbegun, Called, Calling, Tree
<1> QED BY <1>1, <1>2, <1>3, <1>4, <1>5, <1>6 DEF EngineNext, Scheduled

\* The engine's invariant holds throughout, for any shapes, proposals and limits.
THEOREM EngineInductive == EngineSpec => []EngineInv
<1>1. EngineInit => EngineInv
  BY EngineStarts
<1>2. EngineInv /\ [EngineNext]_engine => EngineInv'
  BY EngineStepKeeps
<1> QED BY <1>1, <1>2, PTL DEF EngineSpec

\* The accounts of a run are exact at every moment, also at the one in which a
\* timeout reports them: every call is a first call, a retry or a repair, it is
\* charged to its root, the trees together stay under the ceiling, the slots
\* are never exceeded, and no root is denied its first call while the ceiling
\* has one for every root.
THEOREM UsageIsExact == EngineSpec => []UsageExact
<1>1. EngineInv => UsageExact
  <2> SUFFICES ASSUME EngineInv PROVE UsageExact
    OBVIOUS
  <2>1. EngineTyped /\ Accounts
    BY DEF EngineInv
  <2>2. usage.calls <= MaxAgentCalls
    BY <2>1, Ceiling DEF Accounts, RootAccount
  <2>3. /\ Cardinality(Called) <= Cardinality(Begun) /\ Cardinality(Called) \in Nat
        /\ Cardinality(Begun) \in Nat /\ Cardinality(Unbegun) \in Nat
        /\ Cardinality(DOMAIN task) \in Nat /\ usage.logical \in Nat
    <3>1. Called \in SUBSET Begun /\ Begun \in SUBSET DOMAIN task /\ Unbegun \in SUBSET DOMAIN task
      BY DEF Called, Begun, Unbegun
    <3>2. usage.logical \in Nat
      BY <2>1 DEF EngineTyped, Usages
    <3> QED BY <2>1, <3>1, <3>2, Counting
  <2>4. usage.logical <= Cardinality(DOMAIN task) /\ Cardinality(Called) <= usage.logical
    <3>1. /\ Cardinality(Begun) <= usage.logical
          /\ usage.logical + Cardinality(Unbegun) <= Cardinality(DOMAIN task)
      BY <2>1 DEF Accounts
    <3> QED BY ONLY <2>3, <3>1
  <2> QED BY <2>1, <2>2, <2>4 DEF Accounts, RootAccount, UsageExact
<1> QED BY <1>1, EngineInductive, PTL

\* A run ends whole: whichever way it ends, no task of its tree is left at
\* work, and it returns a result only if every one of them answered completely.
THEOREM EndsAreWhole == EngineSpec => []EndsWhole
<1>1. EngineInv => EndsWhole
  BY DEF EngineInv, Settled
<1> QED BY <1>1, EngineInductive, PTL
================================================================================
