--------------------------- MODULE TaskLeasesProofs ---------------------------
(***************************************************************************)
(* Proofs about TaskLeases, for any tasks, workers, keys and attempts.     *)
(***************************************************************************)
EXTENDS TaskLeases, SequenceTheorems, FiniteSetTheorems, TLAPS

\* The two invariants of one task.
Leased(t) ==
    /\ Running(t) = IF lease[t] = None THEN {} ELSE {lease[t].attempt}
    /\ (status[t] = "running") <=> (lease[t] # None)
    /\ lease[t] # None =>
         /\ lease[t].task = t /\ lease[t].attempt = Len(attempts[t])
         /\ lease[t].generation = generation[t]
         /\ attempts[t][lease[t].attempt].generation = generation[t]
         /\ attempts[t][lease[t].attempt].worker = lease[t].owner

Budgeted(t) ==
    /\ Len(attempts[t]) = started[t] /\ generation[t] = started[t]
    /\ \A i \in DOMAIN attempts[t] : attempts[t][i].number = i
    /\ status[t] \in {"ready", "failed"} => started[t] < MaxAttempts
    /\ status[t] = "dead_lettered" =>
         /\ started[t] = MaxAttempts
         /\ \A i \in DOMAIN attempts[t] : attempts[t][i].status \in {"failed", "timed_out"}
    /\ (status[t] = "succeeded") <=>
         \E i \in DOMAIN attempts[t] : attempts[t][i].status = "succeeded"
    /\ status[t] \in {"running", "succeeded"} => retries[t] = started[t] - 1
    /\ status[t] \in {"absent", "ready", "failed"} => retries[t] = started[t]

\* An effect belongs to an attempt that was started.
Reserved ==
    \A k \in EffectKeys :
      effects[k] # None => effects[k].attempt <= Len(attempts[effects[k].task])

\* A task that is not there was never started.
Fresh == \A t \in Tasks : status[t] = "absent" => started[t] = 0

IndInv == Fresh /\ TypeOK /\ OneRunningAttempt /\ BudgetKept /\ OneRequestPerKey /\ Reserved

\* The invariants of the tasks are those of each task, before and after a step.
LEMMA ByTask ==
    /\ OneRunningAttempt <=> \A t \in Tasks : Leased(t)
    /\ BudgetKept <=> \A t \in Tasks : Budgeted(t)
    /\ OneRunningAttempt' <=> \A t \in Tasks : Leased(t)'
    /\ BudgetKept' <=> \A t \in Tasks : Budgeted(t)'
  BY DEF OneRunningAttempt, BudgetKept, Leased, Budgeted

-----------------------------------------------------------------------------
(***************************************************************************)
(* Ending an attempt.                                                      *)
(***************************************************************************)
Ended(s, n, st) == [s EXCEPT ![n].status = st]

\* Changing the status of one attempt leaves all else of the history alone.
LEMMA EndedSeq ==
    ASSUME NEW s \in Seq(Attempts), NEW n \in 1..Len(s),
           NEW st \in {"succeeded", "failed", "timed_out"}
    PROVE  /\ Ended(s, n, st) \in Seq(Attempts)
           /\ Len(Ended(s, n, st)) = Len(s)
           /\ DOMAIN Ended(s, n, st) = 1..Len(s)
           /\ Ended(s, n, st)[n].status = st
           /\ \A i \in 1..Len(s) :
                /\ Ended(s, n, st)[i].number = s[i].number
                /\ i # n => Ended(s, n, st)[i] = s[i]
  <1> DEFINE a == [s[n] EXCEPT !.status = st]
             e == [s EXCEPT ![n] = a]
  <1>1. s[n] \in Attempts
    BY ElementOfSeq
  <1>2. a \in Attempts /\ a.status = st /\ a.number = s[n].number
        /\ a.generation = s[n].generation /\ a.worker = s[n].worker
    BY <1>1 DEF Attempts
  <1>3. e \in Seq(Attempts) /\ Len(e) = Len(s) /\ DOMAIN e = 1..Len(s)
    <2> HIDE DEF a
    <2>. QED  BY <1>2, ExceptSeq
  <1>4. e[n] = a /\ \A i \in 1..Len(s) : i # n => e[i] = s[i]
    <2> HIDE DEF a
    <2>. QED  BY LenProperties
  <1>. QED
    <2> HIDE DEF a
    <2>1. Ended(s, n, st) = e
      BY DEF a, Ended
    <2> HIDE DEF e
    <2>. QED  BY <1>2, <1>3, <1>4, <2>1

\* What the claim or the recovery leaves of a task's history: nothing runs,
\* and only a running attempt was touched.
LEMMA TimedOutFacts ==
    ASSUME TypeOK, NEW t \in Tasks, Leased(t)
    PROVE  /\ TimedOut(t) \in Seq(Attempts)
           /\ Len(TimedOut(t)) = Len(attempts[t])
           /\ DOMAIN TimedOut(t) = 1..Len(attempts[t])
           /\ \A i \in 1..Len(attempts[t]) :
                /\ TimedOut(t)[i].number = attempts[t][i].number
                /\ \/ TimedOut(t)[i] = attempts[t][i]
                   \/ /\ Recovers(t) /\ i = lease[t].attempt
                      /\ TimedOut(t)[i].status = "timed_out"
           /\ Recovers(t) \/ status[t] # "running" =>
                \A i \in 1..Len(attempts[t]) : TimedOut(t)[i].status # "running"
  <1>1. attempts[t] \in Seq(Attempts) /\ DOMAIN attempts[t] = 1..Len(attempts[t])
    BY LenProperties DEF TypeOK
  <1>2. CASE Recovers(t)
    <2>1. lease[t] # None /\ lease[t] \in Leases /\ lease[t].attempt \in 1..Len(attempts[t])
      <3>1. lease[t] # None
        BY <1>2 DEF Recovers, Leased
      <3>2. lease[t].attempt \in Running(t)
        BY <3>1 DEF Leased
      <3>. QED  BY <3>1, <3>2, <1>1 DEF Running, TypeOK
    <2> DEFINE n == lease[t].attempt
    <2>2. TimedOut(t) = [attempts[t] EXCEPT ![n].status = "timed_out"]
      BY <1>2 DEF TimedOut
    <2>3. \A i \in 1..Len(attempts[t]) : i # n => attempts[t][i].status # "running"
      BY <2>1, <1>1 DEF Leased, Running
    <2> HIDE DEF n
    <2>4. n \in 1..Len(attempts[t]) /\ n = lease[t].attempt
      BY <2>1 DEF n
    <2> DEFINE s == attempts[t]
               e == Ended(s, n, "timed_out")
    <2> HIDE DEF s
    <2>5. s \in Seq(Attempts) /\ n \in 1..Len(s) /\ s = attempts[t]
      BY <1>1, <2>4 DEF s
    <2>6. /\ e \in Seq(Attempts) /\ Len(e) = Len(s) /\ DOMAIN e = 1..Len(s)
          /\ e[n].status = "timed_out"
          /\ \A i \in 1..Len(s) : e[i].number = s[i].number /\ (i # n => e[i] = s[i])
      BY <2>5, EndedSeq
    <2>7. TimedOut(t) = e
      BY <2>2, <2>5 DEF Ended
    <2> HIDE DEF e
    <2>8. \A i \in 1..Len(s) : TimedOut(t)[i].status # "running"
      BY <2>3, <2>5, <2>6, <2>7
    <2>9. \A i \in 1..Len(s) : TimedOut(t)[i] = s[i] \/ (i = n /\ TimedOut(t)[i].status = "timed_out")
      BY <2>6, <2>7
    <2>. QED  BY <1>2, <2>4, <2>5, <2>6, <2>7, <2>8, <2>9
  <1>3. CASE ~Recovers(t)
    <2>1. TimedOut(t) = attempts[t]
      BY <1>3 DEF TimedOut
    <2>2. status[t] # "running" => \A i \in 1..Len(attempts[t]) : attempts[t][i].status # "running"
      BY <1>1 DEF Leased, Running
    <2>. QED  BY <1>1, <1>3, <2>1, <2>2
  <1>. QED  BY <1>2, <1>3

-----------------------------------------------------------------------------
(***************************************************************************)
(* The steps a task can take, one task at a time.                          *)
(***************************************************************************)
\* A leased task has its latest attempt running, and no other.
LEMMA LeaseFacts ==
    ASSUME TypeOK, NEW t \in Tasks, Leased(t), lease[t] # None
    PROVE  /\ lease[t].attempt \in 1..Len(attempts[t])
           /\ status[t] = "running"
           /\ \A i \in 1..Len(attempts[t]) :
                i # lease[t].attempt <=> attempts[t][i].status # "running"
  <1>1. DOMAIN attempts[t] = 1..Len(attempts[t])
    BY LenProperties DEF TypeOK
  <1>. QED  BY <1>1 DEF Leased, Running

\* A task whose row and history do not change keeps its invariants.
LEMMA TaskStays ==
    ASSUME NEW t \in Tasks, Leased(t), Budgeted(t),
           status'[t] = status[t], started'[t] = started[t], retries'[t] = retries[t],
           generation'[t] = generation[t], lease'[t] = lease[t], attempts'[t] = attempts[t]
    PROVE  Leased(t)' /\ Budgeted(t)'
  <1>1. Leased(t)'
    BY DEF Leased, Running
  <1>2. Budgeted(t)'
    BY DEF Budgeted
  <1>. QED  BY <1>1, <1>2

\* The budget is used up exactly when every attempt of it was started.
LEMMA BudgetCases ==
    ASSUME TypeOK, NEW t \in Tasks
    PROVE  /\ started[t] \in Nat /\ MaxAttempts \in Nat /\ started[t] <= MaxAttempts
           /\ Exhausted(t) => started[t] = MaxAttempts
           /\ ~Exhausted(t) => started[t] < MaxAttempts
  <1>1. MaxAttempts \in Nat
    BY TaskAssumption
  <1>2. started[t] \in 0..MaxAttempts
    BY DEF TypeOK
  <1>. QED  BY <1>1, <1>2 DEF Exhausted

\* The end of a lease: the attempt succeeds, or it fails and is retried while
\* the budget lasts.
LEMMA TaskEnds ==
    ASSUME TypeOK, NEW t \in Tasks, Leased(t), Budgeted(t), lease[t] # None,
           NEW st \in {"succeeded", "failed", "timed_out"},
           attempts'[t] = Ended(attempts[t], lease[t].attempt, st),
           lease'[t] = None, generation'[t] = generation[t], started'[t] = started[t],
           \/ st = "succeeded" /\ status'[t] = "succeeded" /\ retries'[t] = retries[t]
           \/ /\ st # "succeeded" /\ ~Exhausted(t)
              /\ status'[t] = "failed" /\ retries'[t] = retries[t] + 1
           \/ st # "succeeded" /\ Exhausted(t) /\ status'[t] = "dead_lettered"
    PROVE  Leased(t)' /\ Budgeted(t)'
  <1> DEFINE s == attempts[t]
             n == lease[t].attempt
             e == Ended(s, n, st)
  <1>1. s \in Seq(Attempts) /\ DOMAIN s = 1..Len(s)
    BY LenProperties DEF TypeOK
  <1>2. n \in 1..Len(s) /\ \A i \in 1..Len(s) : i # n <=> s[i].status # "running"
    BY LeaseFacts
  <1>3. /\ Len(e) = Len(s) /\ DOMAIN e = 1..Len(s) /\ e[n].status = st
        /\ \A i \in 1..Len(s) : e[i].number = s[i].number /\ (i # n => e[i] = s[i])
    <2> HIDE DEF s, n
    <2>. QED  BY <1>1, <1>2, EndedSeq
  <1>4. status[t] = "running"
    BY LeaseFacts
  <1>5. \A i \in 1..Len(s) : s[i].status # "succeeded" /\ s[i].number = i
    BY <1>1, <1>4 DEF Budgeted
  <1>6. \A i \in 1..Len(s) : s[i] \in Attempts
    BY <1>1, ElementOfSeq
  <1>7. \A i \in 1..Len(s) : i # n => e[i].status \in {"failed", "timed_out"}
    BY <1>2, <1>3, <1>5, <1>6 DEF Attempts
  <1>8. /\ started[t] \in Nat /\ retries[t] = started[t] - 1
        /\ Len(s) = started[t] /\ generation[t] = started[t]
    BY <1>4, BudgetCases DEF Budgeted
  <1>9. attempts'[t] = e
    OBVIOUS
  <1> HIDE DEF s, e, n
  <1>10. Leased(t)'
    <2>1. \A i \in 1..Len(s) : e[i].status # "running"
      BY <1>3, <1>7
    <2>. QED  BY <1>3, <1>9, <2>1 DEF Leased, Running
  <1>11. Budgeted(t)'
    <2>1. /\ Len(e) = started[t] /\ generation[t] = started[t]
          /\ \A i \in DOMAIN e : e[i].number = i
      BY <1>3, <1>5, <1>8
    <2>2. CASE st = "succeeded"
      <3>1. \E i \in DOMAIN e : e[i].status = "succeeded"
        BY <1>2, <1>3, <2>2
      <3>. QED  BY <1>8, <1>9, <2>1, <2>2, <3>1 DEF Budgeted
    <2>3. CASE st # "succeeded"
      <3>1. \A i \in DOMAIN e : e[i].status \in {"failed", "timed_out"}
        BY <1>3, <1>7, <2>3
      <3>2. \A i \in DOMAIN e : e[i].status # "succeeded"
        BY <3>1
      <3>3. CASE Exhausted(t)
        <4>1. started[t] = MaxAttempts
          BY <3>3, BudgetCases
        <4>. QED  BY <1>9, <2>1, <2>3, <3>1, <3>2, <3>3, <4>1 DEF Budgeted
      <3>4. CASE ~Exhausted(t)
        <4>1. started[t] < MaxAttempts
          BY <3>4, BudgetCases
        <4>2. retries'[t] = retries[t] + 1 /\ status'[t] = "failed"
          BY <2>3, <3>4
        <4>3. retries'[t] = started[t]
          BY <1>8, <4>2
        <4>. QED  BY <1>9, <2>1, <3>2, <4>1, <4>2, <4>3 DEF Budgeted
      <3>. QED  BY <3>3, <3>4
    <2>. QED  BY <2>2, <2>3
  <1>. QED  BY <1>10, <1>11

\* The attempt a claim appends to the history.
NewAttempt(w, t) == [number |-> started[t] + 1, generation |-> generation[t] + 1,
                     worker |-> w, status |-> "running"]

\* A claim: the history is closed before the new attempt opens.
LEMMA TaskStarts ==
    ASSUME TypeOK, NEW w \in Workers, NEW t \in Tasks, Leased(t), Budgeted(t),
           Claimable(t), ~Exhausted(t),
           attempts'[t] = Append(TimedOut(t), NewAttempt(w, t)),
           lease'[t] = LeaseOf(t, w, Len(attempts[t]) + 1, generation[t] + 1),
           lease'[t] # None,
           generation'[t] = generation[t] + 1, started'[t] = started[t] + 1,
           status'[t] = "running",
           retries'[t] = IF Recovers(t) THEN retries[t] + 1 ELSE retries[t]
    PROVE  Leased(t)' /\ Budgeted(t)'
  <1> DEFINE s == TimedOut(t)
             a == NewAttempt(w, t)
             m == Len(attempts[t])
             e == Append(s, a)
  <1>1. /\ s \in Seq(Attempts) /\ Len(s) = m
        /\ \A i \in 1..m : s[i].number = attempts[t][i].number
        /\ \A i \in 1..m : s[i] = attempts[t][i] \/ s[i].status = "timed_out"
        /\ \A i \in 1..m : s[i].status # "running"
    BY TimedOutFacts DEF Claimable
  <1>2. /\ started[t] \in Nat /\ generation[t] \in Nat /\ retries[t] \in Nat
        /\ m \in Nat /\ m = started[t] /\ generation[t] = started[t]
        /\ \A i \in 1..m : attempts[t][i].number = i
        /\ \A i \in 1..m : attempts[t][i].status # "succeeded"
        /\ retries'[t] = started[t]
    <2>1. DOMAIN attempts[t] = 1..m /\ m \in Nat
      BY LenProperties DEF TypeOK
    <2>2. status[t] \in {"running", "ready", "failed"}
      BY DEF Claimable, Recovers
    <2>3. retries'[t] = started[t]
      <3>1. CASE Recovers(t)
        BY <3>1 DEF Recovers, Budgeted, TypeOK
      <3>2. CASE ~Recovers(t)
        BY <3>2 DEF Recovers, Claimable, Budgeted, TypeOK
      <3>. QED  BY <3>1, <3>2
    <2>. QED  BY <2>1, <2>2, <2>3, TaskAssumption DEF Budgeted, TypeOK
  <1>3. a.status = "running" /\ a.number = m + 1 /\ a.worker = w /\ a.generation = started[t] + 1
    BY <1>2 DEF NewAttempt
  <1>4. /\ Len(e) = m + 1 /\ DOMAIN e = 1..(m + 1) /\ e[m + 1] = a
        /\ \A i \in 1..m : e[i] = s[i]
    <2> HIDE DEF s, a, m
    <2>1. a \in Attempts \cup {a} /\ s \in Seq(Attempts \cup {a})
      <3>1. \A i \in 1..Len(s) : s[i] \in Attempts
        BY <1>1, ElementOfSeq
      <3>. QED  BY <1>1, <3>1, SeqDef, LenProperties
    <2>. QED  BY <1>1, <1>2, <2>1, AppendProperties, LenProperties
  <1>5. /\ attempts'[t] = e
        /\ lease'[t].task = t /\ lease'[t].owner = w /\ lease'[t].attempt = m + 1
        /\ lease'[t].generation = started[t] + 1
    BY <1>2 DEF LeaseOf
  <1> HIDE DEF s, a, m, e
  <1>6. \A i \in 1..m : e[i].status # "running" /\ e[i].status # "succeeded" /\ e[i].number = i
    BY ZenonT(60), <1>1, <1>2, <1>4
  <1>7. Leased(t)'
    <2>1. {i \in DOMAIN e : e[i].status = "running"} = {m + 1}
      BY <1>2, <1>3, <1>4, <1>6
    <2>. QED  BY <1>2, <1>3, <1>4, <1>5, <2>1 DEF Leased, Running
  <1>8. Budgeted(t)'
    <2>1. \A i \in DOMAIN e : e[i].number = i /\ e[i].status # "succeeded"
      BY <1>2, <1>3, <1>4, <1>6
    <2>. QED  BY <1>2, <1>4, <1>5, <2>1 DEF Budgeted
  <1>. QED  BY <1>7, <1>8

-----------------------------------------------------------------------------
(***************************************************************************)
(* What the steps share.                                                   *)
(***************************************************************************)
EventRows == [type : EventTypes, attempt : Nat]

\* The events a command emits are rows of the events table.
LEMMA EmitRows ==
    ASSUME TypeOK, NEW t \in Tasks, NEW new \in Seq(EventRows), Emit(t, new)
    PROVE  events' \in [Tasks -> Seq(EventRows)]
  <1>1. events \in [Tasks -> Seq(EventRows)]
    BY DEF TypeOK, EventRows
  <1>2. events[t] \o new \in Seq(EventRows)
    BY <1>1, ConcatProperties
  <1>. QED  BY <1>1, <1>2 DEF Emit

\* What a command emits is an event row.
LEMMA EventRow ==
    ASSUME NEW type \in EventTypes, NEW i \in Nat
    PROVE  Event(type, i) \in EventRows
  BY DEF Event, EventRows

\* A take-over reports the attempt it ended before anything else.
LEMMA TakenRows ==
    ASSUME TypeOK, NEW t \in Tasks, Leased(t), NEW row \in EventRows
    PROVE  Append(Taken(t), row) \in Seq(EventRows)
  <1>1. Taken(t) \in Seq(EventRows)
    <2>1. CASE Recovers(t)
      <3>1. lease[t] # None
        BY <2>1 DEF Recovers, Leased
      <3>2. lease[t].attempt \in Nat
        BY <3>1 DEF TypeOK, Leases
      <3>3. Event("lease.expired", lease[t].attempt) \in EventRows
        BY <3>2, EventRow DEF EventTypes
      <3> HIDE DEF EventRows
      <3>. QED  BY <2>1, <3>3 DEF Taken
    <2>2. CASE ~Recovers(t)
      BY <2>2 DEF Taken
    <2>. QED  BY <2>1, <2>2
  <1>. QED  BY <1>1, AppendProperties

\* The ledger and the workers' reservations survive any step that leaves
\* them alone and forgets no attempt.
LEMMA LedgerStays ==
    ASSUME TypeOK, OneRequestPerKey, Reserved,
           effects' = effects, doing' = doing,
           \A w \in Workers : doing[w] # None => held'[w] = held[w],
           \A t \in Tasks : Len(attempts'[t]) \in Nat /\ Len(attempts'[t]) >= Len(attempts[t])
    PROVE  OneRequestPerKey' /\ Reserved'
  <1>1. OneRequestPerKey'
    BY DEF OneRequestPerKey
  <1>2. Reserved'
    <2> SUFFICES ASSUME NEW k \in EffectKeys, effects[k] # None
                 PROVE  effects[k].attempt <= Len(attempts'[effects[k].task])
      BY DEF Reserved
    <2>1. effects[k] \in Effects
      BY DEF TypeOK
    <2>2. effects[k].task \in Tasks /\ effects[k].attempt \in Nat
      BY <2>1 DEF Effects
    <2>3. effects[k].attempt <= Len(attempts[effects[k].task])
      BY DEF Reserved
    <2>4. Len(attempts[effects[k].task]) \in Nat
      BY <2>2, LenProperties DEF TypeOK
    <2>. QED  BY <2>2, <2>3, <2>4
  <1>. QED  BY <1>1, <1>2

\* A step that changes neither a task's row nor the histories, but for the
\* clock's flags.
LEMMA RowsStay ==
    ASSUME IndInv, TypeOK',
           UNCHANGED <<status, started, retries, generation, lease, attempts>>
    PROVE  OneRunningAttempt' /\ BudgetKept' /\ Fresh'
  <1>1. \A t \in Tasks : Leased(t)' /\ Budgeted(t)'
    BY TaskStays, ByTask DEF IndInv
  <1>2. Fresh'
    BY DEF IndInv, Fresh
  <1>. QED  BY <1>1, <1>2, ByTask

-----------------------------------------------------------------------------
(***************************************************************************)
(* One lemma per command.                                                  *)
(***************************************************************************)
\* Length of a history, for the ledger.
LEMMA LengthsStay ==
    ASSUME TypeOK, attempts' = attempts
    PROVE  \A t \in Tasks : Len(attempts'[t]) \in Nat /\ Len(attempts'[t]) >= Len(attempts[t])
  <1>1. \A t \in Tasks : Len(attempts[t]) \in Nat
    BY LenProperties DEF TypeOK
  <1>. QED  BY <1>1

\* EnqueueTask keeps the invariant.
LEMMA EnqueueKeeps ==
    ASSUME IndInv, NEW t \in Tasks, EnqueueTask(t)
    PROVE  IndInv'
  <1>1. TypeOK'
    <2>1. events' \in [Tasks -> Seq(EventRows)]
      <3>1. Event("task.enqueued", 0) \in EventRows
        BY EventRow DEF EventTypes
      <3> HIDE DEF EventRows
      <3>2. <<Event("task.enqueued", 0)>> \in Seq(EventRows)
        BY <3>1
      <3>. QED  BY <3>2, EmitRows DEF IndInv, EnqueueTask
    <2>. QED  BY <2>1 DEF IndInv, TypeOK, EnqueueTask, EventRows, volatile
  <1>2. ASSUME NEW u \in Tasks
        PROVE  Leased(u)' /\ Budgeted(u)'
    <2>1. Leased(u) /\ Budgeted(u)
      BY ByTask DEF IndInv
    <2>2. CASE u # t
      BY <2>1, <2>2, TaskStays DEF EnqueueTask, IndInv, TypeOK
    <2>3. CASE u = t
      <3>1. /\ status[t] = "absent" /\ status'[t] = "ready" /\ started[t] = 0
            /\ lease[t] = None
        BY <2>1, <2>3 DEF EnqueueTask, IndInv, TypeOK, Fresh, Leased
      <3>2. Leased(t)'
        BY <2>1, <2>3, <3>1 DEF Leased, Running, EnqueueTask
      <3>3. Budgeted(t)'
        <4>1. 0 < MaxAttempts
          BY TaskAssumption
        <4>2. /\ started' = started /\ retries' = retries
              /\ generation' = generation /\ attempts' = attempts
          BY DEF EnqueueTask
        <4>3. /\ \A j \in DOMAIN attempts[t] : attempts[t][j].status # "succeeded"
              /\ retries[t] = started[t]
          BY <2>1, <2>3, <3>1 DEF Budgeted
        <4>. QED  BY <2>1, <2>3, <3>1, <4>1, <4>2, <4>3 DEF Budgeted
      <3>. QED  BY <2>3, <3>2, <3>3
    <2>. QED  BY <2>2, <2>3
  <1>3. OneRequestPerKey' /\ Reserved'
    <2>1. effects' = effects /\ doing' = doing /\ held' = held /\ attempts' = attempts
      BY DEF EnqueueTask, volatile
    <2>. QED  BY <2>1, LedgerStays, LengthsStay DEF IndInv
  <1>4. Fresh'
    BY DEF Fresh, IndInv, EnqueueTask, TypeOK
  <1>. QED  BY <1>1, <1>2, <1>3, <1>4, ByTask DEF IndInv

\* The lease a claim writes is no absent row.
LEMMA NewLease ==
    ASSUME TypeOK, NEW w \in Workers, NEW t \in Tasks
    PROVE  LET l == LeaseOf(t, w, Len(attempts[t]) + 1, generation[t] + 1)
           IN  l \in Leases /\ l # None
  <1>1. Len(attempts[t]) \in Nat /\ generation[t] \in Nat
    BY LenProperties DEF TypeOK
  <1>2. Len(attempts[t]) + 1 \in Nat \ {0} /\ generation[t] + 1 \in Nat \ {0}
    BY <1>1
  <1>3. LeaseOf(t, w, Len(attempts[t]) + 1, generation[t] + 1) \in Leases
    BY <1>2 DEF LeaseOf, Leases
  <1>. QED  BY <1>3, AbsentAssumption

\* ClaimTask keeps it: the attempt before is ended and one is left in the
\* budget.
LEMMA ClaimKeeps ==
    ASSUME IndInv, NEW w \in Workers, NEW t \in Tasks, ClaimTask(w, t)
    PROVE  IndInv'
  <1> DEFINE i == Len(attempts[t]) + 1
             g == generation[t] + 1
             l == LeaseOf(t, w, i, g)
             h == Append(TimedOut(t), NewAttempt(w, t))
  <1>1. TypeOK /\ Leased(t) /\ Budgeted(t)
    BY ByTask DEF IndInv
  <1>2. l \in Leases /\ l # None
    BY <1>1, NewLease
  <1>3. i \in Nat \ {0} /\ g \in Nat \ {0} /\ started[t] + 1 \in 1..MaxAttempts
    <2>1. Len(attempts[t]) \in Nat /\ generation[t] \in Nat /\ started[t] \in 0..MaxAttempts
      BY <1>1, LenProperties DEF TypeOK
    <2>2. ~(started[t] >= MaxAttempts) /\ MaxAttempts \in Nat
      BY TaskAssumption DEF ClaimTask, Exhausted
    <2>. QED  BY <2>1, <2>2
  <1>4. NewAttempt(w, t) \in Attempts
    BY <1>3 DEF NewAttempt, Attempts
  <1>5. h \in Seq(Attempts) /\ Len(h) = i
    <2>1. TimedOut(t) \in Seq(Attempts) /\ Len(TimedOut(t)) = Len(attempts[t])
      BY <1>1, TimedOutFacts
    <2> HIDE DEF Attempts
    <2>. QED  BY <1>4, <2>1, AppendProperties
  <1>6. /\ lease' = [lease EXCEPT ![t] = l] /\ held' = [held EXCEPT ![w] = l]
        /\ generation' = [generation EXCEPT ![t] = g]
        /\ attempts' = [attempts EXCEPT ![t] = h]
    BY DEF ClaimTask, NewAttempt
  <1>7. events' \in [Tasks -> Seq(EventRows)]
    <2>1. Event("attempt.started", i) \in EventRows
      BY <1>3, EventRow DEF EventTypes
    <2>2. Append(Taken(t), Event("attempt.started", i)) \in Seq(EventRows)
      BY <1>1, <2>1, TakenRows
    <2>3. Emit(t, Append(Taken(t), Event("attempt.started", i)))
      BY DEF ClaimTask
    <2>. QED  BY <1>1, <2>2, <2>3, EmitRows
  <1> HIDE DEF i, g, l, h
  <1>8. TypeOK'
    <2>1. started' \in [Tasks -> 0..MaxAttempts] /\ retries' \in [Tasks -> Nat]
      <3>1. retries[t] \in Nat /\ retries[t] + 1 \in Nat
        BY <1>1 DEF TypeOK
      <3>2. retries' \in [Tasks -> Nat]
        BY <1>1, <3>1 DEF TypeOK, ClaimTask
      <3>3. started' \in [Tasks -> 0..MaxAttempts]
        BY <1>1, <1>3 DEF TypeOK, ClaimTask
      <3>. QED  BY <3>2, <3>3
    <2>2. /\ lease' \in [Tasks -> Leases \cup {None}]
          /\ held' \in [Workers -> Leases \cup {None}]
          /\ generation' \in [Tasks -> Nat]
          /\ attempts' \in [Tasks -> Seq(Attempts)]
      <3> HIDE DEF Leases, Attempts
      <3>. QED  BY <1>1, <1>2, <1>3, <1>5, <1>6 DEF TypeOK
    <2>. QED  BY <1>1, <1>7, <2>1, <2>2 DEF TypeOK, ClaimTask, EventRows
  <1>9. ASSUME NEW u \in Tasks
        PROVE  Leased(u)' /\ Budgeted(u)'
    <2>1. Leased(u) /\ Budgeted(u)
      BY ByTask DEF IndInv
    <2>2. CASE u # t
      <3>1. /\ status'[u] = status[u] /\ started'[u] = started[u]
            /\ retries'[u] = retries[u]
        BY <1>1, <2>2 DEF ClaimTask, TypeOK
      <3>2. /\ generation'[u] = generation[u] /\ lease'[u] = lease[u]
            /\ attempts'[u] = attempts[u]
        BY <1>1, <1>6, <2>2 DEF TypeOK
      <3>. QED  BY <2>1, <3>1, <3>2, TaskStays
    <2>3. CASE u = t
      <3>1. lease'[t] = l /\ generation'[t] = g /\ attempts'[t] = h
        BY <1>1, <1>6 DEF TypeOK
      <3>2. /\ status'[t] = "running" /\ started'[t] = started[t] + 1
            /\ retries'[t] = IF Recovers(t) THEN retries[t] + 1 ELSE retries[t]
        BY <1>1 DEF TypeOK, ClaimTask
      <3>3. Claimable(t) /\ ~Exhausted(t)
        BY DEF ClaimTask
      <3>. QED  BY <1>1, <1>2, <2>3, <3>1, <3>2, <3>3, TaskStarts DEF i, g, l, h
    <2>. QED  BY <2>2, <2>3
  <1>10. OneRequestPerKey' /\ Reserved'
    <2>1. held[w] = None /\ effects' = effects /\ doing' = doing
      BY DEF ClaimTask
    <2>2. doing[w] = None
      BY <2>1 DEF IndInv, OneRequestPerKey
    <2>3. \A v \in Workers : doing[v] # None => held'[v] = held[v]
      BY <1>1, <1>6, <2>2 DEF TypeOK
    <2>4. \A u \in Tasks : Len(attempts'[u]) \in Nat /\ Len(attempts'[u]) >= Len(attempts[u])
      <3>1. \A u \in Tasks : Len(attempts[u]) \in Nat
        BY <1>1, LenProperties DEF TypeOK
      <3>2. \A u \in Tasks : attempts'[u] = IF u = t THEN h ELSE attempts[u]
        BY <1>1, <1>6 DEF TypeOK
      <3>3. Len(h) = Len(attempts[t]) + 1
        BY <1>5 DEF i
      <3>. QED  BY <3>1, <3>2, <3>3
    <2>. QED  BY <2>1, <2>3, <2>4, LedgerStays DEF IndInv
  <1>11. Fresh'
    BY DEF Fresh, IndInv, ClaimTask, TypeOK
  <1>. QED  BY <1>8, <1>9, <1>10, <1>11, ByTask DEF IndInv

\* A lease that is ended leaves a history.
LEMMA EndedHistory ==
    ASSUME TypeOK, NEW t \in Tasks, Leased(t), lease[t] # None,
           NEW st \in {"succeeded", "failed", "timed_out"}
    PROVE  /\ Ended(attempts[t], lease[t].attempt, st) \in Seq(Attempts)
           /\ Len(Ended(attempts[t], lease[t].attempt, st)) = Len(attempts[t])
  <1> DEFINE s == attempts[t]
             n == lease[t].attempt
  <1>1. n \in 1..Len(s)
    BY LeaseFacts
  <1>2. s \in Seq(Attempts)
    BY DEF TypeOK
  <1>3. Ended(s, n, st) \in Seq(Attempts) /\ Len(Ended(s, n, st)) = Len(s)
    <2> HIDE DEF s, n
    <2>. QED  BY <1>1, <1>2, EndedSeq
  <1>. QED  BY <1>3

\* The commands that end a lease, one task or several: every task either
\* stays as it is or ends its lease.
LEMMA EndsKeep ==
    ASSUME IndInv, TypeOK',
           UNCHANGED <<started, generation, effects, held, doing>>,
           \A t \in Tasks :
             \/ /\ status'[t] = status[t] /\ retries'[t] = retries[t]
                /\ lease'[t] = lease[t] /\ attempts'[t] = attempts[t]
             \/ /\ lease[t] # None /\ lease'[t] = None
                /\ \/ /\ attempts'[t] = Ended(attempts[t], lease[t].attempt, "succeeded")
                      /\ status'[t] = "succeeded" /\ retries'[t] = retries[t]
                   \/ \E st \in {"failed", "timed_out"} :
                        /\ attempts'[t] = Ended(attempts[t], lease[t].attempt, st)
                        /\ \/ /\ ~Exhausted(t)
                              /\ status'[t] = "failed" /\ retries'[t] = retries[t] + 1
                           \/ Exhausted(t) /\ status'[t] = "dead_lettered"
    PROVE  IndInv'
  <1>1. ASSUME NEW t \in Tasks
        PROVE  /\ Leased(t)' /\ Budgeted(t)'
               /\ Len(attempts'[t]) \in Nat /\ Len(attempts'[t]) >= Len(attempts[t])
               /\ status'[t] = "absent" => status[t] = "absent"
    <2>1. TypeOK /\ Leased(t) /\ Budgeted(t)
      BY ByTask DEF IndInv
    <2>2. attempts[t] \in Seq(Attempts) /\ Len(attempts[t]) \in Nat
      BY <2>1, LenProperties DEF TypeOK
    <2>3. CASE /\ status'[t] = status[t] /\ retries'[t] = retries[t]
               /\ lease'[t] = lease[t] /\ attempts'[t] = attempts[t]
      BY <2>1, <2>2, <2>3, TaskStays
    <2>4. ASSUME NEW st \in {"succeeded", "failed", "timed_out"},
                 lease[t] # None, lease'[t] = None,
                 attempts'[t] = Ended(attempts[t], lease[t].attempt, st),
                 \/ st = "succeeded" /\ status'[t] = "succeeded" /\ retries'[t] = retries[t]
                 \/ /\ st # "succeeded" /\ ~Exhausted(t)
                    /\ status'[t] = "failed" /\ retries'[t] = retries[t] + 1
                 \/ st # "succeeded" /\ Exhausted(t) /\ status'[t] = "dead_lettered"
          PROVE  /\ Leased(t)' /\ Budgeted(t)'
                 /\ Len(attempts'[t]) = Len(attempts[t])
                 /\ status'[t] # "absent"
      <3>1. Leased(t)' /\ Budgeted(t)'
        BY <2>1, <2>4, TaskEnds
      <3>2. Len(Ended(attempts[t], lease[t].attempt, st)) = Len(attempts[t])
        BY <2>1, <2>4, EndedHistory
      <3>. QED  BY <2>4, <3>1, <3>2
    <2>. QED  BY <2>2, <2>3, <2>4
  <1>2. OneRequestPerKey' /\ Reserved'
    BY <1>1, LedgerStays DEF IndInv
  <1>3. Fresh'
    BY <1>1 DEF Fresh, IndInv
  <1>. QED  BY <1>1, <1>2, <1>3, ByTask DEF IndInv

\* CompleteTask keeps it: the fence admits the holder of the running attempt
\* only.
LEMMA CompleteKeeps ==
    ASSUME IndInv, NEW w \in Workers, CompleteSucceeded(w) \/ CompleteFailed(w)
    PROVE  IndInv'
  <1> DEFINE t == held[w].task
  <1>1. held[w] # None /\ Fenced(held[w]) /\ held[w] \in Leases
    BY DEF CompleteSucceeded, CompleteFailed, IndInv, TypeOK
  <1>2. t \in Tasks /\ lease[t] = held[w] /\ lease[t] # None /\ held[w].attempt \in Nat
    BY <1>1 DEF Fenced, Leases
  <1>3. TypeOK /\ Leased(t) /\ Budgeted(t)
    BY <1>2, ByTask DEF IndInv
  <1>4. CASE CompleteSucceeded(w)
    <2> DEFINE e == Ended(attempts[t], lease[t].attempt, "succeeded")
    <2>1. e \in Seq(Attempts)
      BY <1>2, <1>3, EndedHistory
    <2>2. /\ attempts' = [attempts EXCEPT ![t] = e]
          /\ status' = [status EXCEPT ![t] = "succeeded"]
          /\ lease' = [lease EXCEPT ![t] = None]
          /\ expired' = [expired EXCEPT ![t] = FALSE]
          /\ UNCHANGED <<run, started, retries, generation, due, effects, held, doing>>
      BY <1>4 DEF CompleteSucceeded, EndAttempt, Ended, ClearLease, volatile
    <2>3. events' \in [Tasks -> Seq(EventRows)]
      <3>1. Event("attempt.completed", held[w].attempt) \in EventRows
        BY <1>2, EventRow DEF EventTypes
      <3>2. Emit(t, <<Event("attempt.completed", held[w].attempt)>>)
        BY <1>4 DEF CompleteSucceeded
      <3> HIDE DEF EventRows
      <3>3. <<Event("attempt.completed", held[w].attempt)>> \in Seq(EventRows)
        BY <3>1
      <3>. QED  BY <1>2, <1>3, <3>2, <3>3, EmitRows
    <2> HIDE DEF t, e
    <2>4. TypeOK'
      BY <1>2, <1>3, <2>1, <2>2, <2>3 DEF TypeOK, EventRows
    <2>5. ASSUME NEW u \in Tasks
          PROVE  \/ /\ status'[u] = status[u] /\ retries'[u] = retries[u]
                    /\ lease'[u] = lease[u] /\ attempts'[u] = attempts[u]
                 \/ /\ lease[u] # None /\ lease'[u] = None
                    /\ attempts'[u] = Ended(attempts[u], lease[u].attempt, "succeeded")
                    /\ status'[u] = "succeeded" /\ retries'[u] = retries[u]
      BY <1>2, <1>3, <2>2 DEF TypeOK, e
    <2>. QED  BY <2>2, <2>4, <2>5, EndsKeep
  <1>5. CASE CompleteFailed(w)
    <2> DEFINE e == Ended(attempts[t], lease[t].attempt, "failed")
    <2>1. e \in Seq(Attempts)
      BY <1>2, <1>3, EndedHistory
    <2>2. /\ attempts' = [attempts EXCEPT ![t] = e]
          /\ status' = [status EXCEPT ![t] = IF ~Exhausted(t) THEN "failed" ELSE "dead_lettered"]
          /\ retries' = [retries EXCEPT ![t] = IF ~Exhausted(t) THEN @ + 1 ELSE @]
          /\ due' = [due EXCEPT ![t] = IF ~Exhausted(t) THEN FALSE ELSE @]
          /\ lease' = [lease EXCEPT ![t] = None]
          /\ expired' = [expired EXCEPT ![t] = FALSE]
          /\ UNCHANGED <<run, started, generation, effects, held, doing>>
      BY <1>5 DEF CompleteFailed, EndAttempt, Ended, ClearLease, volatile
    <2>3. events' \in [Tasks -> Seq(EventRows)]
      <3> DEFINE x == Event("attempt.completed", held[w].attempt)
                 y == Event(IF ~Exhausted(t) THEN "task.retry_scheduled"
                            ELSE "task.dead_lettered", held[w].attempt)
      <3>1. x \in EventRows /\ y \in EventRows
        BY <1>2, EventRow DEF EventTypes
      <3>2. Emit(t, <<x, y>>)
        BY <1>5 DEF CompleteFailed
      <3> HIDE DEF EventRows, x, y
      <3>3. <<x, y>> \in Seq(EventRows)
        BY <3>1
      <3>. QED  BY <1>2, <1>3, <3>2, <3>3, EmitRows
    <2> HIDE DEF t, e
    <2>4. TypeOK'
      <3>1. retries[t] + 1 \in Nat
        BY <1>2, <1>3 DEF TypeOK
      <3>2. retries' \in [Tasks -> Nat] /\ due' \in [Tasks -> BOOLEAN]
        BY <1>2, <1>3, <2>2, <3>1 DEF TypeOK
      <3>. QED  BY <1>2, <1>3, <2>1, <2>2, <2>3, <3>2 DEF TypeOK, EventRows
    <2>5. ASSUME NEW u \in Tasks
          PROVE  \/ /\ status'[u] = status[u] /\ retries'[u] = retries[u]
                    /\ lease'[u] = lease[u] /\ attempts'[u] = attempts[u]
                 \/ /\ lease[u] # None /\ lease'[u] = None
                    /\ attempts'[u] = Ended(attempts[u], lease[u].attempt, "failed")
                    /\ \/ /\ ~Exhausted(u)
                          /\ status'[u] = "failed" /\ retries'[u] = retries[u] + 1
                       \/ Exhausted(u) /\ status'[u] = "dead_lettered"
      BY <1>2, <1>3, <2>2 DEF TypeOK, e
    <2>. QED  BY <2>2, <2>4, <2>5, EndsKeep
  <1>. QED  BY <1>4, <1>5

\* A claim that finds the budget used up was of an expired lease.
LEMMA ExhaustedKeeps ==
    ASSUME IndInv, NEW t \in Tasks, ClaimExhausted(t)
    PROVE  IndInv'
  <1>1. TypeOK /\ Leased(t) /\ Budgeted(t)
    BY ByTask DEF IndInv
  <1>2. Recovers(t)
    <2>1. started[t] = MaxAttempts /\ MaxAttempts \in Nat
      BY <1>1, BudgetCases DEF ClaimExhausted
    <2>2. status[t] \notin {"ready", "failed"}
      BY <1>1, <2>1 DEF Budgeted
    <2>. QED  BY <2>2 DEF ClaimExhausted, Claimable
  <1>3. lease[t] # None /\ lease[t].attempt \in Nat
    <2>1. lease[t] # None
      BY <1>1, <1>2 DEF Recovers, Leased
    <2>. QED  BY <1>1, <2>1 DEF TypeOK, Leases
  <1> DEFINE e == Ended(attempts[t], lease[t].attempt, "timed_out")
  <1>4. e \in Seq(Attempts)
    BY <1>1, <1>3, EndedHistory
  <1>5. /\ attempts' = [attempts EXCEPT ![t] = e]
        /\ status' = [status EXCEPT ![t] = "dead_lettered"]
        /\ lease' = [lease EXCEPT ![t] = None]
        /\ expired' = [expired EXCEPT ![t] = FALSE]
        /\ UNCHANGED <<run, started, retries, generation, due, effects, held, doing>>
    BY <1>2 DEF ClaimExhausted, TimedOut, Ended, ClearLease, volatile
  <1>6. events' \in [Tasks -> Seq(EventRows)]
    <2> DEFINE x == Event("task.dead_lettered", lease[t].attempt)
    <2>1. x \in EventRows
      BY <1>3, EventRow DEF EventTypes
    <2>2. Emit(t, Append(Taken(t), x))
      BY <1>3 DEF ClaimExhausted
    <2> HIDE DEF x
    <2>. QED  BY <1>1, <2>1, <2>2, TakenRows, EmitRows
  <1> HIDE DEF e
  <1>7. TypeOK'
    BY <1>1, <1>4, <1>5, <1>6 DEF TypeOK, EventRows
  <1>8. ASSUME NEW u \in Tasks
        PROVE  \/ /\ status'[u] = status[u] /\ retries'[u] = retries[u]
                  /\ lease'[u] = lease[u] /\ attempts'[u] = attempts[u]
               \/ /\ lease[u] # None /\ lease'[u] = None
                  /\ attempts'[u] = Ended(attempts[u], lease[u].attempt, "timed_out")
                  /\ Exhausted(u) /\ status'[u] = "dead_lettered"
    BY <1>1, <1>3, <1>5 DEF TypeOK, e, ClaimExhausted
  <1>. QED  BY <1>5, <1>7, <1>8, EndsKeep

\* RecoverExpiredLeases keeps it, task by task.
LEMMA RecoverKeeps ==
    ASSUME IndInv, NEW S \in SUBSET Tasks, RecoverExpiredLeases(S)
    PROVE  IndInv'
  <1> DEFINE e(t) == Ended(attempts[t], lease[t].attempt, "timed_out")
  <1>1. TypeOK
    BY DEF IndInv
  <1>2. ASSUME NEW t \in S
        PROVE  /\ Leased(t) /\ lease[t] # None /\ lease[t].attempt \in Nat
               /\ TimedOut(t) = e(t) /\ e(t) \in Seq(Attempts)
    <2>1. Recovers(t) /\ Leased(t)
      BY ByTask DEF IndInv, RecoverExpiredLeases
    <2>2. lease[t] # None
      BY <2>1 DEF Recovers, Leased
    <2>3. lease[t].attempt \in Nat
      BY <1>1, <2>2 DEF TypeOK, Leases
    <2>4. TimedOut(t) = e(t)
      BY <2>1 DEF TimedOut, Ended
    <2>5. e(t) \in Seq(Attempts)
      BY <1>1, <2>1, <2>2, EndedHistory
    <2>. QED  BY <2>1, <2>2, <2>3, <2>4, <2>5
  <1>3. events' \in [Tasks -> Seq(EventRows)]
    <2> SUFFICES ASSUME NEW t \in S
                 PROVE  events[t] \o Append(Taken(t),
                          Event(IF Exhausted(t) THEN "task.dead_lettered"
                                ELSE "task.retry_scheduled", lease[t].attempt))
                          \in Seq(EventRows)
      BY <1>1 DEF RecoverExpiredLeases, TypeOK, EventRows
    <2> DEFINE x == Event(IF Exhausted(t) THEN "task.dead_lettered"
                          ELSE "task.retry_scheduled", lease[t].attempt)
    <2>1. x \in EventRows
      BY <1>2, EventRow DEF EventTypes
    <2>2. events[t] \in Seq(EventRows)
      BY <1>1 DEF TypeOK, EventRows
    <2> HIDE DEF x
    <2>3. Append(Taken(t), x) \in Seq(EventRows)
      BY <1>1, <1>2, <2>1, TakenRows
    <2> HIDE DEF EventRows
    <2>4. events[t] \o Append(Taken(t), x) \in Seq(EventRows)
      BY <2>2, <2>3, ConcatProperties
    <2>. QED  BY <2>4 DEF x
  <1>4. attempts' \in [Tasks -> Seq(Attempts)]
    BY <1>1, <1>2 DEF RecoverExpiredLeases, TypeOK
  <1>5. /\ status' \in [Tasks -> {"absent", "ready", "running", "succeeded", "failed",
                                  "dead_lettered"}]
        /\ retries' \in [Tasks -> Nat]
        /\ lease' \in [Tasks -> Leases \cup {None}]
    BY <1>1 DEF RecoverExpiredLeases, TypeOK
  <1>6. expired' \in [Tasks -> BOOLEAN] /\ due' \in [Tasks -> BOOLEAN]
    BY <1>1, Zenon DEF RecoverExpiredLeases, TypeOK
  <1>7. TypeOK'
    BY <1>1, <1>3, <1>4, <1>5, <1>6
       DEF RecoverExpiredLeases, TypeOK, EventRows, volatile
  <1>8. ASSUME NEW u \in Tasks
        PROVE  \/ /\ status'[u] = status[u] /\ retries'[u] = retries[u]
                  /\ lease'[u] = lease[u] /\ attempts'[u] = attempts[u]
               \/ /\ lease[u] # None /\ lease'[u] = None
                  /\ attempts'[u] = e(u)
                  /\ \/ /\ ~Exhausted(u)
                        /\ status'[u] = "failed" /\ retries'[u] = retries[u] + 1
                     \/ Exhausted(u) /\ status'[u] = "dead_lettered"
    BY <1>1, <1>2 DEF RecoverExpiredLeases
  <1>9. UNCHANGED <<started, generation, effects, held, doing>>
    BY DEF RecoverExpiredLeases, volatile
  <1>. QED  BY <1>7, <1>8, <1>9, EndsKeep

\* The clock, heartbeats and forgetful workers keep it.
LEMMA ClockKeeps ==
    ASSUME IndInv,
           \/ \E t \in Tasks : LeaseExpires(t) \/ RetryFallsDue(t)
           \/ \E w \in Workers : HeartbeatLease(w) \/ Forget(w)
           \/ RunEnds
    PROVE  IndInv'
  <1>1. TypeOK'
    BY DEF IndInv, TypeOK, LeaseExpires, RetryFallsDue, HeartbeatLease, Forget, RunEnds,
           durable, volatile, taskRow
  <1>2. UNCHANGED <<status, started, retries, generation, lease, attempts, effects>>
    BY DEF LeaseExpires, RetryFallsDue, HeartbeatLease, Forget, RunEnds, durable, taskRow
  <1>3. OneRunningAttempt' /\ BudgetKept' /\ Fresh'
    BY <1>1, <1>2, RowsStay
  <1>4. OneRequestPerKey' /\ Reserved'
    <2>1. CASE held' = held /\ doing' = doing
      BY <1>2, <2>1, LedgerStays, LengthsStay DEF IndInv
    <2>2. ASSUME NEW w \in Workers, Forget(w)
          PROVE  OneRequestPerKey' /\ Reserved'
      <3>1. OneRequestPerKey'
        BY <1>2, <2>2 DEF Forget, IndInv, OneRequestPerKey, TypeOK
      <3>2. Reserved'
        BY <1>2 DEF IndInv, Reserved
      <3>. QED  BY <3>1, <3>2
    <2>. QED
      BY <2>1, <2>2 DEF LeaseExpires, RetryFallsDue, HeartbeatLease, RunEnds, volatile
  <1>. QED  BY <1>1, <1>3, <1>4 DEF IndInv

\* What the fence of the lease tuple gives: the worker holds the latest
\* attempt of its task.
LEMMA FenceFacts ==
    ASSUME IndInv, NEW w \in Workers, held[w] # None, Fenced(held[w])
    PROVE  /\ held[w] \in Leases /\ held[w].task \in Tasks
           /\ held[w].attempt \in Nat \ {0}
           /\ held[w].attempt = Len(attempts[held[w].task])
  <1>1. held[w] \in Leases
    BY DEF IndInv, TypeOK
  <1>2. held[w].task \in Tasks /\ held[w].attempt \in Nat \ {0}
    BY <1>1 DEF Leases
  <1>3. lease[held[w].task] = held[w]
    BY DEF Fenced
  <1>4. Leased(held[w].task)
    BY <1>2, ByTask DEF IndInv
  <1>. QED  BY <1>1, <1>2, <1>3, <1>4 DEF Leased

\* ReserveEffect keeps it: a key gets the request of its first reservation.
LEMMA ReserveKeeps ==
    ASSUME IndInv, NEW w \in Workers, NEW k \in EffectKeys, NEW q \in Requests,
           ReserveEffect(w, k, q)
    PROVE  IndInv'
  <1> DEFINE t == held[w].task
             f == [task |-> t, attempt |-> held[w].attempt, request |-> q,
                   status |-> "reserved", result |-> None]
             d == [key |-> k, request |-> q]
  <1>1. /\ held[w] # None /\ t \in Tasks /\ held[w].attempt \in Nat \ {0}
        /\ held[w].attempt = Len(attempts[t])
    BY FenceFacts DEF ReserveEffect
  <1>2. f \in Effects /\ f # None
    <2>1. f \in Effects
      BY <1>1 DEF Effects
    <2>. QED  BY <2>1, AbsentAssumption
  <1>3. d \in [key : EffectKeys, request : Requests] /\ d # None
    <2>1. d \in [key : EffectKeys, request : Requests]
      OBVIOUS
    <2>. QED  BY <2>1, AbsentAssumption
  <1>4. f.task = t /\ f.attempt = held[w].attempt /\ f.request = q /\ d.key = k /\ d.request = q
    OBVIOUS
  <1>5. /\ effects[k] = None
        /\ effects' = [effects EXCEPT ![k] = f] /\ doing' = [doing EXCEPT ![w] = d]
        /\ UNCHANGED <<run, status, started, retries, generation, lease, expired, due,
                        attempts, held>>
    BY DEF ReserveEffect, taskRow
  <1>6. events' \in [Tasks -> Seq(EventRows)]
    <2> DEFINE x == Event("effect.reserved", held[w].attempt)
    <2>1. x \in EventRows
      BY <1>1, EventRow DEF EventTypes
    <2>2. Emit(t, <<x>>)
      BY DEF ReserveEffect
    <2> HIDE DEF EventRows, x
    <2>3. <<x>> \in Seq(EventRows)
      BY <2>1
    <2>. QED  BY <1>1, <2>2, <2>3, EmitRows DEF IndInv
  <1> HIDE DEF f, d
  <1>7. TypeOK'
    BY <1>2, <1>3, <1>5, <1>6 DEF IndInv, TypeOK, EventRows
  <1>8. OneRunningAttempt' /\ BudgetKept' /\ Fresh'
    BY <1>5, <1>7, RowsStay
  <1>9. OneRequestPerKey'
    <2> SUFFICES ASSUME NEW v \in Workers, doing'[v] # None
                 PROVE  /\ effects'[doing'[v].key] # None
                        /\ effects'[doing'[v].key].request = doing'[v].request
                        /\ held[v] # None /\ held[v].task = effects'[doing'[v].key].task
                        /\ effects'[doing'[v].key].attempt <= held[v].attempt
      BY <1>5 DEF OneRequestPerKey
    <2>1. CASE v = w
      <3>1. doing'[v] = d /\ effects'[k] = f
        BY <1>5, <2>1 DEF IndInv, TypeOK
      <3>. QED  BY <1>1, <1>2, <1>4, <2>1, <3>1
    <2>2. CASE v # w
      <3>1. doing'[v] = doing[v]
        BY <1>5, <2>2 DEF IndInv, TypeOK
      <3>2. doing[v].key \in EffectKeys /\ effects[doing[v].key] # None
        BY <3>1 DEF IndInv, TypeOK, OneRequestPerKey
      <3>3. effects'[doing[v].key] = effects[doing[v].key]
        BY <1>5, <3>2 DEF IndInv, TypeOK
      <3>. QED  BY <3>1, <3>3 DEF IndInv, OneRequestPerKey
    <2>. QED  BY <2>1, <2>2
  <1>10. Reserved'
    <2> SUFFICES ASSUME NEW j \in EffectKeys, effects'[j] # None
                 PROVE  effects'[j].attempt <= Len(attempts[effects'[j].task])
      BY <1>5 DEF Reserved
    <2>1. CASE j = k
      <3>1. effects'[j] = f
        BY <1>5, <2>1 DEF IndInv, TypeOK
      <3>2. f.attempt = Len(attempts[f.task]) /\ f.attempt \in Nat
        BY <1>1, <1>4
      <3>. QED  BY <3>1, <3>2
    <2>2. CASE j # k
      BY <1>5, <2>2 DEF IndInv, TypeOK, Reserved
    <2>. QED  BY <2>1, <2>2
  <1>. QED  BY <1>7, <1>8, <1>9, <1>10 DEF IndInv

\* A reservation that is taken up again keeps it.
LEMMA ReuseKeeps ==
    ASSUME IndInv, NEW w \in Workers, NEW k \in EffectKeys, NEW q \in Requests,
           ReuseReservation(w, k, q)
    PROVE  IndInv'
  <1> DEFINE d == [key |-> k, request |-> q]
  <1>1. /\ held[w] # None /\ held[w].attempt = Len(attempts[held[w].task])
    BY FenceFacts DEF ReuseReservation
  <1>2. d \in [key : EffectKeys, request : Requests] /\ d.key = k /\ d.request = q
    OBVIOUS
  <1>3. /\ effects[k] # None /\ effects[k].request = q /\ effects[k].task = held[w].task
        /\ doing' = [doing EXCEPT ![w] = d]
        /\ UNCHANGED <<run, status, started, retries, generation, lease, expired, due,
                        attempts, effects, events, held>>
    BY DEF ReuseReservation, durable, taskRow
  <1> HIDE DEF d
  <1>4. TypeOK'
    BY <1>2, <1>3 DEF IndInv, TypeOK
  <1>5. OneRunningAttempt' /\ BudgetKept' /\ Fresh'
    BY <1>3, <1>4, RowsStay
  <1>6. Reserved'
    BY <1>3 DEF IndInv, Reserved
  <1>7. OneRequestPerKey'
    <2> SUFFICES ASSUME NEW v \in Workers, doing'[v] # None
                 PROVE  /\ effects[doing'[v].key] # None
                        /\ effects[doing'[v].key].request = doing'[v].request
                        /\ held[v] # None /\ held[v].task = effects[doing'[v].key].task
                        /\ effects[doing'[v].key].attempt <= held[v].attempt
      BY <1>3 DEF OneRequestPerKey
    <2>1. CASE v = w
      <3>1. doing'[v] = d
        BY <1>3, <2>1 DEF IndInv, TypeOK
      <3>2. effects[k].attempt <= held[w].attempt
        BY <1>1, <1>3 DEF IndInv, Reserved
      <3>. QED  BY <1>1, <1>2, <1>3, <2>1, <3>1, <3>2
    <2>2. CASE v # w
      <3>1. doing'[v] = doing[v]
        BY <1>3, <2>2 DEF IndInv, TypeOK
      <3>. QED  BY <3>1 DEF IndInv, OneRequestPerKey
    <2>. QED  BY <2>1, <2>2
  <1>. QED  BY <1>4, <1>5, <1>6, <1>7 DEF IndInv

\* CommitEffect keeps it: it changes status and result of an effect only.
LEMMA CommitKeeps ==
    ASSUME IndInv, NEW w \in Workers, NEW r \in Results, CommitEffect(w, r)
    PROVE  IndInv'
  <1> DEFINE k == doing[w].key
             f == [effects[k] EXCEPT !.status = "committed", !.result = r]
  <1>1. k \in EffectKeys /\ effects[k] # None /\ effects[k] \in Effects
    <2>1. doing[w] # None
      BY DEF CommitEffect
    <2>. QED  BY <2>1 DEF IndInv, TypeOK, OneRequestPerKey
  <1>2. /\ f \in Effects /\ f.task = effects[k].task /\ f.attempt = effects[k].attempt
        /\ f.request = effects[k].request
    <2> HIDE DEF k
    <2>. QED  BY <1>1 DEF Effects
  <1>3. f # None
    BY <1>2, AbsentAssumption
  <1>4. effects[k].task \in Tasks /\ effects[k].attempt \in Nat
    BY <1>1 DEF Effects
  <1>5. /\ effects' = [effects EXCEPT ![k] = f]
        /\ UNCHANGED <<run, status, started, retries, generation, lease, expired, due,
                        attempts, held, doing>>
    BY DEF CommitEffect, taskRow, volatile
  <1>6. events' \in [Tasks -> Seq(EventRows)]
    <2> DEFINE x == Event("effect.committed", effects[k].attempt)
    <2>1. x \in EventRows
      BY <1>4, EventRow DEF EventTypes
    <2>2. Emit(effects[k].task, <<x>>)
      BY DEF CommitEffect
    <2> HIDE DEF EventRows, x
    <2>3. <<x>> \in Seq(EventRows)
      BY <2>1
    <2>. QED  BY <1>4, <2>2, <2>3, EmitRows DEF IndInv
  <1> HIDE DEF f, k
  <1>7. TypeOK'
    BY <1>1, <1>2, <1>5, <1>6 DEF IndInv, TypeOK, EventRows
  <1>8. OneRunningAttempt' /\ BudgetKept' /\ Fresh'
    BY <1>5, <1>7, RowsStay
  <1>9. \A j \in EffectKeys :
          /\ effects'[j] # None <=> effects[j] # None
          /\ effects[j] # None =>
               /\ effects'[j].task = effects[j].task
               /\ effects'[j].attempt = effects[j].attempt
               /\ effects'[j].request = effects[j].request
    BY <1>1, <1>2, <1>3, <1>5 DEF IndInv, TypeOK
  <1>10. Reserved'
    BY <1>5, <1>9 DEF IndInv, Reserved
  <1>11. OneRequestPerKey'
    <2>1. \A v \in Workers : doing[v] # None => doing[v].key \in EffectKeys
      BY DEF IndInv, TypeOK
    <2>. QED  BY <1>5, <1>9, <2>1 DEF IndInv, OneRequestPerKey
  <1>. QED  BY <1>7, <1>8, <1>10, <1>11 DEF IndInv

-----------------------------------------------------------------------------
(***************************************************************************)
(* The invariants.                                                         *)
(***************************************************************************)
LEMMA InitHolds == Init => IndInv
  <1> SUFFICES ASSUME Init PROVE IndInv
    OBVIOUS
  <1>1. TypeOK
    <2>1. 0 \in 0..MaxAttempts
      BY TaskAssumption
    <2>2. /\ attempts \in [Tasks -> Seq(Attempts)]
          /\ events \in [Tasks -> Seq([type : EventTypes, attempt : Nat])]
      BY DEF Init
    <2>3. expired \in [Tasks -> BOOLEAN] /\ due \in [Tasks -> BOOLEAN]
      BY DEF Init
    <2>. QED  BY <2>1, <2>2, <2>3 DEF Init, TypeOK
  <1>2. \A t \in Tasks : Leased(t) /\ Budgeted(t)
    BY TaskAssumption DEF Init, Leased, Budgeted, Running
  <1>3. OneRequestPerKey /\ Reserved /\ Fresh
    BY DEF Init, OneRequestPerKey, Reserved, Fresh
  <1>. QED  BY <1>1, <1>2, <1>3, ByTask DEF IndInv

\* Every step keeps the invariant.
LEMMA StepKeeps == IndInv /\ [Next]_vars => IndInv'
  <1> SUFFICES ASSUME IndInv, [Next]_vars PROVE IndInv'
    OBVIOUS
  <1>1. ASSUME NEW w \in Workers, NEW t \in Tasks, ClaimTask(w, t)  PROVE IndInv'
    BY <1>1, ClaimKeeps
  <1>2. ASSUME NEW t \in Tasks, EnqueueTask(t)  PROVE IndInv'
    BY <1>2, EnqueueKeeps
  <1>3. ASSUME NEW t \in Tasks, ClaimExhausted(t)  PROVE IndInv'
    BY <1>3, ExhaustedKeeps
  <1>4. ASSUME NEW w \in Workers, CompleteSucceeded(w) \/ CompleteFailed(w)  PROVE IndInv'
    BY <1>4, CompleteKeeps
  <1>5. ASSUME NEW S \in SUBSET Tasks, RecoverExpiredLeases(S)  PROVE IndInv'
    BY <1>5, RecoverKeeps
  <1>6. ASSUME NEW w \in Workers, NEW k \in EffectKeys, NEW q \in Requests,
               ReserveEffect(w, k, q) \/ ReuseReservation(w, k, q)
        PROVE  IndInv'
    BY <1>6, ReserveKeeps, ReuseKeeps
  <1>7. ASSUME NEW w \in Workers, NEW r \in Results, CommitEffect(w, r)  PROVE IndInv'
    BY <1>7, CommitKeeps
  <1>8. ASSUME \/ \E t \in Tasks : LeaseExpires(t) \/ RetryFallsDue(t)
               \/ \E w \in Workers : HeartbeatLease(w) \/ Forget(w)
               \/ RunEnds
        PROVE  IndInv'
    BY <1>8, ClockKeeps
  <1>9. ASSUME UNCHANGED vars  PROVE IndInv'
    <2>1. TypeOK'
      BY <1>9 DEF vars, IndInv, TypeOK
    <2>2. OneRunningAttempt' /\ BudgetKept' /\ Fresh'
      BY <1>9, <2>1, RowsStay DEF vars
    <2>3. OneRequestPerKey' /\ Reserved'
      BY <1>9 DEF vars, IndInv, OneRequestPerKey, Reserved
    <2>. QED  BY <2>1, <2>2, <2>3 DEF IndInv
  <1>. QED  BY <1>1, <1>2, <1>3, <1>4, <1>5, <1>6, <1>7, <1>8, <1>9 DEF Next

\* The invariant holds in every reachable state.
LEMMA Invariance == Spec => []IndInv
  BY InitHolds, StepKeeps, PTL DEF Spec

\* Every reachable state of the task tables and of the workers is well typed.
THEOREM TypeCorrect == Spec => []TypeOK
  <1>1. IndInv => TypeOK
    BY DEF IndInv
  <1>. QED  BY <1>1, Invariance, PTL

\* Never two running attempts of a task, never one without its lease: the row
\* lock, the take-over of an expired lease and the fencing tuple see to it.
THEOREM OneWorkerAtATime == Spec => []OneRunningAttempt
  <1>1. IndInv => OneRunningAttempt
    BY DEF IndInv
  <1>. QED  BY <1>1, Invariance, PTL

\* The retry budget and its counters agree with the history, whatever mix of
\* failures, expiries, take-overs and recoveries a task went through.
THEOREM BudgetIsKept == Spec => []BudgetKept
  <1>1. IndInv => BudgetKept
    BY DEF IndInv
  <1>. QED  BY <1>1, Invariance, PTL

\* Whoever acts on a reservation, however stale its lease, acts on the one
\* request the ledger of ReserveEffect holds for the key.
THEOREM OneRequestForKey == Spec => []OneRequestPerKey
  <1>1. IndInv => OneRequestPerKey
    BY DEF IndInv
  <1>. QED  BY <1>1, Invariance, PTL

-----------------------------------------------------------------------------
(***************************************************************************)
(* What a step may never do.                                               *)
(***************************************************************************)
\* The ways a step can touch a task.
Stays(t) ==
    /\ status'[t] = status[t] \/ status[t] = "absent"
    /\ attempts'[t] = attempts[t] /\ lease'[t] = lease[t]
    /\ expired[t] => expired'[t]

Completes(t) ==
    /\ lease[t] # None /\ ~expired[t]
    /\ \E st \in {"succeeded", "failed"} :
         attempts'[t] = Ended(attempts[t], lease[t].attempt, st)

TimesOut(t) ==
    /\ Recovers(t) /\ lease[t] # None /\ lease'[t] = None
    /\ attempts'[t] = Ended(attempts[t], lease[t].attempt, "timed_out")

Starts(t) ==
    /\ Claimable(t)
    /\ lease'[t] # lease[t]
    /\ \E a \in Attempts : attempts'[t] = Append(TimedOut(t), a)

\* A step leaves a task alone, completes it, times it out or starts it.
LEMMA TaskSteps ==
    ASSUME IndInv, [Next]_vars, NEW t \in Tasks
    PROVE  Stays(t) \/ Completes(t) \/ TimesOut(t) \/ Starts(t)
  <1>1. TypeOK /\ Leased(t) /\ Budgeted(t)
    BY ByTask DEF IndInv
  <1>2. ASSUME NEW w \in Workers, NEW u \in Tasks, ClaimTask(w, u)
        PROVE  Stays(t) \/ Starts(t)
    <2>1. CASE t # u
      BY <1>1, <1>2, <2>1 DEF ClaimTask, Stays, TypeOK
    <2>2. CASE t = u
      <3> DEFINE l == LeaseOf(t, w, Len(attempts[t]) + 1, generation[t] + 1)
      <3>1. lease'[t] = l /\ attempts'[t] = Append(TimedOut(t), NewAttempt(w, t)) /\ Claimable(t)
        BY <1>1, <1>2, <2>2 DEF ClaimTask, NewAttempt, TypeOK
      <3>2. Len(attempts[t]) \in Nat /\ generation[t] \in Nat /\ started[t] \in Nat
        BY <1>1, LenProperties, TaskAssumption DEF TypeOK
      <3>3. l # None
        BY <1>1, NewLease
      <3>4. l.attempt = Len(attempts[t]) + 1
        BY DEF LeaseOf
      <3>5. lease'[t] # lease[t]
        <4> HIDE DEF l
        <4>1. CASE lease[t] = None
          BY <3>1, <3>3, <4>1
        <4>2. CASE lease[t] # None
          <5>1. lease[t].attempt = Len(attempts[t])
            BY <1>1, <4>2 DEF Leased
          <5>. QED  BY <3>1, <3>2, <3>4, <5>1
        <4>. QED  BY <4>1, <4>2
      <3>6. NewAttempt(w, t) \in Attempts
        BY <3>2 DEF NewAttempt, Attempts
      <3>. QED  BY <3>1, <3>5, <3>6 DEF Starts
    <2>. QED  BY <2>1, <2>2
  <1>3. ASSUME NEW u \in Tasks, EnqueueTask(u)  PROVE Stays(t)
    BY <1>1, <1>3 DEF EnqueueTask, Stays, TypeOK
  <1>4. ASSUME NEW u \in Tasks, ClaimExhausted(u)  PROVE Stays(t) \/ TimesOut(t)
    <2>1. CASE t # u
      BY <1>1, <1>4, <2>1 DEF ClaimExhausted, ClearLease, Stays, TypeOK
    <2>2. CASE t = u
      <3>1. Recovers(t)
        <4>1. Exhausted(t) /\ Claimable(t)
          BY <1>4, <2>2 DEF ClaimExhausted
        <4>2. started[t] = MaxAttempts /\ MaxAttempts \in Nat
          BY <1>1, <4>1, BudgetCases
        <4>3. status[t] \notin {"ready", "failed"}
          BY <1>1, <4>2 DEF Budgeted
        <4>. QED  BY <4>1, <4>3 DEF Claimable
      <3>2. lease[t] # None
        BY <1>1, <3>1 DEF Recovers, Leased
      <3>. QED
        BY <1>1, <1>4, <2>2, <3>1, <3>2
           DEF ClaimExhausted, ClearLease, TimesOut, TimedOut, Ended, TypeOK
    <2>. QED  BY <2>1, <2>2
  <1>5. ASSUME NEW w \in Workers, CompleteSucceeded(w) \/ CompleteFailed(w)
        PROVE  Stays(t) \/ Completes(t)
    <2> DEFINE u == held[w].task
    <2>1. held[w] # None /\ Fenced(held[w])
      BY <1>5 DEF CompleteSucceeded, CompleteFailed
    <2>2. u \in Tasks
      BY <2>1, FenceFacts
    <2>3. lease[u] # None /\ ~expired[u]
      BY <2>1 DEF Fenced
    <2>4. PICK st \in {"succeeded", "failed"} :
            attempts' = [attempts EXCEPT ![u] = Ended(@, lease[u].attempt, st)]
      BY <1>5 DEF CompleteSucceeded, CompleteFailed, EndAttempt, Ended
    <2>5. CASE t # u
      BY <1>1, <1>5, <2>5 DEF CompleteSucceeded, CompleteFailed, EndAttempt, ClearLease, Stays, TypeOK
    <2>6. CASE t = u
      <3>1. attempts'[t] = Ended(attempts[t], lease[t].attempt, st)
        BY <1>1, <2>4, <2>6 DEF TypeOK
      <3>. QED  BY <2>3, <2>6, <3>1 DEF Completes
    <2>. QED  BY <2>5, <2>6
  <1>6. ASSUME NEW S \in SUBSET Tasks, RecoverExpiredLeases(S)  PROVE Stays(t) \/ TimesOut(t)
    <2>1. CASE t \notin S
      BY <1>6, <2>1 DEF RecoverExpiredLeases, Stays
    <2>2. CASE t \in S
      <3>1. Recovers(t)
        BY <1>6, <2>2 DEF RecoverExpiredLeases
      <3>2. lease[t] # None
        BY <1>1, <3>1 DEF Recovers, Leased
      <3>. QED
        BY <1>6, <2>2, <3>1, <3>2 DEF RecoverExpiredLeases, TimesOut, TimedOut, Ended
    <2>. QED  BY <2>1, <2>2
  <1>7. ASSUME NEW w \in Workers, HeartbeatLease(w)  PROVE Stays(t)
    BY <1>1, <1>7 DEF HeartbeatLease, Fenced, Stays, TypeOK
  <1>8. ASSUME NEW u \in Tasks, LeaseExpires(u) \/ RetryFallsDue(u)  PROVE Stays(t)
    BY <1>1, <1>8 DEF LeaseExpires, RetryFallsDue, Stays, TypeOK
  <1>9. ASSUME UNCHANGED <<taskRow, attempts>>  PROVE Stays(t)
    BY <1>9 DEF taskRow, Stays
  <1>. QED
    BY <1>2, <1>3, <1>4, <1>5, <1>6, <1>7, <1>8, <1>9
       DEF Next, vars, Forget, ReserveEffect, ReuseReservation, CommitEffect, RunEnds,
           durable, taskRow

\* Of a task's past, and of what a late worker can do to it.
Past(t) ==
    /\ status[t] \in {"succeeded", "dead_lettered"} => status'[t] = status[t]
    /\ \A i \in DOMAIN attempts[t] :
         attempts[t][i].status # "running" => attempts'[t][i] = attempts[t][i]

Late(t) ==
    lease[t] # None /\ expired[t] =>
      /\ lease'[t] = lease[t] => expired'[t]
      /\ attempts'[t][lease[t].attempt].status \in {"running", "timed_out"}

\* An attempt that is not running is not touched by the end of the lease.
LEMMA EndTouchesRunning ==
    ASSUME TypeOK, NEW t \in Tasks, Leased(t), lease[t] # None,
           NEW st \in {"succeeded", "failed", "timed_out"},
           attempts'[t] = Ended(attempts[t], lease[t].attempt, st)
    PROVE  /\ Past(t)
           /\ attempts'[t][lease[t].attempt].status = st
  <1>1. attempts[t] \in Seq(Attempts) /\ DOMAIN attempts[t] = 1..Len(attempts[t])
    BY LenProperties DEF TypeOK
  <1>2. /\ lease[t].attempt \in 1..Len(attempts[t]) /\ status[t] = "running"
        /\ \A i \in 1..Len(attempts[t]) :
             attempts[t][i].status # "running" => i # lease[t].attempt
    BY LeaseFacts
  <1> DEFINE s == attempts[t]
             n == lease[t].attempt
  <1>3. /\ Ended(s, n, st)[n].status = st
        /\ \A i \in 1..Len(s) : i # n => Ended(s, n, st)[i] = s[i]
    <2>1. s \in Seq(Attempts) /\ n \in 1..Len(s)
      BY <1>1, <1>2
    <2> HIDE DEF s, n
    <2>. QED  BY <2>1, EndedSeq
  <1>. QED  BY <1>1, <1>2, <1>3 DEF Past

\* No step rewrites an ended attempt, and none lets a late worker end one.
LEMMA TaskPast ==
    ASSUME IndInv, [Next]_vars, NEW t \in Tasks
    PROVE  Past(t) /\ Late(t)
  <1>1. TypeOK /\ Leased(t)
    BY ByTask DEF IndInv
  <1>2. attempts[t] \in Seq(Attempts) /\ DOMAIN attempts[t] = 1..Len(attempts[t])
    BY <1>1, LenProperties DEF TypeOK
  <1>3. CASE Stays(t)
    <2>1. lease[t] # None => attempts[t][lease[t].attempt].status = "running"
      BY <1>1, <1>2, LeaseFacts
    <2>. QED  BY <1>3, <2>1 DEF Stays, Past, Late
  <1>4. CASE Completes(t)
    <2>1. PICK st \in {"succeeded", "failed"} :
            attempts'[t] = Ended(attempts[t], lease[t].attempt, st)
      BY <1>4 DEF Completes
    <2>2. Past(t)
      BY <1>1, <1>4, <2>1, EndTouchesRunning DEF Completes
    <2>. QED  BY <1>4, <2>2 DEF Completes, Late
  <1>5. CASE TimesOut(t)
    <2>1. Past(t) /\ attempts'[t][lease[t].attempt].status = "timed_out"
      BY <1>1, <1>5, EndTouchesRunning DEF TimesOut
    <2>. QED  BY <1>5, <2>1 DEF TimesOut, Late
  <1>6. CASE Starts(t)
    <2>1. PICK a \in Attempts : attempts'[t] = Append(TimedOut(t), a)
      BY <1>6 DEF Starts
    <2>2. /\ TimedOut(t) \in Seq(Attempts) /\ Len(TimedOut(t)) = Len(attempts[t])
          /\ \A i \in 1..Len(attempts[t]) :
               \/ TimedOut(t)[i] = attempts[t][i]
               \/ Recovers(t) /\ i = lease[t].attempt /\ TimedOut(t)[i].status = "timed_out"
      BY <1>1, TimedOutFacts
    <2>3. \A i \in 1..Len(attempts[t]) : attempts'[t][i] = TimedOut(t)[i]
      <3> DEFINE b == TimedOut(t)
      <3>1. b \in Seq(Attempts) /\ Len(b) = Len(attempts[t])
        BY <2>2
      <3> HIDE DEF b, Attempts
      <3>2. \A i \in 1..Len(b) : Append(b, a)[i] = b[i]
        BY <3>1, AppendProperties
      <3>. QED  BY <2>1, <3>1, <3>2 DEF b
    <2>4. Recovers(t) => lease[t] # None
      BY <1>1 DEF Recovers, Leased
    <2>5. Past(t)
      <3>1. status[t] \notin {"succeeded", "dead_lettered"}
        BY <1>6 DEF Starts, Claimable, Recovers
      <3>2. \A i \in 1..Len(attempts[t]) :
              attempts[t][i].status # "running" => attempts'[t][i] = attempts[t][i]
        BY <1>1, <2>2, <2>3, <2>4, LeaseFacts
      <3>. QED  BY <1>2, <3>1, <3>2 DEF Past
    <2>6. Late(t)
      <3>1. SUFFICES ASSUME lease[t] # None
                     PROVE  attempts'[t][lease[t].attempt].status \in {"running", "timed_out"}
        BY <1>6 DEF Starts, Late
      <3>2. /\ lease[t].attempt \in 1..Len(attempts[t])
            /\ attempts[t][lease[t].attempt].status = "running"
        BY <1>1, <3>1, LeaseFacts
      <3>. QED  BY <2>2, <2>3, <3>2
    <2>. QED  BY <2>5, <2>6
  <1>. QED  BY <1>3, <1>4, <1>5, <1>6, TaskSteps

\* Of an effect's past.
EffectPast(k) ==
    effects[k] # None =>
      /\ effects'[k].task = effects[k].task
      /\ effects'[k].attempt = effects[k].attempt
      /\ effects'[k].request = effects[k].request
      /\ effects[k].status = "committed" => effects'[k] = effects[k]

\* No step changes the request of an effect or what was committed for it.
LEMMA LedgerPast ==
    ASSUME IndInv, [Next]_vars, NEW k \in EffectKeys
    PROVE  EffectPast(k)
  <1>1. ASSUME effects' = effects  PROVE EffectPast(k)
    BY <1>1 DEF EffectPast
  <1>2. ASSUME NEW w \in Workers, NEW j \in EffectKeys, NEW q \in Requests,
               ReserveEffect(w, j, q)
        PROVE  EffectPast(k)
    BY <1>2 DEF ReserveEffect, EffectPast, IndInv, TypeOK
  <1>3. ASSUME NEW w \in Workers, NEW r \in Results, CommitEffect(w, r)
        PROVE  EffectPast(k)
    <2> DEFINE j == doing[w].key
    <2>1. /\ effects[j].status = "reserved"
          /\ effects' = [effects EXCEPT ![j] = [@ EXCEPT !.status = "committed", !.result = r]]
      BY <1>3 DEF CommitEffect
    <2>2. CASE k = j
      <3>1. ASSUME effects[k] # None  PROVE effects[k] \in Effects
        BY <3>1 DEF IndInv, TypeOK
      <3>2. effects'[k] = [effects[k] EXCEPT !.status = "committed", !.result = r]
        BY <2>1, <2>2 DEF IndInv, TypeOK
      <3>. QED  BY <2>1, <2>2, <3>1, <3>2 DEF EffectPast, Effects
    <2>3. CASE k # j
      BY <2>1, <2>3 DEF IndInv, TypeOK, EffectPast
    <2>. QED  BY <2>2, <2>3
  <1>. QED
    BY <1>1, <1>2, <1>3
       DEF Next, vars, ClaimTask, EnqueueTask, ClaimExhausted, HeartbeatLease,
           CompleteSucceeded, CompleteFailed, RecoverExpiredLeases, ReuseReservation,
           LeaseExpires, RetryFallsDue, Forget, RunEnds, durable

\* No command, in time or late, rewrites what is over: terminal attempts,
\* finished tasks, committed effects and the owner of a reservation.
THEOREM HistoryIsImmutable == Spec => HistoryImmutable
  <1>1. IndInv /\ [Next]_vars =>
          [ /\ \A t \in Tasks :
                 /\ status[t] \in {"succeeded", "dead_lettered"} => status'[t] = status[t]
                 /\ \A i \in DOMAIN attempts[t] :
                      attempts[t][i].status # "running" => attempts'[t][i] = attempts[t][i]
            /\ \A k \in EffectKeys :
                 effects[k] # None =>
                   /\ effects'[k].task = effects[k].task
                   /\ effects'[k].attempt = effects[k].attempt
                   /\ effects'[k].request = effects[k].request
                   /\ effects[k].status = "committed" => effects'[k] = effects[k] ]_vars
    BY TaskPast, LedgerPast DEF Past, EffectPast
  <1>. QED  BY <1>1, Invariance, PTL DEF Spec, HistoryImmutable

\* A worker whose lease the clock has passed neither renews it nor finishes
\* the attempt: HeartbeatLease and CompleteAttempt are fenced by the expiry.
THEOREM LateWorkerIsPowerless == Spec => LateWorkerPowerless
  <1>1. IndInv /\ [Next]_vars =>
          [ \A t \in Tasks :
              lease[t] # None /\ expired[t] =>
                /\ lease'[t] = lease[t] => expired'[t]
                /\ attempts'[t][lease[t].attempt].status \in {"running", "timed_out"} ]_vars
    BY TaskPast DEF Late
  <1>. QED  BY <1>1, Invariance, PTL DEF Spec, LateWorkerPowerless

-----------------------------------------------------------------------------
(***************************************************************************)
(* What the events tell.                                                   *)
(***************************************************************************)
Quiet == {"effect.reserved", "effect.committed"}
StartTypes == {"attempt.started"}
EndTypes == {"attempt.completed", "lease.expired"}

Life(ev) == {j \in DOMAIN ev : ev[j].type \notin Quiet}

Of(ev, types, i) == {j \in Life(ev) : ev[j].type \in types /\ ev[j].attempt = i}

Says(type) == CASE type = "task.enqueued"        -> "ready"
                [] type = "attempt.started"      -> "running"
                [] type = "attempt.completed"    -> "succeeded"
                [] type = "task.retry_scheduled" -> "failed"
                [] type = "task.dead_lettered"   -> "dead_lettered"
                [] OTHER                         -> "unknown"

\* The last event of the task's life tells its status.
LastSays(ev, st) ==
    /\ (Life(ev) = {}) <=> (st = "absent")
    /\ Life(ev) # {} => \E j \in Life(ev) : (\A i \in Life(ev) : i <= j) /\ st = Says(ev[j].type)

\* Each attempt has its start and, once it is over, its end; nothing is told
\* of an attempt that does not exist.
StoryTold(ev, at) ==
    /\ \A j \in Life(ev) : ev[j].type \in StartTypes \cup EndTypes => ev[j].attempt \in DOMAIN at
    /\ \A i \in DOMAIN at :
         /\ \E k : Of(ev, StartTypes, i) = {k}
         /\ at[i].status = "running" => Of(ev, EndTypes, i) = {}
         /\ at[i].status # "running" => \E k : Of(ev, EndTypes, i) = {k}

\* ev2 is ev and one more event e, at place n.
Longer(ev, e, ev2, n) ==
    /\ ev2 \in Seq(EventRows) /\ n \notin DOMAIN ev /\ n \in Nat
    /\ DOMAIN ev2 = DOMAIN ev \cup {n} /\ ev2[n] = e
    /\ \A j \in DOMAIN ev : ev2[j] = ev[j] /\ j < n /\ j \in Nat
    /\ e.type \in Quiet => Life(ev2) = Life(ev)
    /\ e.type \notin Quiet => Life(ev2) = Life(ev) \cup {n}
    /\ \A types, i : Of(ev2, types, i) =
         IF e.type \notin Quiet /\ e.type \in types /\ e.attempt = i
           THEN Of(ev, types, i) \cup {n} ELSE Of(ev, types, i)
    /\ Life(ev) \subseteq DOMAIN ev

\* A log with one more row has the rows it had and the new one behind them.
LEMMA OneMore ==
    ASSUME NEW ev \in Seq(EventRows), NEW e \in EventRows, NEW ev2, ev2 = Append(ev, e)
    PROVE  Longer(ev, e, ev2, Len(ev) + 1)
  <1> HIDE DEF EventRows
  <1>1. /\ ev2 \in Seq(EventRows) /\ Len(ev) + 1 \notin DOMAIN ev
        /\ DOMAIN ev2 = DOMAIN ev \cup {Len(ev) + 1} /\ ev2[Len(ev) + 1] = e
        /\ \A j \in DOMAIN ev : ev2[j] = ev[j] /\ j < Len(ev) + 1 /\ j \in Nat
    <2>1. DOMAIN ev = 1 .. Len(ev) /\ Len(ev) \in Nat
      BY LenProperties
    <2>2. /\ ev2 \in Seq(EventRows) /\ Len(ev2) = Len(ev) + 1 /\ ev2[Len(ev) + 1] = e
          /\ \A j \in 1 .. Len(ev) : ev2[j] = ev[j]
      BY AppendProperties
    <2>3. DOMAIN ev2 = 1 .. Len(ev) + 1
      BY <2>2, LenProperties
    <2>. QED  BY <2>1, <2>2, <2>3
  <1>2. PICK n : n = Len(ev) + 1
    OBVIOUS
  <1>3. /\ n \notin DOMAIN ev /\ DOMAIN ev2 = DOMAIN ev \cup {n} /\ ev2[n] = e
        /\ \A j \in DOMAIN ev : ev2[j] = ev[j]
    BY <1>1, <1>2
  <1>4. e.type \in Quiet => Life(ev2) = Life(ev)
    BY ONLY <1>3 DEF Life
  <1>5. e.type \notin Quiet => Life(ev2) = Life(ev) \cup {n}
    BY ONLY <1>3 DEF Life
  <1>6. ASSUME NEW types, NEW i
        PROVE  Of(ev2, types, i) =
                IF e.type \notin Quiet /\ e.type \in types /\ e.attempt = i
                  THEN Of(ev, types, i) \cup {n} ELSE Of(ev, types, i)
    <2>1. \A j \in Life(ev) : j \in DOMAIN ev /\ ev2[j] = ev[j]
      BY ONLY <1>3 DEF Life
    <2>. QED  BY ONLY <1>3, <1>4, <1>5, <2>1 DEF Of
  <1>7. Life(ev) \subseteq DOMAIN ev /\ n \in Nat
    BY <1>2, LenProperties DEF Life
  <1>8. Longer(ev, e, ev2, n)
    BY <1>1, <1>2, <1>4, <1>5, <1>6, <1>7 DEF Longer
  <1>. QED  BY <1>2, <1>8

\* An event about an effect, or about the task and not an attempt.
LEMMA StoryQuiet ==
    ASSUME NEW ev \in Seq(EventRows), NEW e \in EventRows, NEW at, StoryTold(ev, at),
           e.type \notin StartTypes \cup EndTypes
    PROVE  StoryTold(Append(ev, e), at)
  <1>1. PICK ev2, n : ev2 = Append(ev, e) /\ n = Len(ev) + 1
    OBVIOUS
  <1>2. /\ \A types, i : types \in {StartTypes, EndTypes} => Of(ev2, types, i) = Of(ev, types, i)
        /\ \A j \in DOMAIN ev : ev2[j] = ev[j] /\ ev2[n] = e
        /\ Life(ev2) \subseteq Life(ev) \cup {n} /\ Life(ev) \subseteq DOMAIN ev
    <2>1. Longer(ev, e, ev2, Len(ev) + 1)
      BY <1>1, OneMore
    <2>. QED  BY ONLY <1>1, <2>1, e.type \notin StartTypes \cup EndTypes DEF Longer
  <1>3. \A i : Of(ev2, StartTypes, i) = Of(ev, StartTypes, i) /\ Of(ev2, EndTypes, i) = Of(ev, EndTypes, i)
    BY <1>2
  <1>4. \A j \in Life(ev2) : ev2[j].type \in StartTypes \cup EndTypes => ev2[j].attempt \in DOMAIN at
    <2>1. ev2[n] = e
      BY <1>1, OneMore DEF Longer
    <2>. QED  BY <1>2, <2>1 DEF StoryTold
  <1>5. StoryTold(ev2, at)
    BY ONLY <1>3, <1>4, StoryTold(ev, at) DEF StoryTold
  <1>. QED  BY <1>1, <1>5

\* A row that tells of no change of status leaves the last word as it was.
LEMMA LastQuiet ==
    ASSUME NEW ev \in Seq(EventRows), NEW e \in EventRows, NEW st, LastSays(ev, st), e.type \in Quiet
    PROVE  LastSays(Append(ev, e), st)
  <1>1. PICK ev2 : ev2 = Append(ev, e)
    OBVIOUS
  <1>2. Life(ev2) = Life(ev) /\ \A j \in Life(ev) : ev2[j] = ev[j]
    <2>1. Longer(ev, e, ev2, Len(ev) + 1)
      BY <1>1, OneMore
    <2>. QED  BY ONLY <1>1, <2>1, e.type \in Quiet DEF Longer
  <1>3. LastSays(ev2, st)
    BY ONLY <1>2, LastSays(ev, st) DEF LastSays
  <1>. QED  BY <1>1, <1>3

\* A row that tells of one becomes the last word.
LEMMA LastLife ==
    ASSUME NEW ev \in Seq(EventRows), NEW e \in EventRows, e.type \notin Quiet,
           Says(e.type) # "absent"
    PROVE  LastSays(Append(ev, e), Says(e.type))
  <1>1. PICK ev2, n : ev2 = Append(ev, e) /\ n = Len(ev) + 1
    OBVIOUS
  <1>2. Life(ev2) = Life(ev) \cup {n} /\ ev2[n] = e /\ \A j \in Life(ev) : j < n /\ j \in Nat
    <2>1. Longer(ev, e, ev2, Len(ev) + 1)
      BY <1>1, OneMore
    <2>. QED  BY ONLY <1>1, <2>1, e.type \notin Quiet DEF Longer
  <1>3. n \in Nat
    BY <1>1, LenProperties
  <1>4. \A j \in Life(ev2) : j <= n
    BY <1>2, <1>3
  <1>5. LastSays(ev2, Says(e.type))
    BY <1>2, <1>4 DEF LastSays
  <1>. QED  BY <1>1, <1>5

\* The start of the next attempt.
LEMMA StoryStart ==
    ASSUME NEW ev \in Seq(EventRows), NEW e \in EventRows, NEW at \in Seq(Attempts), StoryTold(ev, at),
           NEW a \in Attempts, a.status = "running",
           e.type = "attempt.started", e.attempt = Len(at) + 1
    PROVE  StoryTold(Append(ev, e), Append(at, a))
  <1>1. PICK ev2, n, at2, m : /\ ev2 = Append(ev, e) /\ n = Len(ev) + 1
                              /\ at2 = Append(at, a) /\ m = Len(at) + 1
    OBVIOUS
  <1>2. /\ DOMAIN at2 = DOMAIN at \cup {m} /\ m \notin DOMAIN at /\ at2[m] = a
        /\ \A i \in DOMAIN at : at2[i] = at[i]
    <2> HIDE DEF Attempts
    <2>1. DOMAIN at = 1 .. Len(at) /\ Len(at) \in Nat
      BY LenProperties
    <2>2. at2 \in Seq(Attempts) /\ Len(at2) = m /\ at2[m] = a /\ \A j \in 1 .. Len(at) : at2[j] = at[j]
      BY <1>1, AppendProperties
    <2>3. DOMAIN at2 = 1 .. m
      BY <2>2, LenProperties
    <2>. QED  BY <1>1, <2>1, <2>2, <2>3
  <1>3. /\ e.type \notin Quiet /\ e.type \in StartTypes /\ e.type \notin EndTypes
        /\ Life(ev) \subseteq DOMAIN ev
    BY DEF Quiet, StartTypes, EndTypes, Life
  <1>4. /\ Life(ev2) = Life(ev) \cup {n} /\ ev2[n] = e /\ \A j \in Life(ev) : ev2[j] = ev[j]
        /\ \A i : Of(ev2, EndTypes, i) = Of(ev, EndTypes, i)
        /\ \A i : Of(ev2, StartTypes, i) =
                    IF i = m THEN Of(ev, StartTypes, i) \cup {n} ELSE Of(ev, StartTypes, i)
    <2>1. Longer(ev, e, ev2, Len(ev) + 1)
      BY <1>1, OneMore
    <2>2. e.attempt = m
      BY <1>1
    <2>. QED  BY ONLY <1>1, <1>3, <2>1, <2>2 DEF Longer
  <1>5. Of(ev, StartTypes, m) = {} /\ Of(ev, EndTypes, m) = {}
    BY <1>2 DEF Of, StoryTold
  <1>6. \A j \in Life(ev2) : ev2[j].type \in StartTypes \cup EndTypes => ev2[j].attempt \in DOMAIN at2
    BY <1>1, <1>2, <1>4 DEF StoryTold
  <1>7. ASSUME NEW i \in DOMAIN at2
        PROVE  /\ \E k : Of(ev2, StartTypes, i) = {k}
               /\ at2[i].status = "running" => Of(ev2, EndTypes, i) = {}
               /\ at2[i].status # "running" => \E k : Of(ev2, EndTypes, i) = {k}
    <2>1. CASE i = m
      <3>1. Of(ev2, StartTypes, i) = {n} /\ Of(ev2, EndTypes, i) = {} /\ at2[i].status = "running"
        BY <1>2, <1>4, <1>5, <2>1
      <3>. QED  BY <3>1
    <2>2. CASE i # m
      <3>1. i \in DOMAIN at /\ at2[i] = at[i]
        BY <1>2, <2>2
      <3>2. Of(ev2, StartTypes, i) = Of(ev, StartTypes, i) /\ Of(ev2, EndTypes, i) = Of(ev, EndTypes, i)
        BY <1>4, <2>2
      <3>. QED  BY ONLY <3>1, <3>2, StoryTold(ev, at) DEF StoryTold
    <2>. QED  BY <2>1, <2>2
  <1>8. StoryTold(ev2, at2)
    BY ONLY <1>6, <1>7 DEF StoryTold
  <1>. QED  BY <1>1, <1>8

\* The end of the running attempt.
LEMMA StoryEnd ==
    ASSUME NEW ev \in Seq(EventRows), NEW e \in EventRows, NEW at \in Seq(Attempts), StoryTold(ev, at),
           NEW m \in 1 .. Len(at), at[m].status = "running",
           NEW st \in {"succeeded", "failed", "timed_out"},
           e.type \in EndTypes, e.attempt = m
    PROVE  StoryTold(Append(ev, e), Ended(at, m, st))
  <1>1. PICK ev2, n, at2 : ev2 = Append(ev, e) /\ n = Len(ev) + 1 /\ at2 = Ended(at, m, st)
    OBVIOUS
  <1>2. /\ DOMAIN at2 = DOMAIN at /\ m \in DOMAIN at /\ at2[m].status # "running"
        /\ \A i \in DOMAIN at : i # m => at2[i] = at[i]
    <2>1. DOMAIN at = 1 .. Len(at)
      BY LenProperties
    <2>. QED  BY <1>1, <2>1, EndedSeq
  <1>3. /\ e.type \notin Quiet /\ e.type \notin StartTypes /\ Life(ev) \subseteq DOMAIN ev
    BY DEF Quiet, StartTypes, EndTypes, Life
  <1>4. /\ Life(ev2) = Life(ev) \cup {n} /\ ev2[n] = e /\ \A j \in Life(ev) : ev2[j] = ev[j]
        /\ \A i : Of(ev2, StartTypes, i) = Of(ev, StartTypes, i)
        /\ \A i : Of(ev2, EndTypes, i) =
                    IF i = m THEN Of(ev, EndTypes, i) \cup {n} ELSE Of(ev, EndTypes, i)
    <2>1. Longer(ev, e, ev2, Len(ev) + 1)
      BY <1>1, OneMore
    <2>2. e.attempt = m /\ e.type \in EndTypes
      OBVIOUS
    <2>. QED  BY ONLY <1>1, <1>3, <2>1, <2>2 DEF Longer
  <1>5. Of(ev, EndTypes, m) = {}
    BY <1>2 DEF StoryTold
  <1>6. \A j \in Life(ev2) : ev2[j].type \in StartTypes \cup EndTypes => ev2[j].attempt \in DOMAIN at2
    BY <1>2, <1>4 DEF StoryTold
  <1>7. ASSUME NEW i \in DOMAIN at2
        PROVE  /\ \E k : Of(ev2, StartTypes, i) = {k}
               /\ at2[i].status = "running" => Of(ev2, EndTypes, i) = {}
               /\ at2[i].status # "running" => \E k : Of(ev2, EndTypes, i) = {k}
    <2>1. CASE i = m
      <3>1. Of(ev2, EndTypes, i) = {n} /\ at2[i].status # "running"
        BY <1>2, <1>4, <1>5, <2>1
      <3>2. \E k : Of(ev2, StartTypes, i) = {k}
        BY <1>2, <1>4, <2>1 DEF StoryTold
      <3>. QED  BY <3>1, <3>2
    <2>2. CASE i # m
      <3>1. i \in DOMAIN at /\ at2[i] = at[i]
        BY <1>2, <2>2
      <3>2. Of(ev2, StartTypes, i) = Of(ev, StartTypes, i) /\ Of(ev2, EndTypes, i) = Of(ev, EndTypes, i)
        BY <1>4, <2>2
      <3>. QED  BY ONLY <3>1, <3>2, StoryTold(ev, at) DEF StoryTold
    <2>. QED  BY <2>1, <2>2
  <1>8. StoryTold(ev2, at2)
    BY ONLY <1>6, <1>7 DEF StoryTold
  <1>. QED  BY <1>1, <1>8

Told(ev, st, at) == LastSays(ev, st) /\ StoryTold(ev, at)

\* Appending a row to a single row makes the pair.
LEMMA Pairs ==
    ASSUME NEW S, NEW e \in S, NEW f \in S
    PROVE  Append(<<e>>, f) = <<e, f>>
  <1>1. <<e>> \in Seq(S) /\ <<e, f>> \in Seq(S)
    OBVIOUS
  <1>2. Len(<<e>>) = 1 /\ <<e>>[1] = e /\ Len(<<e, f>>) = 2 /\ <<e, f>>[1] = e /\ <<e, f>>[2] = f
    OBVIOUS
  <1>3. PICK u, v, w : u = <<e>> /\ v = <<e, f>> /\ w = Append(u, f)
    OBVIOUS
  <1>4. u \in Seq(S) /\ v \in Seq(S) /\ Len(u) = 1 /\ Len(v) = 2 /\ u[1] = e /\ v[1] = e /\ v[2] = f
    BY <1>1, <1>2, <1>3
  <1>5. /\ w \in Seq(S) /\ Len(w) = Len(u) + 1 /\ w[Len(u) + 1] = f
        /\ \A i \in 1 .. Len(u) : w[i] = u[i]
    BY ONLY <1>3, <1>4, f \in S, AppendProperties
  <1>6. Len(w) = 2 /\ w[1] = e /\ w[2] = f
    BY ONLY <1>4, <1>5
  <1>7. \A i \in 1 .. 2 : w[i] = v[i]
    BY ONLY <1>4, <1>6
  <1>8. w = v
    BY ONLY <1>4, <1>5, <1>6, <1>7, SeqEqual
  <1>. QED  BY <1>3, <1>8

\* Concatenating one or two items is appending them in turn.
LEMMA AnyConcats ==
    ASSUME NEW S, NEW ev \in Seq(S), NEW e \in S, NEW f \in S
    PROVE  /\ ev \o <<e>> = Append(ev, e) /\ ev \o <<e, f>> = Append(Append(ev, e), f)
           /\ Append(<<>>, e) = <<e>> /\ Append(<<e>>, f) = <<e, f>>
           /\ Append(ev, e) \in Seq(S)
  <1>1. ev \o <<e>> = Append(ev, e) /\ Append(ev, e) \in Seq(S)
    OBVIOUS
  <1>2. PICK mid \in Seq(S) : mid = Append(ev, e)
    BY <1>1
  <1>3. Append(<<>>, e) = <<e>>
    OBVIOUS
  <1>4. Append(<<e>>, f) = <<e, f>>
    BY Pairs
  <1>5. mid \o <<f>> = Append(mid, f)
    OBVIOUS
  <1>6. <<e>> \in Seq(S) /\ <<f>> \in Seq(S)
    OBVIOUS
  <1>7. <<e>> \o <<f>> = <<e, f>>
    BY <1>4, <1>6, AppendIsConcat
  <1>8. (ev \o <<e>>) \o <<f>> = ev \o (<<e>> \o <<f>>)
    BY <1>6, ConcatAssociative
  <1>9. ev \o <<e, f>> = Append(Append(ev, e), f)
    BY <1>1, <1>2, <1>5, <1>7, <1>8
  <1>. QED  BY <1>1, <1>3, <1>4, <1>9

\* The same for event rows.
LEMMA Concats ==
    ASSUME NEW ev \in Seq(EventRows), NEW e \in EventRows, NEW f \in EventRows
    PROVE  /\ ev \o <<e>> = Append(ev, e) /\ ev \o <<e, f>> = Append(Append(ev, e), f)
           /\ Append(<<>>, e) = <<e>> /\ Append(<<e>>, f) = <<e, f>>
           /\ Append(ev, e) \in Seq(EventRows)
  <1>1. PICK S : S = EventRows
    OBVIOUS
  <1>2. ev \in Seq(S) /\ e \in S /\ f \in S
    BY <1>1
  <1>3. /\ ev \o <<e>> = Append(ev, e) /\ ev \o <<e, f>> = Append(Append(ev, e), f)
        /\ Append(<<>>, e) = <<e>> /\ Append(<<e>>, f) = <<e, f>>
        /\ Append(ev, e) \in Seq(S)
    BY ONLY <1>2, AnyConcats
  <1>. QED  BY <1>1, <1>3

\* A log that tells a task still does after a quiet row, and after an enqueue
\* tells of a ready task.
LEMMA ToldOne ==
    ASSUME NEW ev \in Seq(EventRows), NEW e \in EventRows, NEW st, NEW at, Told(ev, st, at)
    PROVE  /\ e.type \in Quiet => Told(ev \o <<e>>, st, at)
           /\ e.type = "task.enqueued" => Told(ev \o <<e>>, "ready", at)
  <1>1. ev \o <<e>> = Append(ev, e)
    BY Concats
  <1>2. ASSUME e.type \in Quiet PROVE Told(Append(ev, e), st, at)
    <2>1. e.type \notin StartTypes \cup EndTypes
      BY <1>2 DEF Quiet, StartTypes, EndTypes
    <2>. QED  BY <1>2, <2>1, StoryQuiet, LastQuiet DEF Told
  <1>3. ASSUME e.type = "task.enqueued" PROVE Told(Append(ev, e), "ready", at)
    <2>1. e.type \notin StartTypes \cup EndTypes /\ e.type \notin Quiet /\ Says(e.type) = "ready"
      BY <1>3 DEF Quiet, StartTypes, EndTypes, Says
    <2>. QED  BY <2>1, StoryQuiet, LastLife DEF Told
  <1>. QED  BY <1>1, <1>2, <1>3

\* A completion row tells of the success of the attempt that ran.
LEMMA ToldSuccess ==
    ASSUME NEW ev \in Seq(EventRows), NEW e \in EventRows, NEW st, NEW at \in Seq(Attempts),
           Told(ev, st, at), NEW m \in 1 .. Len(at), at[m].status = "running",
           e.type = "attempt.completed", e.attempt = m
    PROVE  Told(ev \o <<e>>, "succeeded", Ended(at, m, "succeeded"))
  <1>1. ev \o <<e>> = Append(ev, e)
    BY Concats
  <1>2. e.type \in EndTypes /\ e.type \notin Quiet /\ Says(e.type) = "succeeded"
    BY DEF Quiet, EndTypes, Says
  <1>3. StoryTold(Append(ev, e), Ended(at, m, "succeeded"))
    BY <1>2, StoryEnd DEF Told
  <1>4. LastSays(Append(ev, e), "succeeded")
    BY <1>2, LastLife
  <1>. QED  BY <1>1, <1>3, <1>4 DEF Told

\* A failure or time-out row and the row of what follows it tell both.
LEMMA ToldEnd ==
    ASSUME NEW ev \in Seq(EventRows), NEW e \in EventRows, NEW f \in EventRows, NEW old,
           NEW at \in Seq(Attempts), Told(ev, old, at), NEW m \in 1 .. Len(at),
           at[m].status = "running", NEW st \in {"failed", "timed_out"},
           e.type \in EndTypes, e.attempt = m, f.type \in {"task.retry_scheduled", "task.dead_lettered"}
    PROVE  Told(ev \o <<e, f>>, Says(f.type), Ended(at, m, st))
  <1>1. PICK mid \in Seq(EventRows) : mid = Append(ev, e) /\ ev \o <<e, f>> = Append(mid, f)
    BY Concats
  <1>2. StoryTold(mid, Ended(at, m, st))
    BY <1>1, StoryEnd DEF Told
  <1>3. f.type \notin StartTypes \cup EndTypes /\ f.type \notin Quiet /\ Says(f.type) # "absent"
    BY DEF Quiet, StartTypes, EndTypes, Says
  <1>4. StoryTold(Append(mid, f), Ended(at, m, st)) /\ LastSays(Append(mid, f), Says(f.type))
    BY <1>2, <1>3, StoryQuiet, LastLife
  <1>. QED  BY <1>1, <1>4 DEF Told

\* A start row tells of a running task with one attempt more.
LEMMA ToldStart ==
    ASSUME NEW ev \in Seq(EventRows), NEW f \in EventRows, NEW at \in Seq(Attempts),
           StoryTold(ev, at), NEW a \in Attempts, a.status = "running",
           f.type = "attempt.started", f.attempt = Len(at) + 1
    PROVE  Told(Append(ev, f), "running", Append(at, a))
  <1>1. f.type \notin Quiet /\ Says(f.type) = "running"
    BY DEF Quiet, Says
  <1>2. LastSays(Append(ev, f), "running")
    BY <1>1, LastLife
  <1>. QED  BY <1>2, StoryStart DEF Told

TellsTask(t) == Told(events[t], status[t], attempts[t])

\* A step that leaves the task, its history and its events alone.
LEMMA ToldStays ==
    ASSUME NEW t \in Tasks, TellsTask(t), events'[t] = events[t], status'[t] = status[t],
           attempts'[t] = attempts[t]
    PROVE  TellsTask(t)'
  BY DEF TellsTask

\* What an expired lease leaves to tell.
LEMMA TakenTold ==
    ASSUME TypeOK, NEW t \in Tasks, Leased(t), TellsTask(t), Recovers(t),
           NEW f \in EventRows, f.type \in {"task.retry_scheduled", "task.dead_lettered"}
    PROVE  Told(events[t] \o Append(Taken(t), f), Says(f.type), TimedOut(t))
  <1>1. PICK ev \in Seq(EventRows), at \in Seq(Attempts), st \in {status[t]}, m \in {lease[t].attempt} :
           ev = events[t] /\ at = attempts[t] /\ st = status[t] /\ m = lease[t].attempt
    BY DEF TypeOK, EventRows
  <1>2. lease[t] # None
    BY DEF Recovers, Leased
  <1>3. m \in 1 .. Len(at) /\ at[m].status = "running" /\ m \in Nat
    BY <1>1, <1>2, LeaseFacts
  <1>4. PICK e \in EventRows : e = Event("lease.expired", m)
    BY <1>3, EventRow DEF EventTypes
  <1>5. e.type \in EndTypes /\ e.attempt = m
    BY <1>4 DEF Event, EndTypes
  <1>6. Append(Taken(t), f) = <<e, f>>
    <2>1. Taken(t) = <<e>>
      BY <1>1, <1>4 DEF Taken
    <2>2. Append(<<e>>, f) = <<e, f>>
      BY ONLY ev \in Seq(EventRows), e \in EventRows, f \in EventRows, Concats
    <2>. QED  BY <2>1, <2>2
  <1>7. TimedOut(t) = Ended(at, m, "timed_out")
    BY <1>1 DEF TimedOut, Ended
  <1>8. Told(ev, st, at)
    BY <1>1 DEF TellsTask
  <1>9. Told(ev \o <<e, f>>, Says(f.type), Ended(at, m, "timed_out"))
    BY ONLY <1>3, <1>5, <1>8, ToldEnd, ev \in Seq(EventRows), e \in EventRows, f \in EventRows,
            at \in Seq(Attempts), f.type \in {"task.retry_scheduled", "task.dead_lettered"}
  <1>. QED  BY <1>1, <1>6, <1>7, <1>9

\* The rows of a claim tell of the attempt it timed out, if any, and of the
\* one it started.
LEMMA ClaimTold ==
    ASSUME TypeOK, NEW t \in Tasks, Leased(t), TellsTask(t),
           NEW f \in EventRows, f.type = "attempt.started", f.attempt = Len(attempts[t]) + 1,
           NEW a \in Attempts, a.status = "running"
    PROVE  Told(events[t] \o Append(Taken(t), f), "running", Append(TimedOut(t), a))
  <1>1. PICK ev \in Seq(EventRows), at \in Seq(Attempts), m \in {lease[t].attempt} :
           ev = events[t] /\ at = attempts[t] /\ m = lease[t].attempt
    BY DEF TypeOK, EventRows
  <1>2. StoryTold(ev, at)
    BY <1>1 DEF TellsTask, Told
  <1>3. CASE ~Recovers(t)
    <2>1. ev \o Append(Taken(t), f) = Append(ev, f) /\ TimedOut(t) = at
      BY <1>1, <1>3, Concats DEF Taken, TimedOut
    <2>2. f.attempt = Len(at) + 1
      BY <1>1
    <2>. QED  BY <1>1, <1>2, <2>1, <2>2, ToldStart
  <1>4. CASE Recovers(t)
    <2>1. m \in 1 .. Len(at) /\ at[m].status = "running" /\ m \in Nat
      BY <1>1, <1>4, LeaseFacts DEF Recovers, Leased
    <2>2. PICK e \in EventRows : e = Event("lease.expired", m)
      BY <2>1, EventRow DEF EventTypes
    <2>3. e.type \in EndTypes /\ e.attempt = m
      BY <2>2 DEF Event, EndTypes
    <2>4. PICK mid \in Seq(EventRows) : mid = Append(ev, e) /\ ev \o <<e, f>> = Append(mid, f)
      BY Concats
    <2>5. Append(Taken(t), f) = <<e, f>>
      <3>1. Taken(t) = <<e>>
        BY <1>1, <1>4, <2>2 DEF Taken
      <3>2. Append(<<e>>, f) = <<e, f>>
        BY ONLY ev \in Seq(EventRows), e \in EventRows, f \in EventRows, Concats
      <3>. QED  BY <3>1, <3>2
    <2>6. PICK over : over = Ended(at, m, "timed_out")
      OBVIOUS
    <2>7. over \in Seq(Attempts) /\ Len(over) = Len(at) /\ TimedOut(t) = over
      <3>1. TimedOut(t) = over
        BY <1>1, <1>4, <2>6 DEF TimedOut, Ended
      <3>. QED  BY <2>1, <2>6, <3>1, EndedSeq
    <2>8. StoryTold(mid, over)
      BY <1>2, <2>1, <2>3, <2>4, <2>6, StoryEnd
    <2>9. f.attempt = Len(over) + 1
      BY <1>1, <2>7
    <2>10. Told(Append(mid, f), "running", Append(over, a))
      BY <2>7, <2>8, <2>9, ToldStart
    <2>. QED  BY <1>1, <2>4, <2>5, <2>7, <2>10
  <1>. QED  BY <1>3, <1>4

\* Each step goes on telling each task as it is.
LEMMA StepTells ==
    ASSUME IndInv, [Next]_vars, NEW t \in Tasks, TellsTask(t)
    PROVE  TellsTask(t)'
  <1>1. /\ TypeOK /\ Leased(t) /\ Budgeted(t) /\ events \in [Tasks -> Seq(EventRows)]
        /\ attempts \in [Tasks -> Seq(Attempts)] /\ events[t] \in Seq(EventRows)
        /\ attempts[t] \in Seq(Attempts) /\ Len(attempts[t]) \in Nat
        /\ Told(events[t], status[t], attempts[t])
    BY ByTask, LenProperties DEF IndInv, TypeOK, EventRows, TellsTask
  <1>2. ASSUME NEW w \in Workers, NEW u \in Tasks, ClaimTask(w, u)  PROVE TellsTask(t)'
    <2>1. CASE t # u
      BY <1>1, <1>2, <2>1, ToldStays DEF ClaimTask, Emit, TypeOK
    <2>2. CASE t = u
      <3>1. PICK f, a : f = Event("attempt.started", Len(attempts[t]) + 1) /\ a = NewAttempt(w, t)
        OBVIOUS
      <3>2. /\ events'[t] = events[t] \o Append(Taken(t), f) /\ status'[t] = "running"
            /\ attempts'[t] = Append(TimedOut(t), a)
        BY <1>1, <1>2, <2>2, <3>1 DEF ClaimTask, Emit, NewAttempt, TypeOK
      <3>3. f \in EventRows /\ f.type = "attempt.started" /\ f.attempt = Len(attempts[t]) + 1
        BY <1>1, <3>1, EventRow DEF EventTypes, Event
      <3>4. a \in Attempts /\ a.status = "running"
        BY SMTT(30), <1>1, <3>1, TaskAssumption DEF NewAttempt, Attempts, TypeOK
      <3>5. Told(events[t] \o Append(Taken(t), f), "running", Append(TimedOut(t), a))
        BY <1>1, <3>3, <3>4, ClaimTold
      <3>. QED  BY <3>2, <3>5 DEF TellsTask
    <2>. QED  BY <2>1, <2>2
  <1>3. ASSUME NEW u \in Tasks, EnqueueTask(u)  PROVE TellsTask(t)'
    <2>1. CASE t # u
      BY <1>1, <1>3, <2>1, ToldStays DEF EnqueueTask, Emit, TypeOK
    <2>2. CASE t = u
      <3>1. PICK e \in EventRows : e = Event("task.enqueued", 0)
        BY EventRow DEF EventTypes
      <3>2. events'[t] = events[t] \o <<e>> /\ status'[t] = "ready" /\ attempts' = attempts
        BY <1>1, <1>3, <2>2, <3>1 DEF EnqueueTask, Emit, TypeOK
      <3>3. e.type = "task.enqueued"
        BY <3>1 DEF Event
      <3>. QED  BY <1>1, <3>2, <3>3, ToldOne DEF TellsTask
    <2>. QED  BY <2>1, <2>2
  <1>4. ASSUME NEW u \in Tasks, ClaimExhausted(u)  PROVE TellsTask(t)'
    <2>1. CASE t # u
      BY <1>1, <1>4, <2>1, ToldStays DEF ClaimExhausted, Emit, TypeOK
    <2>2. CASE t = u
      <3>1. Recovers(t)
        <4>1. Exhausted(t) /\ Claimable(t)
          BY <1>4, <2>2 DEF ClaimExhausted
        <4>2. started[t] = MaxAttempts /\ MaxAttempts \in Nat
          BY <1>1, <4>1, BudgetCases
        <4>3. status[t] \notin {"ready", "failed"}
          BY <1>1, <4>2 DEF Budgeted
        <4>. QED  BY <4>1, <4>3 DEF Claimable
      <3>2. lease[t] # None /\ lease[t].attempt \in Nat
        BY <1>1, <3>1 DEF Recovers, Leased, TypeOK, Leases
      <3>3. PICK f \in EventRows : f = Event("task.dead_lettered", lease[t].attempt)
        BY <3>2, EventRow DEF EventTypes
      <3>4. /\ events'[t] = events[t] \o Append(Taken(t), f) /\ status'[t] = "dead_lettered"
            /\ attempts'[t] = TimedOut(t)
        BY <1>1, <1>4, <2>2, <3>2, <3>3 DEF ClaimExhausted, Emit, TypeOK
      <3>5. f.type = "task.dead_lettered" /\ Says(f.type) = "dead_lettered"
        BY <3>3 DEF Event, Says
      <3>6. Told(events[t] \o Append(Taken(t), f), Says(f.type), TimedOut(t))
        BY <1>1, <3>1, <3>5, TakenTold
      <3>. QED  BY <3>4, <3>5, <3>6 DEF TellsTask
    <2>. QED  BY <2>1, <2>2
  <1>5. ASSUME NEW w \in Workers, CompleteSucceeded(w) \/ CompleteFailed(w)  PROVE TellsTask(t)'
    <2>1. PICK u, m : u = held[w].task /\ m = held[w].attempt
      OBVIOUS
    <2>2. held[w] # None /\ Fenced(held[w])
      BY <1>5 DEF CompleteSucceeded, CompleteFailed
    <2>3. u \in Tasks /\ lease[u] = held[w] /\ lease[u] # None
      BY <2>1, <2>2, FenceFacts DEF Fenced
    <2>4. CASE t # u
      BY <1>1, <1>5, <2>1, <2>4, ToldStays
         DEF CompleteSucceeded, CompleteFailed, EndAttempt, Emit, TypeOK
    <2>5. CASE t = u
      <3>1. lease[t].attempt = m /\ m \in 1 .. Len(attempts[t]) /\ m \in Nat
              /\ attempts[t][m].status = "running"
        BY <1>1, <2>1, <2>3, <2>5, LeaseFacts
      <3>2. PICK e \in EventRows : e = Event("attempt.completed", m)
        BY <3>1, EventRow DEF EventTypes
      <3>3. e.type = "attempt.completed" /\ e.attempt = m /\ e.type \in EndTypes
        BY <3>2 DEF Event, EndTypes
      <3>4. CASE CompleteSucceeded(w)
        <4>1. /\ events'[t] = events[t] \o <<e>> /\ status'[t] = "succeeded"
              /\ attempts'[t] = Ended(attempts[t], m, "succeeded")
          BY <1>1, <2>1, <2>3, <2>5, <3>1, <3>2, <3>4
             DEF CompleteSucceeded, EndAttempt, Emit, Ended, TypeOK
        <4>. QED  BY <1>1, <3>1, <3>3, <4>1, ToldSuccess DEF TellsTask
      <3>5. CASE CompleteFailed(w)
        <4>1. PICK f \in EventRows :
                f = Event(IF ~Exhausted(t) THEN "task.retry_scheduled" ELSE "task.dead_lettered", m)
          BY <3>1, EventRow DEF EventTypes
        <4>2. /\ f.type \in {"task.retry_scheduled", "task.dead_lettered"}
              /\ Says(f.type) = IF ~Exhausted(t) THEN "failed" ELSE "dead_lettered"
          BY <4>1 DEF Event, Says
        <4>3. /\ events'[t] = events[t] \o <<e, f>> /\ status'[t] = Says(f.type)
              /\ attempts'[t] = Ended(attempts[t], m, "failed")
          BY <1>1, <2>1, <2>3, <2>5, <3>1, <3>2, <3>5, <4>1, <4>2
             DEF CompleteFailed, EndAttempt, Emit, Ended, TypeOK
        <4>4. Told(events[t] \o <<e, f>>, Says(f.type), Ended(attempts[t], m, "failed"))
          BY <1>1, <3>1, <3>3, <4>2, ToldEnd
        <4>. QED  BY <4>3, <4>4 DEF TellsTask
      <3>. QED  BY <1>5, <3>4, <3>5
    <2>. QED  BY <2>4, <2>5
  <1>6. ASSUME NEW S \in SUBSET Tasks, RecoverExpiredLeases(S)  PROVE TellsTask(t)'
    <2>1. CASE t \notin S
      BY <1>6, <2>1, ToldStays DEF RecoverExpiredLeases
    <2>2. CASE t \in S
      <3>1. Recovers(t)
        BY <1>6, <2>2 DEF RecoverExpiredLeases
      <3>2. lease[t] # None /\ lease[t].attempt \in Nat
        BY <1>1, <3>1 DEF Recovers, Leased, TypeOK, Leases
      <3>3. PICK f \in EventRows :
              f = Event(IF Exhausted(t) THEN "task.dead_lettered" ELSE "task.retry_scheduled",
                        lease[t].attempt)
        BY <3>2, EventRow DEF EventTypes
      <3>4. /\ f.type \in {"task.retry_scheduled", "task.dead_lettered"}
            /\ Says(f.type) = IF Exhausted(t) THEN "dead_lettered" ELSE "failed"
        BY <3>3 DEF Event, Says
      <3>5. /\ events'[t] = events[t] \o Append(Taken(t), f) /\ status'[t] = Says(f.type)
            /\ attempts'[t] = TimedOut(t)
        BY <1>6, <2>2, <3>3, <3>4 DEF RecoverExpiredLeases
      <3>6. Told(events[t] \o Append(Taken(t), f), Says(f.type), TimedOut(t))
        BY <1>1, <3>1, <3>4, TakenTold
      <3>. QED  BY <3>5, <3>6 DEF TellsTask
    <2>. QED  BY <2>1, <2>2
  <1>7. ASSUME NEW w \in Workers, NEW k \in EffectKeys, NEW q \in Requests, ReserveEffect(w, k, q)
        PROVE  TellsTask(t)'
    <2>1. PICK u : u = held[w].task
      OBVIOUS
    <2>2. u \in Tasks /\ held[w].attempt \in Nat
      BY <1>1, <1>7, <2>1 DEF ReserveEffect, TypeOK, Leases
    <2>3. PICK e \in EventRows : e = Event("effect.reserved", held[w].attempt)
      BY <2>2, EventRow DEF EventTypes
    <2>4. /\ events' = [events EXCEPT ![u] = @ \o <<e>>] /\ attempts' = attempts /\ status' = status
      BY <1>7, <2>1, <2>3 DEF ReserveEffect, Emit, taskRow
    <2>5. e.type \in Quiet
      BY <2>3 DEF Event, Quiet
    <2>6. events'[t] = IF t = u THEN events[t] \o <<e>> ELSE events[t]
      BY <1>1, <2>4
    <2>. QED  BY <1>1, <2>4, <2>5, <2>6, ToldOne DEF TellsTask
  <1>8. ASSUME NEW w \in Workers, NEW r \in Results, CommitEffect(w, r)  PROVE TellsTask(t)'
    <2>1. PICK k, u : k = doing[w].key /\ u = effects[k].task
      OBVIOUS
    <2>2. k \in EffectKeys /\ effects[k] # None
      BY <1>8, <2>1 DEF CommitEffect, IndInv, OneRequestPerKey, TypeOK
    <2>3. u \in Tasks /\ effects[k].attempt \in Nat
      BY <1>1, <2>1, <2>2 DEF TypeOK, Effects
    <2>4. PICK e \in EventRows : e = Event("effect.committed", effects[k].attempt)
      BY <2>3, EventRow DEF EventTypes
    <2>5. /\ events' = [events EXCEPT ![u] = @ \o <<e>>] /\ attempts' = attempts /\ status' = status
      BY <1>8, <2>1, <2>4 DEF CommitEffect, Emit, taskRow
    <2>6. e.type \in Quiet
      BY <2>4 DEF Event, Quiet
    <2>7. events'[t] = IF t = u THEN events[t] \o <<e>> ELSE events[t]
      BY <1>1, <2>5
    <2>. QED  BY <1>1, <2>5, <2>6, <2>7, ToldOne DEF TellsTask
  <1>9. ASSUME status' = status, attempts' = attempts, events' = events  PROVE TellsTask(t)'
    BY <1>9, ToldStays
  <1>. QED
    BY <1>2, <1>3, <1>4, <1>5, <1>6, <1>7, <1>8, <1>9
       DEF Next, vars, HeartbeatLease, LeaseExpires, RetryFallsDue, Forget, ReuseReservation,
           RunEnds, durable, taskRow

\* An empty log tells of a task not yet enqueued.
LEMMA InitTells == ASSUME Init, NEW t \in Tasks PROVE TellsTask(t)
  <1>1. events[t] = <<>> /\ attempts[t] = <<>> /\ status[t] = "absent"
    BY DEF Init
  <1>2. Life(events[t]) = {} /\ DOMAIN attempts[t] = {}
    BY <1>1 DEF Life
  <1>. QED  BY <1>1, <1>2 DEF TellsTask, Told, LastSays, StoryTold

TellInv == IndInv /\ \A t \in Tasks : TellsTask(t)

\* In every reachable state the rows of a task tell its status and attempts.
LEMMA TellInvariance == Spec => []TellInv
  <1>1. Init => TellInv
    BY InitHolds, InitTells DEF TellInv
  <1>2. TellInv /\ [Next]_vars => TellInv'
    BY StepKeeps, StepTells DEF TellInv
  <1>. QED  BY <1>1, <1>2, PTL DEF Spec

\* Who rebuilds a task from the rows appendEvent wrote finds its status and
\* the start and the end of each attempt, whatever was retried, taken over or
\* recovered in between.
THEOREM EventsTellAll == Spec => []EventsTell
  <1>1. ASSUME TellInv, NEW t \in Tasks
        PROVE  /\ (Life(events[t]) = {}) <=> (status[t] = "absent")
               /\ Life(events[t]) # {} =>
                    status[t] = Says(events[t][CHOOSE j \in Life(events[t]) :
                                                 \A i \in Life(events[t]) : i <= j].type)
               /\ \A i \in DOMAIN attempts[t] :
                    /\ Cardinality(Of(events[t], StartTypes, i)) = 1
                    /\ Cardinality(Of(events[t], EndTypes, i))
                         = IF attempts[t][i].status = "running" THEN 0 ELSE 1
    <2>1. LastSays(events[t], status[t]) /\ StoryTold(events[t], attempts[t])
      BY <1>1 DEF TellInv, TellsTask, Told
    <2>2. Life(events[t]) \subseteq Nat
      <3>1. DOMAIN events[t] = 1 .. Len(events[t]) /\ Len(events[t]) \in Nat
        BY <1>1, LenProperties DEF TellInv, IndInv, TypeOK
      <3>. QED  BY <3>1 DEF Life
    <2>3. ASSUME Life(events[t]) # {}
          PROVE  status[t] = Says(events[t][CHOOSE j \in Life(events[t]) :
                                              \A i \in Life(events[t]) : i <= j].type)
      <3>1. PICK j \in Life(events[t]) :
              (\A i \in Life(events[t]) : i <= j) /\ status[t] = Says(events[t][j].type)
        BY <2>1, <2>3 DEF LastSays
      <3>2. PICK c : c = CHOOSE k \in Life(events[t]) : \A i \in Life(events[t]) : i <= k
        OBVIOUS
      <3>3. c \in Life(events[t]) /\ \A i \in Life(events[t]) : i <= c
        BY <3>1, <3>2
      <3>4. j \in Nat /\ c \in Nat /\ j <= c /\ c <= j
        BY <2>2, <3>1, <3>3
      <3>5. c = j
        BY ONLY <3>4
      <3>. QED  BY <3>1, <3>2, <3>5
    <2>4. ASSUME NEW i \in DOMAIN attempts[t]
          PROVE  /\ Cardinality(Of(events[t], StartTypes, i)) = 1
                 /\ Cardinality(Of(events[t], EndTypes, i))
                      = IF attempts[t][i].status = "running" THEN 0 ELSE 1
      BY <2>1, FS_EmptySet, FS_Singleton DEF StoryTold
    <2>. QED  BY <2>1, <2>3, <2>4 DEF LastSays
  <1>2. TellInv => EventsTell
    BY <1>1 DEF EventsTell, Life, Of, StartTypes, EndTypes, Quiet, Says
  <1>. QED  BY <1>2, TellInvariance, PTL
=============================================================================
