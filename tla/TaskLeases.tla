------------------------------ MODULE TaskLeases ------------------------------
(***************************************************************************)
(* Tasks, attempts, worker leases and the effect ledger of one run, as the *)
(* Go control plane keeps them in PostgreSQL (studio-backend/              *)
(* m3_persistence.go and its migration).                                   *)
(*                                                                         *)
(* Each command of M3PostgresRepository is one transaction that locks the  *)
(* run row or the task row first; a transaction that is refused or fails   *)
(* to serialise changes nothing, so a command is one step.  Between two    *)
(* commands anything may happen: a worker stalls past the expiry of its    *)
(* lease and then goes on as if it held it, dies, or repeats a command     *)
(* whose answer it lost.                                                   *)
(*                                                                         *)
(* Time.  Only the database clock is ever compared, so a lease is expired  *)
(* or not and a retry is due or not; a clock action flips the flag.        *)
(* Identifiers.  attempt_id and lease_token are drawn afresh by the claim  *)
(* that creates the attempt: both are the index of the attempt in the      *)
(* task's history.  tasks.revision and tasks.effect_key are written and    *)
(* never read: ReserveEffect takes its key from the caller.                *)
(***************************************************************************)
EXTENDS Integers, Sequences, FiniteSets

CONSTANTS
    Tasks, Workers,
    EffectKeys,    \* keys of the effect ledger
    Requests,      \* request digests an effect may be reserved with
    Results,       \* result digests an effect may be committed with
    MaxAttempts,   \* max_attempts of every task
    RecoverLimit,  \* most leases one call of RecoverExpiredLeases ends
    None

ASSUME TaskAssumption ==
    /\ MaxAttempts \in 1..32
    /\ RecoverLimit \in 1..500
    /\ None \notin EffectKeys \cup Requests \cup Results

VARIABLES
    \* durable
    run,        \* whether the run is in a terminal state
    status,     \* tasks.status, "absent" before the row exists
    started,    \* tasks.attempts_started
    retries,    \* tasks.retry_count
    generation, \* tasks.lease_generation
    lease,      \* tasks.lease_owner, lease_token, active_attempt_id
    expired,    \* tasks.lease_expires_at <= clock_timestamp()
    due,        \* tasks.available_at <= clock_timestamp()
    attempts,   \* the task's rows of the attempts table, by attempt_number
    effects,    \* the effect ledger
    events,     \* the task's rows of the events table, in sequence
    \* volatile, in the workers
    held,       \* the M3Lease a worker believes it holds
    doing       \* the effect a worker was told is reserved

taskRow  == <<status, started, retries, generation, lease, expired, due>>
durable  == <<run, taskRow, attempts, effects, events>>
volatile == <<held, doing>>
vars     == <<run, status, started, retries, generation, lease, expired, due,
              attempts, effects, events, held, doing>>

LeaseOf(t, w, i, g) == [task |-> t, owner |-> w, attempt |-> i, generation |-> g]

Event(type, i) == [type |-> type, attempt |-> i]

\* appendEvent, for the task an event names.
Emit(t, new) == events' = [events EXCEPT ![t] = @ \o new]

\* Slip: one attempt too many.
OverExhausted(t) == started[t] > MaxAttempts
Exhausted(t) == started[t] >= MaxAttempts

(***************************************************************************)
(* The tuple every lease-bound command checks under the task's row lock.   *)
(***************************************************************************)
\* Slip: the owner, the token and the generation, but not the clock.
FencedByToken(l) == status[l.task] = "running" /\ lease[l.task] = l

Fenced(l) ==
    /\ status[l.task] = "running"
    /\ ~expired[l.task]
    /\ lease[l.task] = l
    /\ generation[l.task] = l.generation

EndAttempt(t, s) ==
    attempts' = [attempts EXCEPT ![t][lease[t].attempt].status = s]

ActiveRunning(t) ==
    /\ attempts[t][lease[t].attempt].status = "running"
    /\ attempts[t][lease[t].attempt].generation = generation[t]

-----------------------------------------------------------------------------
EnqueueTask(t) ==
    /\ run = "open"
    /\ status[t] = "absent"
    /\ status' = [status EXCEPT ![t] = "ready"]
    /\ Emit(t, <<Event("task.enqueued", 0)>>)
    /\ UNCHANGED <<run, started, retries, generation, lease, expired, due, attempts,
                   effects, volatile>>

\* An expired lease may be taken over by the claim itself.
Recovers(t) == status[t] = "running" /\ expired[t]

\* Slip: a failed task waits for nobody.
ClaimableReady(t) == run = "open" /\ (Recovers(t) \/ status[t] = "ready")

Claimable(t) ==
    /\ run = "open"
    /\ \/ Recovers(t) /\ ActiveRunning(t)
       \/ status[t] = "ready"
       \/ status[t] = "failed" /\ due[t]

\* Slips: the attempt goes on, or its end is not reported.
LeftRunning(t)   == attempts[t]
TakenSilently(t) == <<>>

\* Ends the attempt whose lease is taken over.
TimedOut(t) ==
    IF Recovers(t) THEN [attempts[t] EXCEPT ![lease[t].attempt].status = "timed_out"]
                   ELSE attempts[t]

Taken(t) == IF Recovers(t) THEN <<Event("lease.expired", lease[t].attempt)>> ELSE <<>>

ClaimTask(w, t) ==
    /\ held[w] = None
    /\ Claimable(t) /\ ~Exhausted(t)
    /\ LET i == Len(attempts[t]) + 1
           g == generation[t] + 1
           l == LeaseOf(t, w, i, g)
       IN  /\ lease' = [lease EXCEPT ![t] = l]
           /\ held' = [held EXCEPT ![w] = l]
           /\ generation' = [generation EXCEPT ![t] = g]
           /\ attempts' = [attempts EXCEPT ![t] =
                Append(TimedOut(t), [number |-> started[t] + 1, generation |-> g,
                                     worker |-> w, status |-> "running"])]
           /\ Emit(t, Append(Taken(t), Event("attempt.started", i)))
    /\ status' = [status EXCEPT ![t] = "running"]
    /\ started' = [started EXCEPT ![t] = @ + 1]
    /\ retries' = [retries EXCEPT ![t] = IF Recovers(t) THEN @ + 1 ELSE @]
    /\ expired' = [expired EXCEPT ![t] = FALSE]
    /\ UNCHANGED <<run, due, effects, doing>>

ClearLease(t) ==
    /\ lease' = [lease EXCEPT ![t] = None]
    /\ expired' = [expired EXCEPT ![t] = FALSE]

\* The claim that finds the attempts used up dead-letters the task.
ClaimExhausted(t) ==
    /\ Claimable(t) /\ Exhausted(t)
    /\ status' = [status EXCEPT ![t] = "dead_lettered"]
    /\ attempts' = [attempts EXCEPT ![t] = TimedOut(t)]
    /\ ClearLease(t)
    /\ Emit(t, Append(Taken(t), Event("task.dead_lettered",
                                      IF lease[t] = None THEN 0 ELSE lease[t].attempt)))
    /\ UNCHANGED <<run, started, retries, generation, due, effects, volatile>>

\* The extension of an unexpired lease: the clock gives it more time.
HeartbeatLease(w) ==
    /\ held[w] # None
    /\ Fenced(held[w]) /\ ActiveRunning(held[w].task)
    /\ expired' = [expired EXCEPT ![held[w].task] = FALSE]
    /\ UNCHANGED <<run, status, started, retries, generation, lease, due,
                   attempts, effects, events, volatile>>

CompleteSucceeded(w) ==
    /\ held[w] # None
    /\ Fenced(held[w]) /\ ActiveRunning(held[w].task)
    /\ LET t == held[w].task IN
       /\ EndAttempt(t, "succeeded")
       /\ status' = [status EXCEPT ![t] = "succeeded"]
       /\ ClearLease(t)
       /\ Emit(t, <<Event("attempt.completed", held[w].attempt)>>)
    /\ UNCHANGED <<run, started, retries, generation, due, effects, volatile>>

\* A failure is retried after a delay while attempts are left.
CompleteFailed(w) ==
    /\ held[w] # None
    /\ Fenced(held[w]) /\ ActiveRunning(held[w].task)
    /\ LET t     == held[w].task
           again == ~Exhausted(t)
       IN  /\ EndAttempt(t, "failed")
           /\ status' = [status EXCEPT ![t] = IF again THEN "failed" ELSE "dead_lettered"]
           /\ retries' = [retries EXCEPT ![t] = IF again THEN @ + 1 ELSE @]
           /\ due' = [due EXCEPT ![t] = IF again THEN FALSE ELSE @]
           /\ ClearLease(t)
           /\ Emit(t, <<Event("attempt.completed", held[w].attempt),
                        Event(IF again THEN "task.retry_scheduled" ELSE "task.dead_lettered",
                              held[w].attempt)>>)
    /\ UNCHANGED <<run, started, generation, effects, volatile>>

\* The recovery evaluator ends any few of the expired leases, in one
\* transaction, of an open or of a terminal run.
RecoverExpiredLeases(S) ==
    /\ S # {} /\ Cardinality(S) <= RecoverLimit
    /\ \A t \in S : Recovers(t) /\ ActiveRunning(t)
    /\ attempts' = [t \in Tasks |-> IF t \in S THEN TimedOut(t) ELSE attempts[t]]
    /\ status' = [t \in Tasks |->
         IF t \notin S THEN status[t]
         ELSE IF Exhausted(t) THEN "dead_lettered" ELSE "failed"]
    /\ retries' = [t \in Tasks |-> IF t \in S THEN retries[t] + 1 ELSE retries[t]]
    /\ due' = [t \in Tasks |-> t \notin S /\ due[t]]
    /\ lease' = [t \in Tasks |-> IF t \in S THEN None ELSE lease[t]]
    /\ expired' = [t \in Tasks |-> t \notin S /\ expired[t]]
    /\ events' = [t \in Tasks |->
         IF t \notin S THEN events[t]
         ELSE events[t] \o Append(Taken(t),
                Event(IF Exhausted(t) THEN "task.dead_lettered" ELSE "task.retry_scheduled",
                      lease[t].attempt))]
    /\ UNCHANGED <<run, started, generation, effects, volatile>>

-----------------------------------------------------------------------------
(***************************************************************************)
(* The effect ledger: reserve before acting, commit after.                 *)
(***************************************************************************)
\* The key is new: the reservation is the worker's.
ReserveEffect(w, k, q) ==
    /\ held[w] # None /\ Fenced(held[w])
    /\ effects[k] = None
    /\ effects' = [effects EXCEPT ![k] =
         [task |-> held[w].task, attempt |-> held[w].attempt, request |-> q,
          status |-> "reserved", result |-> None]]
    /\ doing' = [doing EXCEPT ![w] = [key |-> k, request |-> q]]
    /\ Emit(held[w].task, <<Event("effect.reserved", held[w].attempt)>>)
    /\ UNCHANGED <<run, taskRow, attempts, held>>

\* Slip: any request of the task will do.
ReuseAnyRequest(w, k, q) ==
    /\ held[w] # None /\ Fenced(held[w])
    /\ effects[k] # None /\ effects[k].task = held[w].task
    /\ doing' = [doing EXCEPT ![w] = [key |-> k, request |-> q]]
    /\ UNCHANGED <<durable, held>>

\* The key is reserved: the same task may go on with the same request.
ReuseReservation(w, k, q) ==
    /\ held[w] # None /\ Fenced(held[w])
    /\ effects[k] # None
    /\ effects[k].request = q /\ effects[k].task = held[w].task
    /\ doing' = [doing EXCEPT ![w] = [key |-> k, request |-> q]]
    /\ UNCHANGED <<durable, held>>

\* Slip: a committed effect is committed again.
CommitAgain(w, r) ==
    /\ doing[w] # None
    /\ LET k == doing[w].key IN
       /\ effects' = [effects EXCEPT ![k].status = "committed", ![k].result = r]
       /\ Emit(effects[k].task, <<Event("effect.committed", effects[k].attempt)>>)
    /\ UNCHANGED <<run, taskRow, attempts, volatile>>

\* No lease is asked for: a worker whose lease is long gone may commit what
\* it did.  A commit of a committed effect changes nothing.
CommitEffect(w, r) ==
    /\ doing[w] # None
    /\ LET k == doing[w].key IN
       /\ effects[k].status = "reserved"
       /\ effects' = [effects EXCEPT ![k].status = "committed", ![k].result = r]
       /\ Emit(effects[k].task, <<Event("effect.committed", effects[k].attempt)>>)
    /\ UNCHANGED <<run, taskRow, attempts, volatile>>

-----------------------------------------------------------------------------
\* The clock passes lease_expires_at, or available_at.
LeaseExpires(t) ==
    /\ status[t] = "running" /\ ~expired[t]
    /\ expired' = [expired EXCEPT ![t] = TRUE]
    /\ UNCHANGED <<run, status, started, retries, generation, lease, due,
                   attempts, effects, events, volatile>>

RetryFallsDue(t) ==
    /\ ~due[t]
    /\ due' = [due EXCEPT ![t] = TRUE]
    /\ UNCHANGED <<run, status, started, retries, generation, lease, expired,
                   attempts, effects, events, volatile>>

\* The worker gives up what it holds, or dies.
Forget(w) ==
    /\ held[w] # None
    /\ held' = [held EXCEPT ![w] = None]
    /\ doing' = [doing EXCEPT ![w] = None]
    /\ UNCHANGED durable

\* TransitionRun moves the run to a terminal state.
RunEnds ==
    /\ run = "open"
    /\ run' = "terminal"
    /\ UNCHANGED <<taskRow, attempts, effects, events, volatile>>

Init ==
    /\ run = "open"
    /\ status = [t \in Tasks |-> "absent"]
    /\ started = [t \in Tasks |-> 0] /\ retries = [t \in Tasks |-> 0]
    /\ generation = [t \in Tasks |-> 0]
    /\ lease = [t \in Tasks |-> None]
    /\ expired = [t \in Tasks |-> FALSE] /\ due = [t \in Tasks |-> TRUE]
    /\ attempts = [t \in Tasks |-> <<>>] /\ events = [t \in Tasks |-> <<>>]
    /\ effects = [k \in EffectKeys |-> None]
    /\ held = [w \in Workers |-> None] /\ doing = [w \in Workers |-> None]

Next ==
    \/ \E w \in Workers, t \in Tasks : ClaimTask(w, t)
    \/ \E t \in Tasks : EnqueueTask(t) \/ ClaimExhausted(t) \/ LeaseExpires(t) \/ RetryFallsDue(t)
    \/ \E w \in Workers :
          HeartbeatLease(w) \/ CompleteSucceeded(w) \/ CompleteFailed(w) \/ Forget(w)
    \/ \E S \in SUBSET Tasks : RecoverExpiredLeases(S)
    \/ \E w \in Workers, k \in EffectKeys, q \in Requests :
          ReserveEffect(w, k, q) \/ ReuseReservation(w, k, q)
    \/ \E w \in Workers, r \in Results : CommitEffect(w, r)
    \/ RunEnds

Orphaned(t) == \A w \in Workers : held[w] # lease[t]

\* A worker reports on what it holds or gives it up; a lease nobody renews
\* expires; retries fall due; the evaluator is run and workers look for work.
Fairness ==
    /\ \A w \in Workers : WF_vars(Forget(w))
    /\ \A t \in Tasks :
         /\ WF_vars(Orphaned(t) /\ LeaseExpires(t))
         /\ WF_vars(RetryFallsDue(t))
         /\ WF_vars(RecoverExpiredLeases({t}))
         /\ WF_vars(\E w \in Workers : ClaimTask(w, t))

Spec == Init /\ [][Next]_vars /\ Fairness

-----------------------------------------------------------------------------
Leases   == [task : Tasks, owner : Workers, attempt : Nat \ {0}, generation : Nat \ {0}]
Attempts == [number : Nat \ {0}, generation : Nat \ {0}, worker : Workers,
             status : {"running", "succeeded", "failed", "timed_out"}]
Effects  == [task : Tasks, attempt : Nat \ {0}, request : Requests,
             status : {"reserved", "committed"}, result : Results \cup {None}]
EventTypes == {"task.enqueued", "attempt.started", "attempt.completed",
               "lease.expired", "task.retry_scheduled", "task.dead_lettered",
               "effect.reserved", "effect.committed"}

\* Nothing stored looks like an absent row.
ASSUME AbsentAssumption == None \notin Leases \cup Effects \cup [key : EffectKeys, request : Requests]

\* Every variable stays in its domain.
TypeOK ==
    /\ run \in {"open", "terminal"}
    /\ status \in [Tasks -> {"absent", "ready", "running", "succeeded", "failed",
                             "dead_lettered"}]
    /\ started \in [Tasks -> 0..MaxAttempts]
    /\ retries \in [Tasks -> Nat]
    /\ generation \in [Tasks -> Nat]
    /\ lease \in [Tasks -> Leases \cup {None}]
    /\ expired \in [Tasks -> BOOLEAN] /\ due \in [Tasks -> BOOLEAN]
    /\ attempts \in [Tasks -> Seq(Attempts)]
    /\ effects \in [EffectKeys -> Effects \cup {None}]
    /\ events \in [Tasks -> Seq([type : EventTypes, attempt : Nat])]
    /\ held \in [Workers -> Leases \cup {None}]
    /\ doing \in [Workers -> [key : EffectKeys, request : Requests] \cup {None}]

Running(t) == {i \in DOMAIN attempts[t] : attempts[t][i].status = "running"}

\* One worker at a time: a task has a running attempt exactly while it is
\* leased, that attempt is its latest, and it carries the current generation,
\* whatever expired, was taken over or came late.
OneRunningAttempt ==
    \A t \in Tasks :
      /\ Running(t) = IF lease[t] = None THEN {} ELSE {lease[t].attempt}
      /\ (status[t] = "running") <=> (lease[t] # None)
      /\ lease[t] # None =>
           /\ lease[t].task = t /\ lease[t].attempt = Len(attempts[t])
           /\ lease[t].generation = generation[t]
           /\ attempts[t][lease[t].attempt].generation = generation[t]
           /\ attempts[t][lease[t].attempt].worker = lease[t].owner

\* The retry budget: attempts are numbered without gap, a task that may be
\* retried has an attempt left, and one that is dead-lettered used them all
\* and succeeded in none; retry_count counts the attempts after the first, the
\* scheduled one included.
BudgetKept ==
    \A t \in Tasks :
      /\ Len(attempts[t]) = started[t] /\ generation[t] = started[t]
      /\ \A i \in DOMAIN attempts[t] : attempts[t][i].number = i
      /\ status[t] \in {"ready", "failed"} => started[t] < MaxAttempts
      /\ status[t] = "dead_lettered" =>
           /\ started[t] = MaxAttempts
           /\ \A i \in DOMAIN attempts[t] : attempts[t][i].status \in {"failed", "timed_out"}
      /\ (status[t] = "succeeded") <=>
           \E i \in DOMAIN attempts[t] : attempts[t][i].status = "succeeded"
      /\ status[t] \in {"running", "succeeded"} => retries[t] = started[t] - 1
      /\ status[t] \in {"absent", "ready", "failed"} => retries[t] = started[t]

\* Who reconstructs a task from its events alone, in order, finds it as it
\* is: every attempt has one start and one end, and the last event that is
\* not about an effect tells the status.
EventsTell ==
    \A t \in Tasks :
      LET life == {j \in DOMAIN events[t] :
                     events[t][j].type \notin {"effect.reserved", "effect.committed"}}
          last == CHOOSE j \in life : \A i \in life : i <= j
          of(types, i) == {j \in life : events[t][j].type \in types /\ events[t][j].attempt = i}
      IN  /\ (life = {}) <=> (status[t] = "absent")
          /\ life # {} =>
               status[t] = CASE events[t][last].type = "task.enqueued"        -> "ready"
                             [] events[t][last].type = "attempt.started"      -> "running"
                             [] events[t][last].type = "attempt.completed"    -> "succeeded"
                             [] events[t][last].type = "task.retry_scheduled" -> "failed"
                             [] events[t][last].type = "task.dead_lettered"   -> "dead_lettered"
                             [] OTHER                                         -> "unknown"
          /\ \A i \in DOMAIN attempts[t] :
               /\ Cardinality(of({"attempt.started"}, i)) = 1
               /\ Cardinality(of({"attempt.completed", "lease.expired"}, i))
                    = IF attempts[t][i].status = "running" THEN 0 ELSE 1

\* "The same stable key must also be sent to the downstream API": whoever was
\* told an effect is reserved, however late, acts on the one request the
\* ledger holds for the key, for the task that reserved it.
OneRequestPerKey ==
    \A w \in Workers :
      doing[w] # None =>
        /\ effects[doing[w].key] # None
        /\ effects[doing[w].key].request = doing[w].request
        /\ held[w] # None /\ held[w].task = effects[doing[w].key].task
        /\ effects[doing[w].key].attempt <= held[w].attempt

\* What is over stays as it was: a terminal attempt, a finished task and a
\* committed effect never change, and a reservation never changes hands.
HistoryImmutable ==
    [][ /\ \A t \in Tasks :
             /\ status[t] \in {"succeeded", "dead_lettered"} => status'[t] = status[t]
             /\ \A i \in DOMAIN attempts[t] :
                  attempts[t][i].status # "running" => attempts'[t][i] = attempts[t][i]
        /\ \A k \in EffectKeys :
             effects[k] # None =>
               /\ effects'[k].task = effects[k].task
               /\ effects'[k].attempt = effects[k].attempt
               /\ effects'[k].request = effects[k].request
               /\ effects[k].status = "committed" => effects'[k] = effects[k] ]_vars

\* A worker that comes late is powerless: once the clock has passed its lease
\* it can neither renew it nor finish the attempt, which can only time out.
LateWorkerPowerless ==
    [][ \A t \in Tasks :
          lease[t] # None /\ expired[t] =>
            /\ lease'[t] = lease[t] => expired'[t]
            /\ attempts'[t][lease[t].attempt].status \in {"running", "timed_out"} ]_vars

\* Every task of an open run comes to an end: a worker that dies or stalls
\* is replaced until one succeeds or the attempts are used up.
TasksEnd ==
    \A t \in Tasks :
      status[t] = "ready" ~> (status[t] \in {"succeeded", "dead_lettered"} \/ run = "terminal")
=============================================================================
