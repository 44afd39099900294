----------------------------- MODULE DynamicEngine -----------------------------
(***************************************************************************)
(* The dynamic workflow engine (agent_runtime/dynamic): a run schedules    *)
(* one task per source, or per research topic and its recursively proposed *)
(* children, over one semaphore, a call budget per root, bounded retries   *)
(* and repairs, and a wall-time limit that cancels the whole tree.         *)
(*                                                                         *)
(* A task is its path in the tree.  It runs between two awaits without     *)
(* interruption, so taking a slot, consuming budget, counting and entering *)
(* the runner are one step.  A caller's cancellation and the wall time do  *)
(* the same: every live task is told at once and unwinds when it next      *)
(* runs, a parent after the children it gathers.  Documents, capabilities  *)
(* and delays are left out: of an answer the engine only reads whether it  *)
(* is complete and how many children it proposes.                          *)
(***************************************************************************)
EXTENDS Naturals, Sequences, FiniteSets, FiniteSetsExt

CONSTANTS
    Shapes,          \* <<workflow, width>> a caller may ask for
    Proposals,       \* numbers of children an answer may propose
    MaxConcurrency, MaxAgentCalls, MaxSchemaRepairs, MaxTransientRetries

\* DynamicLimits, and the widths the two entry points admit.
ASSUME DynamicAssumption ==
    /\ MaxConcurrency \in 1..4 /\ MaxAgentCalls \in 1..30
    /\ MaxSchemaRepairs \in 0..3 /\ MaxTransientRetries \in 0..3
    /\ Shapes \subseteq ({"source"} \X (1..7)) \cup ({"research"} \X (3..7))
    /\ Proposals \subseteq Nat

VARIABLES
    shape,  \* the workflow and its width
    task,   \* path -> the state of its task
    spent,  \* root -> budget consumed by its tree
    usage,  \* the shared _UsageCounter
    run     \* "running", "stopping", or how the run ended

engine == <<shape, task, spent, usage, run>>

Roots == 1..shape[2]

\* Slip: the remainder goes to every root.
QuotaRoundedUp(i) == (MaxAgentCalls + shape[2] - 1) \div shape[2]

\* _branch_quotas: round robin, the first roots take the remainder.
Quota(i) == MaxAgentCalls \div shape[2] + (IF i <= MaxAgentCalls % shape[2] THEN 1 ELSE 0)

Created == [step |-> "created", retries |-> 0, repairs |-> 0, calls |-> 0,
            next |-> "none", kids |-> 0, ok |-> FALSE]

Live(p) == task[p].step \in {"created", "queued", "calling", "sleeping", "gathering"}
Kids(p) == {Append(p, i) : i \in 1..task[p].kids}
Complete(p) == task[p].step = "done" /\ task[p].ok

\* Slip: a branch keeps its slot while its children run.
CallingOrGathering == {p \in DOMAIN task : task[p].step \in {"calling", "gathering"}}

\* The semaphore: the slots that are taken.
Calling == {p \in DOMAIN task : task[p].step = "calling"}

Set(p, t) == task' = [task EXCEPT ![p] = t]

\* A BranchOutcome: ok when there is no error code.  The retry and repair
\* counts are local to the invocation and end with it.
Done(t, ok) == [Created EXCEPT !.step = "done", !.calls = t.calls, !.kids = t.kids, !.ok = ok]

-----------------------------------------------------------------------------
(***************************************************************************)
(* _invoke.                                                                *)
(***************************************************************************)
Begin(p) ==
    /\ run = "running" /\ task[p].step = "created"
    /\ Set(p, [task[p] EXCEPT !.step = "queued"])
    /\ usage' = [usage EXCEPT !.logical = @ + 1]
    /\ UNCHANGED <<shape, spent, run>>

Counted(u, t) ==
    [u EXCEPT !.calls = @ + 1,
              !.retries = IF t.next = "transient" THEN @ + 1 ELSE @,
              !.repairs = IF t.next = "schema" THEN @ + 1 ELSE @]

Enter(p) ==
    /\ run = "running" /\ task[p].step = "queued"
    /\ Cardinality(Calling) < MaxConcurrency
    /\ IF spent[p[1]] >= Quota(p[1])
       THEN /\ Set(p, Done(task[p], FALSE))
            /\ UNCHANGED <<spent, usage>>
       ELSE /\ spent' = [spent EXCEPT ![p[1]] = @ + 1]
            /\ usage' = Counted(usage, task[p])
            /\ Set(p, [task[p] EXCEPT !.step = "calling", !.calls = @ + 1, !.next = "none"])
    /\ UNCHANGED <<shape, run>>

Returns(p, t) ==
    /\ run = "running" /\ task[p].step = "calling" /\ Set(p, t)
    /\ UNCHANGED <<shape, spent, usage, run>>

\* The adapter saw a transient failure: back off without a slot, or give up.
Transient(p) ==
    LET t == task[p]
    IN  Returns(p, IF t.retries >= MaxTransientRetries
                   THEN Done(t, FALSE)
                   ELSE [t EXCEPT !.step = "sleeping", !.retries = @ + 1])

Wake(p) ==
    /\ run = "running" /\ task[p].step = "sleeping"
    /\ Set(p, [task[p] EXCEPT !.step = "queued", !.next = "transient"])
    /\ UNCHANGED <<shape, spent, usage, run>>

\* The answer was not of the closed schema: ask again at once, or give up.
Malformed(p) ==
    LET t == task[p]
    IN  Returns(p, IF t.repairs >= MaxSchemaRepairs
                   THEN Done(t, FALSE)
                   ELSE [t EXCEPT !.step = "queued", !.repairs = @ + 1, !.next = "schema"])

Broken(p) == Returns(p, Done(task[p], FALSE))

-----------------------------------------------------------------------------
(***************************************************************************)
(* _source_branch and _research_branch: what becomes of an answer.         *)
(***************************************************************************)
Source(t, complete, n) == Done(t, complete /\ n = 0)

Research(t, depth, complete, n) ==
    IF complete /\ n \in 1..3 /\ depth < 2
    THEN [t EXCEPT !.step = "gathering", !.kids = n]
    ELSE Done(t, complete /\ n = 0)

Answer(p, complete, n) ==
    /\ run = "running" /\ task[p].step = "calling"
    /\ LET t == IF shape[1] = "source" THEN Source(task[p], complete, n)
                ELSE Research(task[p], Len(p) - 1, complete, n)
           new == {Append(p, i) : i \in 1..t.kids}
       IN  task' = [q \in DOMAIN task \cup new |->
                       CASE q \in new -> Created [] q = p -> t [] OTHER -> task[q]]
    /\ UNCHANGED <<shape, spent, usage, run>>

GatherChildren(p) ==
    /\ run = "running" /\ task[p].step = "gathering"
    /\ \A q \in Kids(p) : task[q].step = "done"
    /\ Set(p, Done(task[p], \A q \in Kids(p) : Complete(q)))
    /\ UNCHANGED <<shape, spent, usage, run>>

-----------------------------------------------------------------------------
(***************************************************************************)
(* _bounded_run.                                                           *)
(***************************************************************************)
Return ==
    /\ run = "running" /\ \A i \in Roots : task[<<i>>].step = "done"
    /\ run' = IF \A i \in Roots : Complete(<<i>>) THEN "returned" ELSE "blocked"
    /\ UNCHANGED <<shape, task, spent, usage>>

\* The wall time is over, or the caller cancels.
Expire ==
    /\ run = "running" /\ \E i \in Roots : Live(<<i>>)
    /\ run' = "stopping"
    /\ UNCHANGED <<shape, task, spent, usage>>

\* Slip: a cancelled parent does not await its children.
UnwindAhead(p) ==
    /\ run = "stopping" /\ Live(p)
    /\ Set(p, [Done(task[p], FALSE) EXCEPT !.step = "cancelled"])
    /\ UNCHANGED <<shape, spent, usage, run>>

\* _gather_structured: cancel the children, await them, then raise.  The tasks
\* that may unwind next only end themselves, so their order is fixed.
Unwind(p) ==
    /\ run = "stopping" /\ Live(p)
    /\ p = CHOOSE q \in DOMAIN task : Live(q) /\ \A k \in Kids(q) : ~Live(k)
    /\ Set(p, [Done(task[p], FALSE) EXCEPT !.step = "cancelled"])
    /\ UNCHANGED <<shape, spent, usage, run>>

TimeOut ==
    /\ run = "stopping" /\ \A i \in Roots : ~Live(<<i>>)
    /\ run' = "timed_out"
    /\ UNCHANGED <<shape, task, spent, usage>>

EngineInit ==
    /\ shape \in Shapes
    /\ task = [p \in {<<i>> : i \in Roots} |-> Created]
    /\ spent = [i \in Roots |-> 0]
    /\ usage = [calls |-> 0, logical |-> 0, retries |-> 0, repairs |-> 0]
    /\ run = "running"

Invoked(p) == \/ Begin(p) \/ Enter(p) \/ Wake(p) \/ GatherChildren(p)
              \/ Transient(p) \/ Malformed(p) \/ Broken(p)
              \/ \E complete \in BOOLEAN, n \in Proposals : Answer(p, complete, n)

Scheduled == \E p \in DOMAIN task : Invoked(p) \/ Unwind(p)

EngineNext == Scheduled \/ Return \/ Expire \/ TimeOut

\* The event loop runs what is ready, and the runner answers each call.  The
\* wall time is not needed to end a run.
EngineSpec == EngineInit /\ [][EngineNext]_engine /\ WF_engine(Scheduled \/ Return \/ TimeOut)

-----------------------------------------------------------------------------
Ended == run \in {"returned", "blocked", "timed_out"}

Tree(i) == {p \in DOMAIN task : p[1] = i}
Called == {p \in DOMAIN task : task[p].calls > 0}

\* The calls that the tasks T made on the paths P.
Made(T, P) == MapThenSumSet(LAMBDA p : T[p].calls, P)

\* Exact accounting, at every moment and so also in what a timeout reports:
\* every call is a first call, a retry or a repair, made in a slot and charged
\* to its root; the trees never spend more than the run's ceiling; and no root
\* is denied its first call while the ceiling has one for every root.
UsageExact ==
    /\ usage.calls = Made(task, DOMAIN task)
    /\ usage.calls = Cardinality(Called) + usage.retries + usage.repairs
    /\ usage.logical <= Cardinality(DOMAIN task)
    /\ Cardinality(Called) <= usage.logical
    /\ \A i \in Roots : spent[i] = Made(task, Tree(i))
    /\ usage.calls <= MaxAgentCalls
    /\ Cardinality(Calling) <= MaxConcurrency
    /\ MaxAgentCalls >= shape[2] =>
          \A i \in Roots : task[<<i>>].step = "done" => task[<<i>>].calls > 0

\* A run ends whole: nothing of its tree is left running, and it returns a
\* result only if every task of the tree answered completely.
EndsWhole ==
    /\ Ended => \A p \in DOMAIN task : ~Live(p)
    /\ run = "returned" => \A p \in DOMAIN task : Complete(p)

\* Nested fan-out over one semaphore does not block itself: a run ends, also
\* when the wall time never strikes.
RunEnds == <>Ended
=============================================================================
