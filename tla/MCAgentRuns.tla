----------------------------- MODULE MCAgentRuns -----------------------------
(***************************************************************************)
(* The two kinds of run of agent_runtime for TLC: a run of the dynamic     *)
(* engine and a run of the catalog graph.  They share no state, so no      *)
(* interleaving of one with the other can matter, and their product is not *)
(* explored: the engine's run comes first, and where it has ended in one   *)
(* way that stands for all the others, the graph's run begins.  Each takes *)
(* every step that it takes alone.                                         *)
(***************************************************************************)
EXTENDS CatalogGraph, DynamicEngine

MCShapes == {<<"source", 2>>, <<"research", 3>>}

MCOrder == <<"catalog_metadata", "catalog_vector", "catalog_access">>

\* Nothing found, and the migration is wanted.
Probe(kind, missing) ==
    [kind |-> kind, candidates |-> 0, missing |-> missing, migrate |-> TRUE,
     trustworthy |-> TRUE]

\* The metadata callback may find required facts missing, and the access
\* callback may answer for another kind.
MCAnswers ==
    [k \in {"catalog_metadata", "catalog_vector", "catalog_access"} |->
        CASE k = "catalog_metadata" -> {Probe(k, m) : m \in BOOLEAN}
          [] k = "catalog_vector"   -> {Probe(k, FALSE)}
          [] k = "catalog_access"   -> {Probe(l, FALSE) : l \in {k, "catalog_vector"}}]

MCPlanInputs ==
    {[trustworthy |-> TRUE, flags |-> f] :
        f \in {{"ready"}, {"needs_research"}, {"needs_input"}, {"ready", "needs_input"}}}

-----------------------------------------------------------------------------
\* Two sources that each answered at their first call.
EngineOver == run = "returned" /\ shape[1] = "source" /\ usage.calls = shape[2]

\* A step of the one, with its fairness, while the other rests.
OfEngine(A) == ~Ended /\ A /\ UNCHANGED vars
OfGraph(A)  == EngineOver /\ A /\ UNCHANGED engine

\* The wider engine run need not be repeated for a graph that begins with its
\* planning.
MCInit == EngineInit /\ Init /\ (store = None \/ shape[1] = "source")

MCNext == OfEngine(EngineNext) \/ OfGraph(Next)

MCSpec ==
    /\ MCInit /\ [][MCNext]_<<engine, vars>>
    /\ WF_engine(OfEngine(Scheduled \/ Return \/ TimeOut))
    /\ \A d \in Reliable : WF_vars(OfGraph(Drive(d)))
=============================================================================
