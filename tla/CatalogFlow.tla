------------------------------ MODULE CatalogFlow ------------------------------
(***************************************************************************)
(* What the catalog graph promises a reader of its snapshot store: however *)
(* many processes drive a run, crash and start over, the run is one        *)
(* sequential walk.  It learns each fact once and in graph order, leaves a *)
(* pause only to the place it was paused at, repairs its plan at most      *)
(* MaxRepairs times and never leaves an end.                               *)
(***************************************************************************)
EXTENDS Naturals, Sequences

CONSTANTS
    Order,       \* the kinds of catalog facts, in graph order
    MaxRepairs

VARIABLES
    phase,    \* where the run stands, "absent" before it is started
    learned,  \* how many facts of Order are known
    held,     \* the phase a paused run was in, else "none"
    repairs

Resumable == {"new", "validated", "probed", "joined", "planning"}

Init == /\ phase \in {"absent", "planning"}
        /\ learned = 0 /\ held = "none" /\ repairs = 0

Go(p, q) == phase = p /\ phase' = q /\ UNCHANGED <<learned, held, repairs>>

Learn == /\ phase = "validated" /\ learned < Len(Order) /\ learned' = learned + 1
         /\ UNCHANGED <<phase, held, repairs>>

Gathered == learned = Len(Order) /\ Go("validated", "probed")

Repair == /\ phase = "planning" /\ repairs < MaxRepairs /\ repairs' = repairs + 1
          /\ UNCHANGED <<phase, learned, held>>

Pause == /\ phase \in Resumable /\ phase' = "paused" /\ held' = phase
         /\ UNCHANGED <<learned, repairs>>

Resume == /\ phase = "paused" /\ phase' = held /\ held' = "none"
          /\ UNCHANGED <<learned, repairs>>

Next == \/ Go("absent", "new") \/ Go("new", "validated")
        \/ Learn \/ Gathered \/ Go("probed", "joined")
        \/ \E p \in {"validated", "joined", "planning"} : Go(p, "failed")
        \/ Go("joined", "routed") \/ Go("planning", "complete")
        \/ Repair \/ Pause \/ Resume

Spec == Init /\ [][Next]_<<phase, learned, held, repairs>>
=============================================================================
