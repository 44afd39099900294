------------------------------ MODULE MCOutbox ------------------------------
(***************************************************************************)
(* Outbox for TLC: a run with two events and a run with one, so that a     *)
(* claim takes events of both and an event waits for the one before it.    *)
(***************************************************************************)
EXTENDS Outbox, TLC

CONSTANTS r1, r2

MCMaxEvents == (r1 :> 2) @@ (r2 :> 1)
=============================================================================
