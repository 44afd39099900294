---------------------------- MODULE MCTaskLeases ----------------------------
(***************************************************************************)
(* TaskLeases for TLC: two workers over the three attempts of one task.    *)
(* The safety properties are proved for any number of tasks in             *)
(* TaskLeasesProofs.                                                       *)
(***************************************************************************)
EXTENDS TaskLeases
=============================================================================
