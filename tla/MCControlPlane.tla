--------------------------- MODULE MCControlPlane ---------------------------
(***************************************************************************)
(* ControlPlane for TLC, once with two sources and one run, once with one  *)
(* source and two runs one after the other on instances that share the     *)
(* store.  Instances, run ids and digests are model values no formula      *)
(* tells apart.                                                            *)
(***************************************************************************)
EXTENDS ControlPlane

CONSTANTS jde, ebs

MCPortfolio == <<jde, ebs>>
MCSingle == <<jde>>
MCSymmetry ==
    Permutations(Instances) \cup Permutations(RunIds) \cup Permutations(Digests)
=============================================================================
