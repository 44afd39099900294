--------------------------- MODULE MCRunAuthority ---------------------------
(***************************************************************************)
(* RunAuthority for TLC, on its own.                                       *)
(***************************************************************************)
EXTENDS RunAuthority
=============================================================================
