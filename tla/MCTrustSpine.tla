---------------------------- MODULE MCTrustSpine ----------------------------
(***************************************************************************)
(* TrustSpine for TLC: the plan's own payload is invalid, so a run repairs *)
(* it; "denied" validates but violates policy, "unverified" passes policy  *)
(* but not Vale.                                                           *)
(***************************************************************************)
EXTENDS TrustSpine

CONSTANTS broken, denied, unverified, good, other

MCPayloads == {broken, denied, unverified, good, other}
MCValid    == {denied, unverified, good, other}
MCAllowed  == {unverified, good, other}
MCVerified == {good, other}
=============================================================================
