------------------------------ MODULE MCConsent ------------------------------
(***************************************************************************)
(* The two places where human consent is kept, for TLC: the run authority  *)
(* in PostgreSQL and the approval kernel of agent_runtime.  They share no  *)
(* state, so no interleaving of one with the other can matter and their    *)
(* product is not explored: a behaviour is one of the authority, or one of *)
(* the kernel.  All the sets are of model values no formula tells apart.   *)
(***************************************************************************)
EXTENDS RunAuthority, Approvals, TLC

MCInit == Init /\ ApprovalInit

MCNext == \/ ApprovalInit /\ Next /\ UNCHANGED kernel
          \/ Init /\ ApprovalNext /\ UNCHANGED vars

MCSpec == MCInit /\ [][MCNext]_<<vars, kernel>>

\* Plans are digests, requests approval ids, and the nonces the same.
Symmetry ==
    Permutations(Digests) \cup Permutations(ApprovalIds) \cup Permutations(Nonces)
      \cup Permutations(Sources) \cup Permutations(Callers)
=============================================================================
