----------------------------- MODULE MCWarmPool -----------------------------
(***************************************************************************)
(* WarmPool on a small instance.  Browsers has one name per slot and one   *)
(* per client, the most processes that can run at a time.                  *)
(***************************************************************************)
EXTENDS WarmPoolInv, TLC

Symmetry ==
    Permutations(Slots) \cup Permutations(Browsers) \cup Permutations(Clients \ {Starter})
=============================================================================
