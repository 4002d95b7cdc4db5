----------------------------- MODULE MCMyAiPairing -----------------------------
(***************************************************************************)
(* MyAiPairing for TLC: five generations take a fresh device through a     *)
(* pairing, a bound credential and its loss, and one of them to the last.  *)
(***************************************************************************)
EXTENDS MyAiPairing
=============================================================================
