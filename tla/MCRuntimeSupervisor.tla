-------------------------- MODULE MCRuntimeSupervisor --------------------------
(* Small instances of RuntimeSupervisor for TLC. *)
EXTENDS RuntimeSupervisor, TLC

\* Control is as shallow as a queue can be, so that results find it full.
MCDepth == [l \in Lane |-> IF l = "Control" THEN 1 ELSE 2]
Ids == Permutations(RequestId)
=============================================================================
