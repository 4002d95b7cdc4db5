------------------------------ MODULE MCDeepSleep ------------------------------
(* Small instances of DeepSleep for TLC. *)
EXTENDS DeepSleep, TLC

MCDepth == [l \in Lane |-> 1]
=============================================================================
