---------------------------- MODULE MCBootRecovery ----------------------------
(* Small instances of BootRecovery for TLC. *)
EXTENDS BootRecovery, TLC
=============================================================================
