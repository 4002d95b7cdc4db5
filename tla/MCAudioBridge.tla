----------------------------- MODULE MCAudioBridge ----------------------------
(***************************************************************************)
(* AudioBridge for TLC: two formats, and three generations, so that a      *)
(* third begins while the Voice lane still holds the first.                *)
(***************************************************************************)
EXTENDS AudioBridge
=============================================================================
