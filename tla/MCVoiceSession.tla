----------------------------- MODULE MCVoiceSession ----------------------------
(***************************************************************************)
(* VoiceSession for TLC: two sessions, so that one can replace the other   *)
(* while a heartbeat of the first is under way, and two heartbeats.        *)
(***************************************************************************)
EXTENDS VoiceSession
=============================================================================
