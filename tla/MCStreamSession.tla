-------------------------- MODULE MCStreamSession --------------------------
(* StreamSession for TLC.                                                  *)
EXTENDS StreamSession
=============================================================================
