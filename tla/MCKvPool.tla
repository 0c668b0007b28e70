------------------------------ MODULE MCKvPool ------------------------------
(* KvPool for TLC: three caches that can hold each other up, two pages of  *)
(* two positions.                                                          *)
EXTENDS KvPool
=============================================================================
