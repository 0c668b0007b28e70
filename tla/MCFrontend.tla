----------------------------- MODULE MCFrontend -----------------------------
(* Frontend for TLC: files in two launches, with or without the service,   *)
(* beside runs of a window that no launch takes.                           *)
EXTENDS Frontend

LiveSubmits == {[stream |-> TRUE, len |-> 5, final |-> TRUE, skip |-> 0]}
LiveRuns == {<<[stream |-> FALSE, len |-> 5, final |-> TRUE, skip |-> 0]>>}
=============================================================================
