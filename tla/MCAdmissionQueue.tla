-------------------------- MODULE MCAdmissionQueue --------------------------
(* AdmissionQueue for TLC: one client more than the slots and the line     *)
(* take.                                                                   *)
EXTENDS AdmissionQueue
=============================================================================
