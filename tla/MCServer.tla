------------------------------ MODULE MCServer ------------------------------
(* Server for TLC: the clients outside Direct are interchangeable.         *)
EXTENDS Server, TLC

Symmetry == Permutations(Client \ Direct)
=============================================================================
