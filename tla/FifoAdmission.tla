--------------------------- MODULE FifoAdmission ---------------------------
(***************************************************************************)
(* What an admission queue promises, without counters or condition         *)
(* variables: at most Slots clients inside, everybody else who was let     *)
(* stay in one line, and the line served from its head only.               *)
(***************************************************************************)
EXTENDS Naturals, Sequences, FiniteSets

CONSTANTS Client, Slots, Capacity

VARIABLES line,      \* who waits, first come first
          inside,    \* who was admitted and has not left
          refused    \* how many were turned away

vars == <<line, inside, refused>>

Init == line = << >> /\ inside = {} /\ refused = 0

Room == Cardinality(inside) < Slots

Full == Len(line) + Cardinality(inside) >= Slots + Capacity

InLine(c) == \E i \in 1..Len(line) : line[i] = c

(* Straight in: only past an empty line.                                   *)
WalkIn(c) ==
    /\ c \notin inside
    /\ line = << >> /\ Room
    /\ inside' = inside \cup {c}
    /\ UNCHANGED <<line, refused>>

Join(c) ==
    /\ c \notin inside /\ ~InLine(c)
    /\ ~Full
    /\ line' = Append(line, c)
    /\ UNCHANGED <<inside, refused>>

Admit(c) ==
    /\ line # << >> /\ line[1] = c /\ Room
    /\ line' = Tail(line)
    /\ inside' = inside \cup {c}
    /\ UNCHANGED refused

Leave(c) ==
    /\ c \in inside
    /\ inside' = inside \ {c}
    /\ UNCHANGED <<line, refused>>

(* Nobody is turned away from a free slot with nobody in line for it.      *)
Refuse ==
    /\ ~Room \/ line # << >>
    /\ refused' = refused + 1
    /\ UNCHANGED <<line, inside>>

Next ==
    \/ \E c \in Client : WalkIn(c) \/ Join(c) \/ Admit(c) \/ Leave(c)
    \/ Refuse

Spec == Init /\ [][Next]_vars
=============================================================================
