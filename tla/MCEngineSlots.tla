--------------------------- MODULE MCEngineSlots ----------------------------
(* EngineSlots for TLC: two callers can sleep while the third holds the    *)
(* slot.                                                                   *)
EXTENDS EngineSlots
=============================================================================
