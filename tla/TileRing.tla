------------------------------ MODULE TileRing ------------------------------
(***************************************************************************)
(* The shared-memory ring of the GEMM kernels (src/cuda): the warps of a   *)
(* block read the weights tile by tile, each warp copies its part of a     *)
(* tile into the slot of the tile, and a barrier orders the copies of one  *)
(* tile and the reads of another.                                          *)
(*                                                                         *)
(* Four schedules: "async", copies that land at any time until waited for  *)
(* (w4a16.cu, gemm_skinny.cu, gemm_i8.cu); "kv", the attention kernels'    *)
(* walk over an fp16 cache, where K and V take turns as tiles 2t and 2t+1  *)
(* (attn_common.cuh); "double", two slots written by plain stores (gemm.cu,*)
(* and K and V decoded from a quantised cache); "single", one slot (the    *)
(* SIMT kernel of gemm_i8.cu, the scalar prefill kernels).                 *)
(***************************************************************************)
EXTENDS Integers, Sequences

CONSTANTS Warps,      \* warps of the block
          Rings       \* [kind, stages, tiles] of each kernel

(* The kernels there are: a ring that copies ahead has a slot to spare.    *)
KernelRings ==
  \A r \in Rings :
    /\ r.kind \in {"async", "kv", "double", "single"}
    /\ r.stages \in Nat /\ r.tiles \in Nat
    /\ r.kind \in {"async", "kv"} => r.stages >= 2
    /\ r.kind = "double" => r.stages = 2
    /\ r.kind = "single" => r.stages = 1
ASSUME RingAssumption == KernelRings

VARIABLES ring,       \* the kernel this block runs
          pc, kt,     \* per warp: the next step, the tile it is at
          slot,       \* slot[s][p]: the tile whose part p is in slot s, -1 none
          flight      \* copies issued and not landed, <<warp, tile>>

ringVars == <<ring, pc, kt, slot, flight>>

SlotOf(tile) == tile % ring.stages
Steps == CASE ring.kind = "async" -> <<"wait", "sync", "load", "read">>
           [] ring.kind = "kv" -> <<"load", "wait", "sync", "read", "sync2">>
           [] ring.kind = "double" -> <<"read", "load", "sync">>
           [] OTHER -> <<"load", "sync", "read", "sync2">>
Follows(s) == LET i == CHOOSE i \in DOMAIN Steps : Steps[i] = s
              IN Steps[1 + (i % Len(Steps))]
Last == Steps[Len(Steps)]

(* The tile a warp copies at tile kt: the one the slot of tile kt - 1 is   *)
(* free for; the next tile; the tile itself.                               *)
Asynchronous == ring.kind \in {"async", "kv"}
CopiedLate(w) == CASE Asynchronous -> kt[w] + ring.stages [] ring.kind = "double" -> kt[w] + 1 [] OTHER -> kt[w]
Copied(w) == CASE Asynchronous -> kt[w] + ring.stages - 1
               [] ring.kind = "double" -> kt[w] + 1
               [] OTHER -> kt[w]

(* Copy groups this warp has committed, one a tile, empty past the last.   *)
Committed(w) == ring.stages - 1 + kt[w]
Prologue == {t \in 0..ring.stages - 2 : t < ring.tiles}

RingInit == /\ ring \in Rings
            /\ pc = [w \in Warps |-> IF ring.kind = "double" THEN "sync" ELSE Steps[1]]
            /\ kt = [w \in Warps |-> IF ring.kind = "double" THEN -1 ELSE 0]
            /\ slot = [s \in 0..ring.stages - 1 |-> [p \in Warps |-> IF ring.kind = "double" /\ s = 0 THEN 0 ELSE -1]]
            /\ flight = IF Asynchronous THEN Warps \X Prologue ELSE {}

(* A warp at the end of its steps goes on to its next tile.                *)
GoOn(w) ==
  /\ pc' = [pc EXCEPT ![w] = Follows(pc[w])]
  /\ kt' = IF pc[w] = Last THEN [kt EXCEPT ![w] = @ + 1] ELSE kt
Running(w) == kt[w] < ring.tiles

(* cp.async.wait_group: all but the last stages - 2 groups of this warp    *)
(* have landed, which leaves those of later tiles.                         *)
Wait(w) ==
  /\ pc[w] = "wait" /\ Running(w)
  /\ \A f \in flight : f[1] = w => f[2] >= Committed(w) - (ring.stages - 2)
  /\ GoOn(w) /\ UNCHANGED <<ring, slot, flight>>

(* __syncthreads: every warp of the block is there, all go on.             *)
Sync ==
  /\ \E s \in {"sync", "sync2"} : \A w \in Warps : pc[w] = s /\ Running(w)
  /\ pc' = [w \in Warps |-> Follows(pc[w])]
  /\ kt' = [w \in Warps |-> IF pc[w] = Last THEN kt[w] + 1 ELSE kt[w]]
  /\ UNCHANGED <<ring, slot, flight>>

Load(w) ==
  /\ pc[w] = "load" /\ Running(w)
  /\ LET t == Copied(w) IN
       IF t >= ring.tiles THEN UNCHANGED <<slot, flight>>
       ELSE IF Asynchronous THEN flight' = flight \cup {<<w, t>>} /\ UNCHANGED slot
       ELSE slot' = [slot EXCEPT ![SlotOf(t)][w] = t] /\ UNCHANGED flight
  /\ GoOn(w) /\ UNCHANGED ring

(* A copy lands at any time, in any order.                                 *)
Land(w) ==
  /\ \E t \in {f[2] : f \in {g \in flight : g[1] = w}} :
       /\ slot' = [slot EXCEPT ![SlotOf(t)][w] = t]
       /\ flight' = flight \ {<<w, t>>}
  /\ UNCHANGED <<ring, pc, kt>>

(* The products of the tile: a warp stays here while others go on.         *)
Read(w) ==
  /\ pc[w] = "read" /\ Running(w)
  /\ GoOn(w) /\ UNCHANGED <<ring, slot, flight>>

RingNext == Sync \/ \E w \in Warps : Wait(w) \/ Load(w) \/ Land(w) \/ Read(w)

RingSpec == RingInit /\ [][RingNext]_ringVars
-----------------------------------------------------------------------------
(* A warp that multiplies tile kt finds all of tile kt in its slot for as  *)
(* long as it reads: every warp's copy of it has landed, and no warp that  *)
(* ran ahead has begun to overwrite it.                                    *)
ReadsOwnTile ==
  \A w \in Warps : pc[w] = "read" /\ Running(w) => \A p \in Warps : slot[SlotOf(kt[w])][p] = kt[w]

(* What makes ReadsOwnTile inductive. All warps have passed as many        *)
(* barriers. A warp has copied the tiles below Issued, those of them below *)
(* Landed for sure, and from the oldest tile that another warp may still   *)
(* read on they are in its parts of the slots or on their way; there are   *)
(* never more of these than slots.                                         *)
StepSet == CASE ring.kind = "async" -> {"wait", "sync", "load", "read"}
             [] ring.kind = "kv" -> {"load", "wait", "sync", "read", "sync2"}
             [] ring.kind = "double" -> {"read", "load", "sync"}
             [] OTHER -> {"load", "sync", "read", "sync2"}
RingTypeOK == /\ ring \in Rings
              /\ pc \in [Warps -> StepSet]
              /\ kt \in [Warps -> Int]
              /\ \A w \in Warps : kt[w] >= IF ring.kind = "double" /\ pc[w] = "sync" THEN -1 ELSE 0
              /\ slot \in [0..ring.stages - 1 -> [Warps -> Int]]
              /\ flight \subseteq Warps \X (0..ring.tiles - 1)

AddIf(n, b) == n + IF b THEN 1 ELSE 0
Barriers(w) == CASE ring.kind = "async" -> AddIf(kt[w], pc[w] \in {"load", "read"})
                 [] ring.kind = "double" -> kt[w]
                 [] OTHER -> AddIf(kt[w] + kt[w], pc[w] \in {"read", "sync2"})
Oldest(w) == IF ring.kind = "async" /\ pc[w] \in {"wait", "sync"} THEN kt[w] - 1 ELSE kt[w]
Loaded(w) == CASE ring.kind = "async" -> pc[w] = "read"
               [] ring.kind = "double" -> pc[w] = "sync"
               [] OTHER -> pc[w] # "load"
Issued(w) == AddIf(kt[w] + ring.stages - 1, Loaded(w))
Landed(w) == AddIf(kt[w], IF ring.kind = "async" THEN pc[w] # "wait" ELSE pc[w] \notin {"load", "wait"})

InStep == \A w, u \in Warps : Barriers(w) = Barriers(u)
InFlight == \A w \in Warps, t \in 0..ring.tiles - 1 :
              <<w, t>> \in flight => Asynchronous /\ Landed(w) <= t /\ t < Issued(w)
Held == \A w \in Warps, t \in 0..ring.tiles - 1 :
          Oldest(w) <= t /\ t < Issued(w) => <<w, t>> \in flight \/ slot[SlotOf(t)][w] = t
RingInv == RingTypeOK /\ InStep /\ InFlight /\ Held
=============================================================================
