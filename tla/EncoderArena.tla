---------------------------- MODULE EncoderArena ----------------------------
(***************************************************************************)
(* The scratch buffers of the GPU encoder (vae_gpu.c, arena_layout) and    *)
(* what a call takes of them. All items of a call are alike here: `items`  *)
(* streams in the same state, each given the same chunk.                   *)
(***************************************************************************)
EXTENDS VaePlan

CONSTANTS Enc, Plan,       \* the encoder, and its layers
          TileElems        \* VAE_FFN_TILE_BYTES / 2

NL == Len(Plan)
NS == Len(Enc.stages)
round8(v) == ((v + 7) \div 8) * 8
Stride(i) == LET ds == Enc.stages[i].ds IN IF ds = <<>> THEN 1 ELSE ds[2]
Div(i) == LET D[j \in 1..i] == IF j = 1 THEN 1 ELSE D[j - 1] * Stride(j - 1) IN D[i]
In(L) == IF L.kind = "head" THEN Enc.stages[NS].ch ELSE Enc.stages[L.stage].ch
Out(L) == IF L.kind = "stem" THEN Enc.stages[1].ch ELSE Enc.stages[L.stage + 1].ch
Gemms == {l \in 1..NL : Plan[l].kind \in {"ds", "head"}}
Kc(L) == In(L) * L.k

Ld(a, i) == round8((a.samples \div Div(i)) + 8 * a.items)
RinvElems(a, max_cap) == Ld(a, 1) + a.items * (max_cap + 1)
HidElems(a) ==
  LET widest == Max({Enc.stages[i].hidden : i \in 1..NS})
      full == Max({Enc.stages[i].hidden * Ld(a, i) : i \in 1..NS}
                  \cup {Kc(Plan[l]) * Ld(a, IF Plan[l].kind = "ds" /\ Plan[l].stage < NS THEN Plan[l].stage + 1 ELSE NS) : l \in Gemms})
      tile == Max({TileElems, widest * 128} \cup {Kc(Plan[l]) * 128 : l \in Gemms})
  IN Min({tile, full})
arena_layout(a) ==
  [act |-> Max({Enc.stages[i].ch * Ld(a, i) : i \in 1..NS}), rinv |-> RinvElems(a, Max({Plan[l].cap : l \in 1..NL})), hid |-> HidElems(a)]

(* A state of the streams: the arena, their contexts, and the lengths of   *)
(* the last call, len[1] in and len[l + 1] out of layer l.                 *)
Fresh == [l \in 1..NL |-> vae_layer_fresh_have(Plan[l])]
Streams(a, n) == [a |-> a, n |-> n, have |-> Fresh, len |-> <<0>>, calls |-> 0]
Lens(have, n, fin) ==
  FoldLeft(LAMBDA len, l : Append(len, vae_layer_step(Plan[l], have[l], len[l], fin).out), <<n>>, [l \in 1..NL |-> l])
Encode(x, n, fin) ==
  LET len == Lens(x.have, n, fin) IN
  [x EXCEPT !.len = len, !.calls = @ + 1,
            !.have = IF fin THEN Fresh ELSE [l \in 1..NL |-> vae_layer_step(Plan[l], @[l], len[l], fin).keep]]

\* frames_bound (frontend.c): the rows of a launch's latents.
f_max(a) == vv_conv_vae_frames(Plan, a.samples) + 8 * a.items

(* What vv_vae_encode writes in one layer, and the tile it cuts its hidden *)
(* buffer to; without a tile it gives up.                                  *)
Tile(hid, cols) == LET t == hid \div cols IN IF t >= 128 THEN (t \div 128) * 128 ELSE (t \div 8) * 8
LayerBounded(x, lay, l) ==
  LET L == Plan[l]
      T == x.n * x.len[l]
      T2 == x.n * x.len[l + 1]
  IN /\ L.kind \in {"stem", "ds"} => Out(L) * round8(T2) <= lay.act
     /\ L.kind \in {"ds", "head"} /\ T2 > 0 => Tile(lay.hid, Kc(L)) >= 8
     /\ L.kind = "mixer" => T + x.n * L.cap <= lay.rinv
FfnTiled(x, lay, l) ==
  Plan[l].kind = "mixer" /\ x.len[l] > 0 => Tile(lay.hid, Enc.stages[Plan[l].stage].hidden) >= 128
-----------------------------------------------------------------------------
(* The arenas whose hidden buffer takes 128 columns of the widest FFN;     *)
(* arena_layout cuts it to what a launch could fill, so that those of few  *)
(* items and less than about 8200 samples do not.                          *)
HoldsTile(a) == arena_layout(a).hid >= 128 * Max({Enc.stages[i].hidden : i \in 1..NS})

(* A call that passes vv_vae_encode's argument checks never writes past a  *)
(* buffer of its arena, nor past the rows of its launch, whatever contexts *)
(* the streams had gathered; and where the hidden buffer holds its tile the*)
(* call never ends in VV_ERR_OVERFLOW half way through its layers.         *)
ArenaFits(x) ==
  x.calls > 0 =>
    LET lay == arena_layout(x.a) IN
    /\ \A l \in 1..NL : LayerBounded(x, lay, l) /\ (HoldsTile(x.a) => FfnTiled(x, lay, l))
    /\ x.n * Last(x.len) <= f_max(x.a)
=============================================================================
