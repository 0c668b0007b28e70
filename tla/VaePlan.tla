------------------------------ MODULE VaePlan ------------------------------
(***************************************************************************)
(* The list of layers that both encoders walk, and the arithmetic of a     *)
(* causal convolution over a chunk of a stream (vae_plan.h, conv_vae.c).   *)
(***************************************************************************)
EXTENDS Integers, Sequences, FiniteSetsExt, SequencesExt

(* An encoder is [stem |-> k, stages |-> <<s1, ...>>, head |-> k], a stage *)
(* [ch, hidden, mix |-> <<k, ...>>, ds |-> <<k, stride>> or <<>>].         *)
Layer(kind, stage, k, stride) == [kind |-> kind, stage |-> stage, k |-> k, stride |-> stride, cap |-> k - 1]
StageLayers(g, i) ==
  [b \in 1..Len(g.mix) |-> Layer("mixer", i, g.mix[b], 1)] \o IF g.ds = <<>> THEN <<>> ELSE <<Layer("ds", i, g.ds[1], g.ds[2])>>
vae_plan_build(enc) ==
  <<Layer("stem", 0, enc.stem, 1)>> \o FlattenSeq([i \in 1..Len(enc.stages) |-> StageLayers(enc.stages[i], i)])
  \o <<Layer("head", 0, enc.head, 1)>>

vae_layer_fresh_have(L) == Max({0, L.k - L.stride})

vae_layer_step(L, have, in_len, fin) ==
  LET total == have + in_len
      n == total - (L.k - L.stride)
      out == IF fin THEN IF n > 0 THEN (n + L.stride - 1) \div L.stride ELSE 0
             ELSE IF total >= L.k THEN ((total - L.k) \div L.stride) + 1 ELSE 0
  IN [out |-> out, keep |-> IF fin THEN 0 ELSE total - out * L.stride]

vv_conv_vae_frames(plan, n) == FoldLeft(LAMBDA len, L : vae_layer_step(L, vae_layer_fresh_have(L), len, TRUE).out, n, plan)
=============================================================================
