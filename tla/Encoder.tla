------------------------------ MODULE Encoder ------------------------------
(***************************************************************************)
(* The speech encoder over a stream: vae_plan.h, vae_gpu.c with the        *)
(* kernels of vae_kernels.cu, and vae_cpu.c. A column has one channel and  *)
(* its value is a number modulo a prime, under weights that tell layers    *)
(* and taps apart: which samples reach a frame, and through which taps, is *)
(* all that chunks, batches and tiles could change.                        *)
(***************************************************************************)
EXTENDS VaePlan

CONSTANTS Plan,            \* the layers, of vae_plan_build
          Batches,         \* what one vv_vae_encode is given: <<[s, n, fin, skip], ...>>, s = 0 without a state
          MaxCalls,        \* encodes and resets at most
          CpuTile, MinRows \* CPU_TILE_SAMPLES and CPU_MIN_ROWS

NL == Len(Plan)
Prime == 8191
Tap(l, kk) == 37 * l + 11 * kk + 5
Bias(l) == 101 * l
Norm(v) == (v * v + v) % Prime
Ffn(v) == (3 * v * v + v) % Prime
Taps(l) == 0..Plan[l].k - 1
Dot(l, x) == FoldSet(LAMBDA kk, acc : acc + Tap(l, kk) * x[kk], Bias(l), Taps(l)) % Prime
-----------------------------------------------------------------------------
(* What the encoder is: every layer over the whole signal, with zeros      *)
(* before it and, up to a whole number of strides, after it.               *)
WholeLayer(l, x) ==
  LET L == Plan[l]
      at(p) == IF p \in DOMAIN x THEN x[p] ELSE 0
      In(t, kk) == at(((t * L.stride + kk) - (L.k - L.stride)) + 1)
      halo(t) == Dot(l, [kk \in Taps(l) |-> Norm(In(t, kk))])
  IN <<>> \o [t1 \in 1..((Len(x) + L.stride - 1) \div L.stride) |->
        IF L.kind = "mixer" THEN Ffn((x[t1] + halo(t1 - 1)) % Prime) ELSE Dot(l, [kk \in Taps(l) |-> In(t1 - 1, kk)])]
Whole(audio) == FoldLeft(LAMBDA x, l : WholeLayer(l, x), audio, [l \in 1..NL |-> l])
Audio(s, g, from, n) == [i \in 1..n |-> (131 * s + 57 * g + 17 * (from + i)) % Prime]
-----------------------------------------------------------------------------
(* The GPU encoder. A state keeps, per layer, its context in one of two    *)
(* buffers; a fresh buffer holds anything.                                 *)
VARIABLES st,              \* st[s]: vv_vae_state_t of stream s
          gen, given,      \* the stream's audio: which, and how many samples of it went in
          frames, ended,   \* what came out of it, and whether its last chunk went in
          win,             \* the last stateless window: what it was and what it gave
          told,            \* pairs of frames promised and frames made, of the last call
          calls            \* encodes and resets so far

Streams == 1..2
Junk == 7777
NoWin == [g |-> 0, n |-> 0, skip |-> 0, rows |-> <<>>]

vv_vae_state_create ==
  [have |-> [l \in 1..NL |-> 0], buf |-> [b \in 0..1 |-> [l \in 1..NL |-> [j \in 1..Plan[l].cap |-> Junk]]], cur |-> 0, fresh |-> TRUE]
vv_vae_state_reset(x) == [x EXCEPT !.fresh = TRUE, !.cur = 0]

Fresh(it) == it.s = 0 \/ st[it.s].fresh
Fin(it) == it.s = 0 \/ it.fin
Have(it, l) == IF Fresh(it) THEN vae_layer_fresh_have(Plan[l]) ELSE st[it.s].have[l]
vv_vae_frames(it) == FoldLeft(LAMBDA len, l : vae_layer_step(Plan[l], Have(it, l), len, Fin(it)).out, it.n, [l \in 1..NL |-> l])

(* One layer's descriptors: where each item's columns lie in the packed    *)
(* input and output, and the context that sits in front of its input.      *)
make_desc(l, items, lens) ==
  LET step == [i \in DOMAIN items |-> vae_layer_step(Plan[l], Have(items[i], l), lens[i], Fin(items[i]))]
      Off(f, i) == FoldSet(LAMBDA j, acc : acc + f[j], 0, 1..(i - 1))
  IN <<>> \o [i \in DOMAIN items |->
        [in_off |-> Off(lens, i), out_off |-> Off([j \in DOMAIN items |-> step[j].out], i), in_len |-> lens[i],
         have |-> Have(items[i], l), out_len |-> step[i].out, keep |-> step[i].keep,
         tail_in |-> IF ~Fresh(items[i]) /\ Have(items[i], l) > 0 THEN st[items[i].s].buf[st[items[i].s].cur][l] ELSE <<>>]]

(* Column p of [context ++ input] of one item, x the packed input.         *)
Column(it, x, p) ==
  IF p >= it.have + it.in_len THEN 0
  ELSE IF p < it.have THEN IF it.tail_in = <<>> THEN 0 ELSE it.tail_in[p + 1]
  ELSE x[(it.in_off + (p - it.have)) + 1]

vae_tail_kernel(it, x, old) ==
  [j \in DOMAIN old |-> IF j <= it.keep THEN Column(it, x, ((it.have + it.in_len) - it.keep) + (j - 1)) ELSE old[j]]

vae_conv_kernel(l, it, x) ==
  [t1 \in 1..it.out_len |-> Dot(l, [kk \in Taps(l) |-> Column(it, x, ((t1 - 1) * Plan[l].stride) + kk)])]

(* The item of packed output column p, empty items included.               *)
ItemAt(d, p) == Min({i \in DOMAIN d : i = Len(d) \/ p < d[i + 1].out_off})
vae_im2col_kernel(d, x, l, p, kk) ==
  LET it == d[ItemAt(d, p)]
      t == p - it.out_off
  IN IF t < it.out_len THEN Column(it, x, (t * Plan[l].stride) + kk) ELSE 0
vae_conv_gemm_kernel(d, l, x, T) ==
  <<>> \o [p1 \in 1..T |-> Dot(l, [kk \in Taps(l) |-> vae_im2col_kernel(d, x, l, p1 - 1, kk)])]

(* The taps left of the item come from its context, normalised here.       *)
vae_mixer_kernel(l, it, x) ==
  LET H == Plan[l].k - 1
      Halo(p) == IF p >= 0 THEN x[(it.in_off + p) + 1]
                 ELSE IF it.tail_in # <<>> /\ it.have + p >= 0 THEN it.tail_in[(it.have + p) + 1] ELSE 0
  IN [t1 \in 1..it.in_len |-> (x[it.in_off + t1] + Dot(l, [kk \in Taps(l) |-> Norm(Halo(((t1 - 1) - H) + kk))])) % Prime]
FfnTiles(x) == <<>> \o [p \in DOMAIN x |-> Ffn(x[p])]

LayerOut(l, d, x) ==
  CASE Plan[l].kind = "stem" -> FlattenSeq([i \in DOMAIN d |-> vae_conv_kernel(l, d[i], x)])
    [] Plan[l].kind = "mixer" -> FfnTiles(FlattenSeq([i \in DOMAIN d |-> vae_mixer_kernel(l, d[i], x)]))
    [] OTHER -> vae_conv_gemm_kernel(d, l, x, FoldSet(LAMBDA i, acc : acc + d[i].out_len, 0, DOMAIN d))

(* The walk over the layers: what each read, its descriptors, what it made.*)
NextLayer(done, l, items) ==
  LET last == done[Len(done)]
      d == make_desc(l, items, last.lens)
  IN Append(done, [in |-> last.out, d |-> d, lens |-> <<>> \o [i \in DOMAIN items |-> d[i].out_len], out |-> LayerOut(l, d, last.out)])
Walk(items, audio) ==
  FoldLeft(LAMBDA done, l : NextLayer(done, l, items),
           <<[in |-> <<>>, d |-> <<>>, lens |-> [i \in DOMAIN items |-> items[i].n], out |-> FlattenSeq(audio)]>>, [l \in 1..NL |-> l])

(* The contexts the first `upto` layers leave in an item's other buffer.   *)
TailsSameBuffer(x, i, w, upto) ==
  [x EXCEPT !.buf[x.cur] = [l \in 1..NL |-> IF l <= upto THEN vae_tail_kernel(w[l + 1].d[i], w[l + 1].in, @[l]) ELSE @[l]]]
Tails(x, i, w, upto) ==
  [x EXCEPT !.buf[1 - x.cur] = [l \in 1..NL |-> IF l <= upto THEN vae_tail_kernel(w[l + 1].d[i], w[l + 1].in, @[l]) ELSE @[l]]]
Commit(x, i, w, fin) ==
  IF fin THEN vv_vae_state_reset(x)
  ELSE [Tails(x, i, w, NL) EXCEPT !.have = [l \in 1..NL |-> w[l + 1].d[i].keep], !.cur = 1 - @, !.fresh = FALSE]

(* Rows of the head: frames from skip on, where each item wants them.      *)
Rows(i, w, skip) == LET d == w[NL + 1].d[i] IN SubSeq(w[NL + 1].out, d.out_off + skip + 1, d.out_off + d.out_len)

(* One call: everything is enqueued and the new contexts count, or some    *)
(* launch fails after the first layers' contexts were written.             *)
vv_vae_encode(items) ==
  /\ calls < MaxCalls /\ calls' = calls + 1
  /\ LET n == Len(items)
         G(i) == IF items[i].s = 0 THEN win.g + 1 ELSE gen[items[i].s] + IF Fresh(items[i]) THEN 1 ELSE 0
         From(i) == IF Fresh(items[i]) THEN 0 ELSE given[items[i].s]
         w == Walk(items, [i \in 1..n |-> Audio(items[i].s, G(i), From(i), items[i].n)])
         Of(s) == {i \in 1..n : items[i].s = s}
         i_(s) == CHOOSE i \in Of(s) : TRUE
         per(f, new(_, _)) == [s \in Streams |-> IF Of(s) = {} THEN f[s] ELSE new(s, i_(s))]
     IN \/ /\ st' = per(st, LAMBDA s, i : Commit(st[s], i, w, items[i].fin))
           /\ gen' = per(gen, LAMBDA s, i : G(i))
           /\ given' = per(given, LAMBDA s, i : From(i) + items[i].n)
           /\ frames' = per(frames, LAMBDA s, i : (IF Fresh(items[i]) THEN <<>> ELSE frames[s]) \o Rows(i, w, 0))
           /\ ended' = per(ended, LAMBDA s, i : items[i].fin)
           /\ win' = IF Of(0) = {} THEN win
                     ELSE LET i == i_(0) IN [g |-> G(i), n |-> items[i].n, skip |-> items[i].skip, rows |-> Rows(i, w, items[i].skip)]
           /\ told' = {<<vv_vae_frames(items[i]), w[NL + 1].lens[i]>> : i \in 1..n}
        \/ \E upto \in {2, NL} :
             /\ st' = per(st, LAMBDA s, i : IF items[i].fin THEN st[s] ELSE Tails(st[s], i, w, upto))
             /\ UNCHANGED <<gen, given, frames, ended, win, told>>

Reset(s) ==
  /\ calls < MaxCalls /\ calls' = calls + 1
  /\ st' = [st EXCEPT ![s] = vv_vae_state_reset(@)]
  /\ UNCHANGED <<gen, given, frames, ended, win, told>>

Init ==
  /\ st = [s \in Streams |-> vv_vae_state_create] /\ win = NoWin /\ told = {} /\ calls = 0
  /\ gen = [s \in Streams |-> 0] /\ given = [s \in Streams |-> 0]
  /\ frames = [s \in Streams |-> <<>>] /\ ended = [s \in Streams |-> FALSE]
Next == (\E items \in Batches : vv_vae_encode(items)) \/ \E s \in Streams : ~st[s].fresh /\ Reset(s)
-----------------------------------------------------------------------------
(* The CPU encoder: one clip, in tiles. Each stage waits until it has rows *)
(* enough, and carries its contexts as the states do. A run is a record;   *)
(* fifo[i] is the input of stage i, the last one that of the head.         *)
NS == Max({Plan[l].stage : l \in 1..NL})
StageOf(i) == {l \in 1..NL : Plan[l].stage = i}
vv_conv_vae_encode_cpu(n) ==
  [n |-> n, off |-> 0, status |-> "run", fifo |-> [i \in 1..(NS + 1) |-> <<>>], next |-> <<>>,
   ctx |-> [l \in 1..NL |-> [j \in 1..vae_layer_fresh_have(Plan[l]) |-> 0]]]

save_ctx(r, l, cat, fin) ==
  LET keep == vae_layer_step(Plan[l], Len(r.ctx[l]), Len(cat) - Len(r.ctx[l]), fin).keep
  IN [r EXCEPT !.ctx[l] = SubSeq(cat, (Len(cat) - keep) + 1, Len(cat))]

(* conv_gemm, and the stem: the windows of [context ++ x ++ zeros].        *)
conv_gemm(r, l, x, fin) ==
  LET cat == r.ctx[l] \o x
      out == vae_layer_step(Plan[l], Len(r.ctx[l]), Len(x), fin).out
      at(p) == IF p < Len(cat) THEN cat[p + 1] ELSE 0
  IN [r |-> save_ctx(r, l, cat, fin),
      y |-> [t1 \in 1..out |-> Dot(l, [kk \in Taps(l) |-> at(((t1 - 1) * Plan[l].stride) + kk)])]]

(* block_cpu: the rows of x in place, tap 0 of the first at row `base`.    *)
block_cpu(r, l, x, fin) ==
  LET cat == r.ctx[l] \o x
      base == Len(cat) - Len(x) - (Plan[l].k - 1)
      at(row) == IF row >= 0 THEN Norm(cat[row + 1]) ELSE 0
  IN [r |-> save_ctx(r, l, cat, fin),
      y |-> [t1 \in DOMAIN x |-> Ffn((x[t1] + Dot(l, [kk \in Taps(l) |-> at((base + (t1 - 1)) + kk)])) % Prime)]]

RunLayer(q, l, fin) == IF Plan[l].kind = "mixer" THEN block_cpu(q.r, l, q.y, fin) ELSE conv_gemm(q.r, l, q.y, fin)
run_stage(r, i, fin) ==
  IF ~fin /\ Len(r.fifo[i]) < MinRows THEN r
  ELSE LET q == FoldLeft(LAMBDA z, l : RunLayer(z, l, fin), [r |-> r, y |-> r.fifo[i]], SetToSortSeq(StageOf(i), <))
       IN [q.r EXCEPT !.fifo[i] = <<>>, !.fifo[i + 1] = @ \o q.y]

RunHead(r, fin) ==
  IF ~fin /\ Len(r.fifo[NS + 1]) < MinRows THEN r
  ELSE LET q == conv_gemm(r, NL, r.fifo[NS + 1], fin) IN [q.r EXCEPT !.fifo[NS + 1] = <<>>, !.next = @ \o q.y]

(* One turn of the driver's loop; memory may run out in it.                *)
Tile(r) ==
  LET len == Min({CpuTile, r.n - r.off})
      fin == r.off + len >= r.n
      stem == conv_gemm(r, 1, Audio(0, 0, r.off, len), fin)
      fed == [stem.r EXCEPT !.fifo[1] = @ \o stem.y, !.off = @ + len]
      staged == FoldLeft(LAMBDA z, i : run_stage(z, i, fin), fed, [i \in 1..NS |-> i])
  IN [RunHead(staged, fin) EXCEPT !.status = IF fin THEN "ok" ELSE "run"]
CpuStep(r) == {Tile(r), [r EXCEPT !.status = "oom", !.next = <<>>]}
-----------------------------------------------------------------------------
(* However a stream is cut into chunks, whatever shares its batches, and   *)
(* whichever calls failed and were made again, its frames are those of the *)
(* whole signal so far, and all of them once its last chunk is in; a       *)
(* window is what a fresh encode of it gives; the frames of every call     *)
(* were promised before it; and each count is the one the prompt is built  *)
(* from.                                                                   *)
StreamsAreWhole ==
  /\ \A s \in Streams : LET whole == Whole(Audio(s, gen[s], 0, given[s])) IN
       IF ended[s] THEN frames[s] = whole /\ Len(whole) = vv_conv_vae_frames(Plan, given[s]) ELSE IsPrefix(frames[s], whole)
  /\ LET whole == Whole(Audio(0, win.g, 0, win.n)) IN win.rows = SubSeq(whole, win.skip + 1, Len(whole))
  /\ \A t \in told : t[1] = t[2]

(* The CPU's tiles and waiting stages give the frames of the whole clip.   *)
TilesAreWhole(r) == r.status = "ok" => r.next = Whole(Audio(0, 0, 0, r.n))
=============================================================================
