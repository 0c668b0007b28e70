------------------------------- MODULE Linear -------------------------------
(***************************************************************************)
(* One linear layer y = W x + b on the GPU: the packing of quantised       *)
(* weights (src/quant/awq_repack.c), the int8 activations (act_quant.cu),  *)
(* the kernels that read them (src/cuda) and the choice between them       *)
(* (quant_linear and a8_linear of src/inference/decoder.c).                *)
(*                                                                         *)
(* Numbers are left out; what is kept is which stored code meets which     *)
(* activation under which scale. A stored code is <<seg, n, k>>: column k  *)
(* of row n of projection seg. A kernel is the function from its visits    *)
(* (thread, step, slot) to the term <<code, activation column, group>> it  *)
(* adds, for one row, with the rows and tokens its threads write.          *)
(***************************************************************************)
EXTENDS Integers, FiniteSets, Sequences

CONSTANTS Sms,     \* multiprocessors of the device
          PerSm    \* blocks of a GEMM kernel one of them holds

AWQ_ORDER == [j \in 0..7 |-> <<0, 4, 1, 5, 2, 6, 3, 7>>[j + 1]]
SKINNY_M_MIN == 9
SKINNY_M_MAX == 64
SMALL_M_MAX == 8
MAX_SEGS == 3

Ceil(a, b) == (a + b - 1) \div b
MinOf(a, b) == IF a < b THEN a ELSE b
Align256(b) == 256 * Ceil(b, 256)
-----------------------------------------------------------------------------
(* Packed rows: eight 4-bit slots to a 32-bit word, slot s at bits 4s.     *)
(* Row-major: byte k div 2 holds column k, the even one in the high half.  *)
Slots(K) == (0..(K \div 8) - 1) \X (0..7)
Pack(K, q) == [ws \in Slots(K) |-> q[8 * ws[1] + 2 * (ws[2] \div 2) + (1 - (ws[2] % 2))]]
Nibble(row, byte, e) == row[<<byte \div 4, 2 * (byte % 4) + (1 - e)>>]
Unpacked(K, row) == [k \in 0..K-1 |-> Nibble(row, k \div 2, k % 2)]

(* AutoAWQ's order of eight columns in a word, and GPTQ's of eight rows.   *)
AwqFile(seg, k, word, slot) == <<seg, 8 * word + <<0, 2, 4, 6, 1, 3, 5, 7>>[slot + 1], k>>
GptqFile(seg, word, n, slot) == <<seg, n, 8 * word + slot>>

Packed(row, meta, perm) == [row |-> row, meta |-> meta, perm |-> perm]
Natural(K) == [k \in 0..K-1 |-> k]

(* The zero points are packed as the codes are, one row of words a group.  *)
vv_awq_repack(seg, n, K, G) ==
  LET slot == AWQ_ORDER[n % 8]
  IN Packed(Pack(K, [k \in 0..K-1 |-> AwqFile(seg, k, n \div 8, slot)]),
            [g \in 0..(K \div G) - 1 |-> AwqFile(seg, g, n \div 8, slot)], Natural(K))
AwqTakes(N, K, G) == N % 8 = 0 /\ K % 2 = 0 /\ K % G = 0

(* Act order: the channels sorted by group, stably, if the groups are full.*)
GptqTakes(N, K, G, gidx) ==
  /\ N % 8 = 0 /\ K % 8 = 0 /\ K % G = 0
  /\ \A k \in 0..K-1 : gidx[k] \in 0..(K \div G) - 1
  /\ (\E k \in 0..K-1 : gidx[k] # k \div G) =>
       \A g \in 0..(K \div G) - 1 : Cardinality({k \in 0..K-1 : gidx[k] = g}) = G
CountingSort(K, G, gidx) ==
  [p \in 0..K-1 |-> LET group == {k \in 0..K-1 : gidx[k] = p \div G}
                    IN CHOOSE k \in group : Cardinality({j \in group : j < k}) = p % G]
vv_gptq_repack(seg, n, K, G, perm) ==
     Packed(Pack(K, [j \in 0..K-1 |-> GptqFile(seg, perm[j] \div 8, n, perm[j] % 8)]),
            [g \in 0..(K \div G) - 1 |-> <<seg, n, g>>], perm)

(* Quantised at load: NF4 and INT4G rows are packed as they are produced.  *)
QuantizedRow(seg, n, K, G) ==
  Packed(Pack(K, [k \in 0..K-1 |-> <<seg, n, k>>]), [g \in 0..(K \div G) - 1 |-> <<seg, n, g>>], Natural(K))

(* The layout of the W4A16 kernels: word t of a chunk of 32 columns holds  *)
(* pair t + 4 (s mod 4), its first column in the low slots.                *)
vv_int4g_to_gpu_layout(p, K) ==
  LET q == Unpacked(K, p.row)
  IN [p EXCEPT !.row = [ws \in Slots(K) |->
        LET t == ws[1] % 4  s == ws[2]
        IN q[32 * (ws[1] \div 4) + 2 * (t + 4 * (s % 4)) + s \div 4]]]
ToGpuLayout(N, K, G) == K % 64 = 0 /\ N % 8 = 0 /\ G \in {32, 64, 128, 256}
-----------------------------------------------------------------------------
(* Int8 activations. Where column j of a run of 32 is written, by layout;  *)
(* the nibble layout is written a word at a time.                          *)
vv_q8_pos(layout, j) ==
  LET e == j % 2  t == (j \div 2) % 4  s == (j \div 8) + 4 * e
  IN CASE layout = "nibble" -> 16 * e + j \div 2
       [] layout = "w4_gemv" -> 8 * t + 4 * (s % 2) + s \div 2
       [] layout = "w4_mma" -> 16 * e + 4 * t + (s % 4)
       [] OTHER -> j

(* aq_quantize_row: thread c owns columns 8c..8c+7. The bytes it writes,   *)
(* and the columns of each sum, which four neighbouring threads add up.    *)
AqWrites(layout, c) ==
  IF layout = "nibble"
  THEN {<<32 * (c \div 4) + 4 * (c % 4) + 16 * e + i, 8 * c + 2 * i + e>> : e \in 0..1, i \in 0..3}
  ELSE {<<32 * (c \div 4) + vv_q8_pos(layout, 8 * (c % 4) + j), 8 * c + j>> : j \in 0..7}
aq_quantize_row(layout, K) ==
  [xq |-> [p \in 0..K-1 |->
             LET run == UNION {AqWrites(layout, c) : c \in (4 * (p \div 32))..(4 * (p \div 32) + 3)}
                 at == {w[2] : w \in {v \in run : v[1] = p}}
             IN IF Cardinality(at) = 1 THEN CHOOSE k \in at : TRUE ELSE -1],
   xsum |-> [r \in 0..(K \div 32) - 1 |-> UNION {(8 * c)..(8 * c + 7) : c \in (4 * r)..(4 * r + 3)}]]
ActQuantTakes(K) == K % 32 = 0 /\ K \in 256..22528
vv_w4a8_layout_for(M) == IF M <= 8 THEN "w4_gemv" ELSE "w4_mma"
-----------------------------------------------------------------------------
(* Rows and tokens. Column blocks of several projections are concatenated; *)
(* a block finds its projection by the first block of each.                *)
FirstBlock(Ns, per) ==
  [i \in 1..Len(Ns) |-> CASE i = 1 -> 0
                          [] i = 2 -> Ceil(Ns[1], per)
                          [] OTHER -> Ceil(Ns[1], per) + Ceil(Ns[2], per)]
SegBlocks(Ns, per) == FirstBlock(Ns, per)[Len(Ns)] + Ceil(Ns[Len(Ns)], per)
SegOf(Ns, per, bx) == CHOOSE i \in 1..Len(Ns) :
                        /\ bx >= FirstBlock(Ns, per)[i]
                        /\ \A j \in (i + 1)..Len(Ns) : bx < FirstBlock(Ns, per)[j]
SegRows(Ns, per) ==
  LET all == [b \in 0..(SegBlocks(Ns, per) - 1), i \in 0..(per - 1) |->
                LET seg == SegOf(Ns, per, b)
                IN <<seg, (b - FirstBlock(Ns, per)[seg]) * per + i>>]
  IN [v \in {u \in DOMAIN all : all[u][2] < Ns[all[u][1]]} |-> all[v]]

Below(f, n) == [v \in {u \in DOMAIN f : f[u] < n} |-> f[v]]
OneSeg(f) == [v \in DOMAIN f |-> <<1, f[v]>>]
AllTokens(M) == [m \in 0..M-1 |-> m]

(* The accumulator tile of m16n8 fragments: row g + 8 h, column 2 t + e.   *)
TileTokens(M, BM, WM, MT) ==
  Below([by \in 0..(Ceil(M, BM) - 1), wm \in 0..WM-1, mt \in 0..MT-1, g \in 0..7, h \in 0..1 |->
           by * BM + wm * MT * 16 + mt * 16 + g + 8 * h], M)
TileRows(Ns, BN, WN, NT) ==
  LET all == [bx \in 0..(SegBlocks(Ns, BN) - 1), wn \in 0..WN-1, nt \in 0..NT-1, t \in 0..3, e \in 0..1 |->
                LET seg == SegOf(Ns, BN, bx)
                IN <<seg, (bx - FirstBlock(Ns, BN)[seg]) * BN + wn * NT * 8 + nt * 8 + 2 * t + e>>]
  IN [v \in {u \in DOMAIN all : all[u][2] < Ns[all[u][1]]} |-> all[v]]

(* The column of A that register i of lane t meets in an mma: m16n8k16    *)
(* holds two halves a register, m16n8k32 four bytes.                       *)
MmaK16(i, t, e) == 8 * i + 2 * t + e
MmaK32(i, t, b) == 16 * i + 4 * t + b

(* Tiles of K in the order a block reads them: each of `splits` blocks     *)
(* takes per of them.                                                      *)
SplitTiles(total, splits, per) ==
  UNION {{<<z, kt>> : kt \in (z * per)..(MinOf((z + 1) * per, total) - 1)} : z \in 0..(splits - 1)}
-----------------------------------------------------------------------------
(* A call: projections first, first + 1, ... of Ns[i] rows over K columns, *)
(* M tokens; w is the packed form of each sampled row, x the source column *)
(* of each activation column; two is VV_W4A16_GEMV_R, skinny VV_SKINNY. A  *)
(* launch is what one kernel adds to y.                                    *)
Launch(c, rows, ms, dot, bias) ==
  [rows |-> [v \in DOMAIN rows |-> <<c.first + rows[v][1] - 1, rows[v][2]>>], ms |-> ms,
   bias |-> IF c.bias /\ bias THEN 1 ELSE 0, terms |-> dot, zeros |-> [r \in DOMAIN c.w |-> <<>>]]
Done(launches, used) == [status |-> "ok", launches |-> launches, used |-> used]
Err(status) == [status |-> status, launches |-> <<>>, used |-> 0]
(* What was tried, or the fall-back when no kernel took the shape.         *)
OrElse(tried, fallback) == IF tried.status # "unsupported" THEN tried ELSE fallback

(* Packed row-major codes, one warp a row: eight columns a lane.           *)
RowMajorDot(p, x, K, G) ==
  [v \in (0..(K \div 256) - 1) \X (0..31) \X (0..3) \X (0..1) |->
     LET e0 == 256 * v[1] + 8 * v[2]
     IN <<Nibble(p.row, e0 \div 2 + v[3], v[4]), x[e0 + 2 * v[3] + v[4]], p.meta[e0 \div G]>>]
nf4_gemv_kernel(c) ==
  LET Dot == [r \in DOMAIN c.w |-> RowMajorDot(c.w[r], c.x, c.K, 64)] IN Launch(c, SegRows(c.Ns, 4), AllTokens(1), Dot, TRUE)
awq_gemv_kernel(c) ==
  LET Dot == [r \in DOMAIN c.w |-> RowMajorDot(c.w[r], c.x, c.K, c.G)] IN Launch(c, SegRows(c.Ns, 8), AllTokens(1), Dot, TRUE)
awq_gemm_small_kernel(c) ==
  LET Dot == [r \in DOMAIN c.w |-> RowMajorDot(c.w[r], c.x, c.K, c.G)] IN Launch(c, SegRows(c.Ns, 8), AllTokens(c.M), Dot, FALSE)

(* Int8 rows: sixteen bytes a lane, one scale a row.                       *)
Int8Dot(p, x, K) ==
  [v \in {u \in (0..(K \div 512)) \X (0..31) \X (0..15) : 512 * u[1] + 16 * u[2] < K} |->
     LET k == 512 * v[1] + 16 * v[2] + v[3] IN <<p.row[k], x[k], p.meta[0]>>]
int8_gemv_kernel(c) ==
  LET Dot == [r \in DOMAIN c.w |-> Int8Dot(c.w[r], c.x, c.K)] IN Launch(c, SegRows(c.Ns, 8), AllTokens(1), Dot, TRUE)
int8_gemm_small_kernel(c) ==
  LET Dot == [r \in DOMAIN c.w |-> Int8Dot(c.w[r], c.x, c.K)] IN Launch(c, SegRows(c.Ns, 8), AllTokens(c.M), Dot, FALSE)

(* Dequantised copies: column k of the dense row, with its scale.          *)
vv_dequant_nf4_kernel(p, K) ==
  [k \in 0..K-1 |-> LET e0 == 8 * (k \div 8) IN <<Nibble(p.row, e0 \div 2 + (k % 8) \div 2, k % 2), p.meta[e0 \div 64]>>]
awq_dequant_kernel(p, K, G) ==
  [k \in 0..K-1 |-> LET e0 == 8 * (k \div 8) IN <<Nibble(p.row, e0 \div 2 + (k % 8) \div 2, k % 2), p.meta[e0 \div G]>>]
int8_dequant_kernel(p, K) == [k \in 0..K-1 |-> <<p.row[k], p.meta[0]>>]

(* W4A16: pair j of word t of a chunk is slots j and j + 4.                *)
w4_dequant_word_in_order(p, c, t, j, e) == p.row[<<4 * c + t, 2 * j + e>>]
w4_dequant_word(p, c, t, j, e) == p.row[<<4 * c + t, j + 4 * e>>]
w4a16_dequant_kernel(p, K, G) ==
  [k \in 0..K-1 |->
     LET c == k \div 32
         tje == CHOOSE u \in (0..3) \X (0..3) \X (0..1) : 32 * c + 2 * (u[1] + 4 * u[2]) + u[3] = k
     IN <<w4_dequant_word(p, c, tje[1], tje[2], tje[3]), p.meta[(32 * c) \div G]>>]

(* The GEMV: LPR lanes share R rows, each walks every LPR-th chunk.        *)
GemvLanes(rows, nch) ==
  LET grown == CHOOSE l \in {16, 32, 64, 128} :
                 (l = 128 \/ rows * l >= 49152) /\ \A s \in {16, 32, 64} : s < l => rows * s < 49152
  IN CHOOSE l \in {16, 32, 64, 128} :
       l <= grown /\ (l = 16 \/ l <= 2 * nch) /\ \A h \in {32, 64, 128} : (l < h /\ h <= grown) => h > 2 * nch
SumNs(Ns) == CASE Len(Ns) = 1 -> Ns[1] [] Len(Ns) = 2 -> Ns[1] + Ns[2] [] OTHER -> Ns[1] + Ns[2] + Ns[3]
w4a16_gemv_kernel(p, x, K, G, lpr) ==
  [v \in {u \in (0..lpr - 1) \X (0..(K \div 32)) \X (0..3) \X (0..3) \X (0..1) : u[1] + lpr * u[2] < K \div 32} |->
     LET ch == v[1] + lpr * v[2]
     IN <<w4_dequant_word(p, ch, v[3], v[4], v[5]), x[32 * ch + 2 * (v[3] + 4 * v[4]) + v[5]], p.meta[(32 * ch) \div G]>>]
launch_gemv(c) ==
  LET R == IF c.two \/ c.K >= 8192 THEN 2 ELSE 1
      lpr == GemvLanes(SumNs(c.Ns) \div R, c.K \div 32)
      Dot == [r \in DOMAIN c.w |-> w4a16_gemv_kernel(c.w[r], c.x, c.K, c.G, lpr)]
  IN Done(<<Launch(c, SegRows(c.Ns, (128 \div lpr) * R), AllTokens(1), Dot, TRUE)>>, 0)
GShift(G) == G \in {32, 64, 128, 256}
vv_w4a16_gemv_multi_dev(c) ==
  IF ~GShift(c.G) \/ c.K % 32 # 0 THEN Err("unsupported") ELSE launch_gemv(c)

(* The tensor-core GEMM, K split over blocks whose sums a second kernel    *)
(* adds up.                                                                *)
W4gCfg(cfg) == <<[BM |-> 16, BN |-> 64, BK |-> 128, WM |-> 1, WN |-> 4, MT |-> 1], [BM |-> 32, BN |-> 128, BK |-> 128, WM |-> 1, WN |-> 4, MT |-> 2],
                 [BM |-> 64, BN |-> 128, BK |-> 64, WM |-> 2, WN |-> 4, MT |-> 2], [BM |-> 64, BN |-> 128, BK |-> 128, WM |-> 2, WN |-> 4, MT |-> 2],
                 [BM |-> 128, BN |-> 128, BK |-> 64, WM |-> 2, WN |-> 4, MT |-> 4]>>[CASE cfg = 2 -> 1 [] cfg = 3 -> 2 [] cfg = 5 -> 3 [] cfg = 6 -> 4 [] OTHER -> 5]
w4_pick_cfg(M) == CASE M <= 16 -> 2 [] M <= 32 -> 3 [] M <= 512 -> 6 [] OTHER -> 7
w4_pick_splits(tiles, total, M, N, scratch) ==
  LET Fits(s) == s * M * N * 4 <= scratch
      Grows(s) == tiles * s < 2 * Sms /\ total \div (2 * s) >= 4 /\ Fits(2 * s)
      Allowed(s) == s = 1 \/ (total \div s >= 4 /\ Fits(s))
      Tried == {s \in 1..8 : \A r \in 1..s : Allowed(r)}
      Cost(s) == 20 * (840 \div s) * Ceil(tiles * s, PerSm * Sms) + 840 * (s - 1)
  IN IF M <= 64 THEN CHOOSE s \in {1, 2, 4, 8, 16, 32, 64} : ~Grows(s) /\ \A r \in {1, 2, 4, 8, 16, 32} : r < s => Grows(r)
     ELSE CHOOSE s \in Tried : \A r \in Tried : Cost(s) < Cost(r) \/ (Cost(s) = Cost(r) /\ s <= r)
w4a16_gemm_kernel(p, x, K, G, BK, tiles) ==
  [v \in tiles \X (0..(BK \div 32) - 1) \X (0..1) \X (0..1) \X (0..3) \X (0..1) |->
     LET kt == v[1][2]  kc == v[2]  ch == kt * (BK \div 32) + kc
     IN <<w4_dequant_word(p, ch, v[5], 2 * v[3] + v[4], v[6]),
          x[32 * ch + 16 * v[3] + MmaK16(v[4], v[5], v[6])],
          p.meta[(kt * BK) \div G + (kc * 32) \div G]>>]
launch_gemm_cfg(c, cfg) ==
  LET s == W4gCfg(cfg)
      total == c.K \div s.BK
      asked == w4_pick_splits(Ceil(c.Ns[1], s.BN) * Ceil(c.M, s.BM), total, c.M, c.Ns[1], c.scratch)
      per == Ceil(total, asked)
      splits == Ceil(total, per)
      Dot == [r \in DOMAIN c.w |-> w4a16_gemm_kernel(c.w[r], c.x, c.K, c.G, s.BK, SplitTiles(total, splits, per))]
      rows == TileRows(c.Ns, s.BN, s.WN, s.BN \div (s.WN * 8))
  IN IF c.K % s.BK # 0 THEN Err("unsupported")
     ELSE Done(<<Launch(c, rows, TileTokens(c.M, s.BM, s.WM, s.MT), Dot, TRUE)>>, IF splits > 1 THEN splits * c.M * c.Ns[1] * 4 ELSE 0)
-----------------------------------------------------------------------------
(* Dense rows D, k -> <<code, scale>>.                                     *)
gemm_tn_skinny_kernel(D, x, K) ==
  [v \in {u \in (0..31) \X (0..(K \div 256)) \X (0..7) : 8 * u[1] + 256 * u[2] < K} |->
     LET k == 8 * v[1] + 256 * v[2] + v[3] IN <<D[k][1], x[k], D[k][2]>>]
gemm_tn_kernel(D, x, K) ==
  [v \in {u \in (0..Ceil(K, 32) - 1) \X (0..1) \X (0..15) : 32 * u[1] + 16 * u[2] + u[3] < K} |->
     LET k == 32 * v[1] + 16 * v[2] + v[3] IN <<D[k][1], x[k], D[k][2]>>]

(* Nine to sixty-four tokens: dense, int8 and NF4 weights in one kernel.   *)
SkTileBK(fmt, MT) == IF fmt = "f16" /\ MT = 4 THEN 64 ELSE 128
sk_i8_pair(p, k0, ks, i, t, e) == <<p.row[k0 + 16 * ks + 2 * t + 8 * i + e], p.meta[0]>>
sk_nf4_pair(p, k0, ks, i, t, e) == <<Nibble(p.row, k0 \div 2 + 8 * ks + t + 4 * i, e), p.meta[k0 \div 64 + ks \div 4]>>
skinny_kernel(p, x, K, BK, fmt) ==
  [v \in (0..(K \div BK) - 1) \X (0..(BK \div 16) - 1) \X (0..1) \X (0..3) \X (0..1) |->
     LET k0 == BK * v[1]
         k == k0 + 16 * v[2] + MmaK16(v[3], v[4], v[5])
         b == CASE fmt = "f16" -> p[k]
                [] fmt = "int8" -> sk_i8_pair(p, k0, v[2], v[3], v[4], v[5])
                [] OTHER -> sk_nf4_pair(p, k0, v[2], v[3], v[4], v[5])
     IN <<b[1], x[k], b[2]>>]
sk_launch(c, fmt, row, bias) ==
  LET MT == MinOf(Ceil(c.M, 16), 4)
      BK == SkTileBK(fmt, MT)
      Dot == [r \in DOMAIN c.w |-> skinny_kernel(row[r], c.x, c.K, BK, fmt)]
  IN IF c.K % BK # 0 THEN Err("unsupported")
     ELSE Done(<<Launch(c, TileRows(c.Ns, 64, 4, 2), TileTokens(c.M, MT * 16, 1, MT), Dot, bias)>>, 0)
vv_skinny_linear_dev(c, fmt, row, bias) ==
  IF \/ c.M \notin SKINNY_M_MIN..SKINNY_M_MAX \/ ~c.skinny \/ c.major < 8
     \/ \E i \in 1..Len(c.Ns) : c.Ns[i] % 8 # 0
  THEN Err("unsupported") ELSE sk_launch(c, fmt, row, bias)

vv_gemm_fp16_tile_dev(c, dense) ==
  LET Dot == [r \in DOMAIN c.w |-> gemm_tn_kernel(dense[r], c.x, c.K)]
  IN Done(<<Launch(c, TileRows(c.Ns, 128, 4, 4), TileTokens(c.M, 128, 2, 4), Dot, FALSE)>>, 0)
vv_gemm_fp16_dev(c, dense) ==
  LET Dot == [r \in DOMAIN c.w |-> gemm_tn_skinny_kernel(dense[r], c.x, c.K)]
  IN IF c.M <= SMALL_M_MAX /\ c.K % 8 = 0 THEN Done(<<Launch(c, SegRows(c.Ns, 8), AllTokens(c.M), Dot, FALSE)>>, 0)
     ELSE OrElse(IF c.M <= SKINNY_M_MAX THEN vv_skinny_linear_dev(c, "f16", dense, FALSE) ELSE Err("unsupported"),
                 vv_gemm_fp16_tile_dev(c, dense))

(* A dense copy in the scratch, then the dense GEMM; the copy is as large  *)
(* as the weight.                                                          *)
Dequantised(c, takes, dense) ==
  IF ~takes THEN Err("unsupported")
  ELSE [vv_gemm_fp16_dev(c, dense) EXCEPT !.used = c.Ns[1] * c.K * 2]
vv_bias_add_dev(c, r) ==
  IF ~c.bias \/ r.status # "ok" THEN r ELSE [r EXCEPT !.launches[1].bias = @ + 1]
-----------------------------------------------------------------------------
vv_nf4_gemv_dev(c) == IF c.K % 256 # 0 THEN Err("unsupported") ELSE Done(<<nf4_gemv_kernel(c)>>, 0)
vv_nf4_gemm_dev(c) ==
  LET Dense == [r \in DOMAIN c.w |-> vv_dequant_nf4_kernel(c.w[r], c.K)]
  IN OrElse(IF c.M > SMALL_M_MAX /\ c.M <= SKINNY_M_MAX THEN vv_skinny_linear_dev(c, "nf4", c.w, FALSE) ELSE Err("unsupported"),
            Dequantised(c, (c.Ns[1] * c.K) % 8 = 0, Dense))
vv_awq_gemv_dev(c) ==
  IF ~GShift(c.G) \/ c.K % 256 # 0 THEN Err("unsupported") ELSE Done(<<awq_gemv_kernel(c)>>, 0)
vv_awq_gemm_dev(c) ==
  LET Dense == [r \in DOMAIN c.w |-> awq_dequant_kernel(c.w[r], c.K, c.G)]
  IN CASE ~GShift(c.G) -> Err("unsupported")
       [] c.M <= 8 /\ c.K % 256 = 0 -> Done(<<awq_gemm_small_kernel(c)>>, 0)
       [] OTHER -> Dequantised(c, c.K % 8 = 0, Dense)
vv_int8_gemv_dev(c) == IF c.K % 16 # 0 THEN Err("unsupported") ELSE Done(<<int8_gemv_kernel(c)>>, 0)
vv_int8_gemm_dev(c) ==
  LET Dense == [r \in DOMAIN c.w |-> int8_dequant_kernel(c.w[r], c.K)]
  IN CASE c.K % 16 # 0 -> Err("unsupported")
       [] c.K % 16 = 0 /\ c.M <= 8 -> Done(<<int8_gemm_small_kernel(c)>>, 0)
       [] OTHER -> OrElse(IF c.M <= SKINNY_M_MAX THEN vv_skinny_linear_dev(c, "int8", c.w, FALSE) ELSE Err("unsupported"),
                          Dequantised(c, TRUE, Dense))
vv_w4a16_gemm_dev(c) ==
  LET Dense == [r \in DOMAIN c.w |-> w4a16_dequant_kernel(c.w[r], c.K, c.G)]
      mma == IF c.major >= 8 THEN OrElse(launch_gemm_cfg(c, w4_pick_cfg(c.M)), launch_gemm_cfg(c, 5)) ELSE Err("unsupported")
      dense == IF c.scratch < c.Ns[1] * c.K * 2 THEN Err("overflow")
               ELSE vv_bias_add_dev(c, Dequantised(c, GShift(c.G) /\ c.K % 32 = 0, Dense))
      takes == GShift(c.G) /\ c.K % 32 = 0 /\ c.Ns[1] % 8 = 0
  IN CASE ~takes -> Err("unsupported")
       [] takes /\ c.M = 1 -> launch_gemv(c)
       [] OTHER -> OrElse(mma, dense)

(* quant_linear: one projection on FP16 activations, whatever its form.    *)
skinny_format(kind) == CASE kind = "none" -> "f16" [] kind \in {"int8", "nf4"} -> kind [] OTHER -> "no"
SkinnyRow(p) == IF DOMAIN p.meta = {} THEN [k \in DOMAIN p.row |-> <<p.row[k], "none">>] ELSE p
SkinnyRows(c) == [r \in DOMAIN c.w |-> SkinnyRow(c.w[r])]
Gathered(c) ==
  LET xb == Align256(c.M * c.K * 2)
  IN [c EXCEPT !.x = c.perm, !.scratch = @ - xb]
GatherFits(c) ==
  LET legacy == c.M > 1 /\ c.kind = "int4g" /\ ~c.gpu
  IN c.K % 8 = 0 /\ c.scratch >= Align256(c.M * c.K * 2) + (IF legacy THEN c.Ns[1] * c.K * 2 ELSE 0)
ByKind(c) ==
  LET One(r) == IF c.M = 1 THEN r ELSE Err("unsupported")
  IN CASE c.kind = "int4g" /\ c.gpu -> IF c.M = 1 THEN vv_w4a16_gemv_multi_dev(c) ELSE vv_w4a16_gemm_dev(c)
       [] c.kind = "int4g" /\ ~c.gpu -> OrElse(One(vv_awq_gemv_dev(c)), vv_bias_add_dev(c, vv_awq_gemm_dev(c)))
       [] c.kind = "nf4" -> OrElse(One(vv_nf4_gemv_dev(c)), vv_bias_add_dev(c, vv_nf4_gemm_dev(c)))
       [] c.kind = "int8" -> IF c.M = 1 THEN vv_int8_gemv_dev(c) ELSE vv_bias_add_dev(c, vv_int8_gemm_dev(c))
       [] OTHER -> vv_bias_add_dev(c, vv_gemm_fp16_dev(c, SkinnyRows(c)))
quant_linear(c) ==
  LET gather == c.perm # Natural(c.K)
  IN OrElse(IF skinny_format(c.kind) # "no" /\ c.M \in SKINNY_M_MIN..SKINNY_M_MAX
            THEN vv_skinny_linear_dev(c, skinny_format(c.kind), SkinnyRows(c), TRUE) ELSE Err("unsupported"),
            IF gather /\ ~GatherFits(c) THEN Err("overflow") ELSE ByKind(IF gather THEN Gathered(c) ELSE c))

(* quant_linear_group: projections of one input. Part i of a group call.   *)
Part(c, i) == [c EXCEPT !.first = i, !.Ns = <<c.Ns[i]>>, !.kind = c.kinds[i], !.w = [r \in {q \in DOMAIN c.w : q[1] = i} |-> c.w[r]]]
Each(rs) ==
  LET bad == {i \in DOMAIN rs : rs[i].status # "ok"}
  IN IF bad # {} THEN rs[CHOOSE i \in bad : \A j \in bad : i <= j]
     ELSE Done([i \in DOMAIN rs |-> rs[i].launches[1]], 0)
quant_linear_group(c) ==
  LET same == \A i \in DOMAIN c.kinds : skinny_format(c.kinds[i]) = skinny_format(c.kinds[1])
      fuse == c.M = 1 /\ c.gpu /\ c.perm = Natural(c.K) /\ \A i \in DOMAIN c.kinds : c.kinds[i] = "int4g"
  IN OrElse(IF c.M \in SKINNY_M_MIN..SKINNY_M_MAX /\ skinny_format(c.kinds[1]) # "no" /\ same
            THEN vv_skinny_linear_dev(c, skinny_format(c.kinds[1]), SkinnyRows(c), TRUE) ELSE Err("unsupported"),
            IF fuse THEN vv_w4a16_gemv_multi_dev(c) ELSE Each([i \in 1..Len(c.Ns) |-> quant_linear(Part(c, i))]))
-----------------------------------------------------------------------------
(* Int8 activations. xq is what aq_quantize_row wrote for c.layout.        *)
Chunk(c) == IF c.kind = "int4g" THEN 32 ELSE 16
i8_gemv_kernel(c, p, lpr) ==
  LET q == aq_quantize_row(c.layout, c.K)
      lanes == {u \in (0..lpr - 1) \X (0..(c.K \div Chunk(c))) : u[1] + lpr * u[2] < c.K \div Chunk(c)}
      W4(v) == LET ch == v[1][1] + lpr * v[1][2]
               IN <<p.row[<<4 * ch + v[2], 2 * v[4] + v[3]>>], q.xq[32 * ch + 8 * v[2] + 4 * v[3] + v[4]], p.meta[(32 * ch) \div c.G]>>
      W8(v) == LET k == 16 * (v[1][1] + lpr * v[1][2]) + v[2] IN <<p.row[k], q.xq[k], p.meta[0]>>
  IN IF c.kind = "int4g" THEN [v \in lanes \X (0..3) \X (0..1) \X (0..3) |-> W4(v)] ELSE [v \in lanes \X (0..15) |-> W8(v)]
(* The zero point of a chunk's group times the sum of the chunk.           *)
ZeroTerms(c, p) ==
  LET q == aq_quantize_row(c.layout, c.K)
  IN [v \in UNION {{ch} \X q.xsum[ch] : ch \in 0..(c.K \div 32) - 1} |-> <<v[2], p.meta[(32 * v[1]) \div c.G]>>]
i8_mma_kernel(c, p) ==
  LET q == aq_quantize_row(c.layout, c.K)
      W4(ks, i, t, b) == <<p.row[<<4 * ks + t, 4 * i + b>>], p.meta[ks \div (c.G \div 32)]>>
      W8(ks, i, t, b) == <<p.row[32 * ks + MmaK32(i, t, b)], p.meta[0]>>
  IN [v \in (0..(c.K \div 64) - 1) \X (0..1) \X (0..1) \X (0..3) \X (0..3) |->
        LET ks == 2 * v[1] + v[2]
            b == IF c.kind = "int4g" THEN W4(ks, v[3], v[4], v[5]) ELSE W8(ks, v[3], v[4], v[5])
        IN <<b[1], q.xq[32 * ks + MmaK32(v[3], v[4], v[5])], b[2]>>]
i8_simt_kernel(c, p) ==
  LET q == aq_quantize_row(c.layout, c.K)
  IN [v \in (0..(c.K \div 32) - 1) \X (0..7) \X (0..3) |->
        LET kt == v[1]  at == 32 * kt + 4 * v[2] + v[3]
        IN IF c.kind = "int4g"
           THEN <<p.row[<<4 * kt + (v[2] % 4), 4 * (v[2] \div 4) + v[3]>>], q.xq[at], p.meta[kt \div (c.G \div 32)]>>
           ELSE <<p.row[at], q.xq[at], p.meta[0]>>]
SimtRows(N) == OneSeg(Below([bx \in 0..(Ceil(N, 64) - 1), tx \in 0..15, j \in 0..3 |-> 64 * bx + tx + 16 * j], N))
SimtTokens(M) == Below([by \in 0..(Ceil(M, 64) - 1), ty \in 0..15, i \in 0..3 |-> 64 * by + ty + 16 * i], M)
i8_pick_tile(M, N, w4) ==
  LET t128 == Ceil(M, 128) * Ceil(N, 128)
      t64 == Ceil(M, 64) * Ceil(N, 128)
  IN CASE w4 /\ 2 * t128 >= Sms -> [BM |-> 128, BN |-> 128, WM |-> 2, WN |-> 4]
       [] ~w4 /\ t128 >= Sms -> [BM |-> 128, BN |-> 128, WM |-> 2, WN |-> 4]
       [] ~w4 /\ t128 < Sms /\ t64 >= Sms -> [BM |-> 64, BN |-> 128, WM |-> 2, WN |-> 4]
       [] OTHER -> [BM |-> 32, BN |-> 64, WM |-> 2, WN |-> 2]
I8Takes(c) == c.K % 32 = 0 /\ (c.kind = "int4g" => c.G % 32 = 0 /\ c.K % c.G = 0)
I8Gemv(c) == IF c.kind = "int4g" THEN c.layout = "w4_gemv" ELSE c.M <= 8
vv_i8_gemv_launch_multi(c) ==
  LET lpr == GemvLanes(SumNs(c.Ns), c.K \div Chunk(c))
      Dot == [r \in DOMAIN c.w |-> i8_gemv_kernel(c, c.w[r], lpr)]
      launch == Launch(c, SegRows(c.Ns, 128 \div lpr), AllTokens(c.M), Dot, TRUE)
  IN IF c.M \notin 1..8 \/ ~I8Takes(c) \/ c.layout # (IF c.kind = "int4g" THEN "w4_gemv" ELSE "natural") THEN Err("unsupported")
     ELSE Done(<<IF c.kind = "int4g" THEN [launch EXCEPT !.zeros = [r \in DOMAIN c.w |-> ZeroTerms(c, c.w[r])]] ELSE launch>>, 0)
i8_dispatch(c) ==
  LET t == i8_pick_tile(c.M, c.Ns[1], c.kind = "int4g")
      Mma == [r \in DOMAIN c.w |-> i8_mma_kernel(c, c.w[r])]
      Simt == [r \in DOMAIN c.w |-> i8_simt_kernel(c, c.w[r])]
      gemmLayout == IF c.kind = "int4g" THEN "w4_mma" ELSE "natural"
  IN CASE ~I8Takes(c) -> Err("unsupported")
       [] I8Takes(c) /\ I8Gemv(c) -> vv_i8_gemv_launch_multi(c)
       [] I8Takes(c) /\ ~I8Gemv(c) /\ c.layout # gemmLayout -> Err("unsupported")
       [] I8Takes(c) /\ ~I8Gemv(c) /\ c.layout = gemmLayout /\ c.major >= 8 /\ c.K % 64 = 0 ->
            Done(<<Launch(c, TileRows(c.Ns, t.BN, t.WN, t.BN \div (t.WN * 8)), TileTokens(c.M, t.BM, t.WM, t.BM \div (t.WM * 16)), Mma, TRUE)>>, 0)
       [] OTHER -> Done(<<Launch(c, SimtRows(c.Ns[1]), SimtTokens(c.M), Simt, TRUE)>>, 0)
a8_group(c) ==
  OrElse(IF I8Gemv(c) THEN vv_i8_gemv_launch_multi(c) ELSE Err("unsupported"),
         Each([i \in 1..Len(c.Ns) |-> i8_dispatch(Part(c, i))]))
-----------------------------------------------------------------------------
(* A case: how the weights were stored (src), their shape, and the device. *)
GptqGroups(K, G) == [k \in 0..K-1 |-> k % (K \div G)]
GroupOf(case, k) == IF case.src = "gptq" THEN GptqGroups(case.K, case.G)[k] ELSE k \div case.G
InputOrder(case) == IF case.src = "gptq" THEN CountingSort(case.K, case.G, GptqGroups(case.K, case.G)) ELSE Natural(case.K)
WeightRow(case, perm, kind, seg, n) ==
  LET row == CASE case.src = "awq" -> vv_awq_repack(seg, n, case.K, case.G)
               [] case.src = "gptq" -> vv_gptq_repack(seg, n, case.K, case.G, perm)
               [] OTHER -> QuantizedRow(seg, n, case.K, case.G)
      codes == [k \in 0..case.K-1 |-> <<seg, n, k>>]
  IN CASE kind = "none" -> Packed(codes, <<>>, Natural(case.K))
       [] kind = "int8" -> Packed(codes, [g \in {0} |-> <<seg, n, 0>>], Natural(case.K))
       [] kind = "nf4" -> QuantizedRow(seg, n, case.K, 64)
       [] OTHER -> IF case.legacy \/ ~ToGpuLayout(case.Ns[seg], case.K, case.G) THEN row ELSE vv_int4g_to_gpu_layout(row, case.K)
Sampled(case) == UNION {{<<i, n>> : n \in {0, 3, case.Ns[i] - 1}} : i \in 1..Len(case.Ns)}
Weights(case, perm) == [r \in Sampled(case) |-> WeightRow(case, perm, case.kinds[r[1]], r[1], r[2])]
Call(case, perm, w, d) ==
  [first |-> 1, Ns |-> case.Ns, kinds |-> case.kinds, kind |-> case.kinds[1], K |-> case.K, G |-> case.G, M |-> d.M,
   x |-> Natural(case.K), perm |-> perm, bias |-> d.bias, scratch |-> d.scratch, major |-> d.major, skinny |-> d.skinny, two |-> d.two,
   gpu |-> ~case.legacy /\ \A i \in 1..Len(case.Ns) : ToGpuLayout(case.Ns[i], case.K, case.G),
   layout |-> IF case.kinds[1] = "int4g" THEN vv_w4a8_layout_for(d.M) ELSE "natural", w |-> w]
Run(case, c) ==
  CASE case.act8 -> a8_group(c)
    [] ~case.act8 /\ Len(case.Ns) = 1 -> quant_linear(c)
    [] OTHER -> quant_linear_group(c)

(* What the loader and the quantisers refuse never reaches a kernel.       *)
Loads(case) ==
  /\ case.src = "awq" => \A i \in 1..Len(case.Ns) : AwqTakes(case.Ns[i], case.K, case.G)
  /\ case.src = "gptq" => \A i \in 1..Len(case.Ns) : GptqTakes(case.Ns[i], case.K, case.G, GptqGroups(case.K, case.G))
  /\ case.act8 => ActQuantTakes(case.K)

(* What row r must add up: every column once, with the scale of its group. *)
Scale(case, r, k) ==
  CASE case.kinds[r[1]] = "none" -> "none"
    [] case.kinds[r[1]] = "int8" -> <<r[1], r[2], 0>>
    [] case.kinds[r[1]] = "nf4" -> <<r[1], r[2], k \div 64>>
    [] OTHER -> <<r[1], r[2], GroupOf(case, k)>>
Once(f, S) == Cardinality(DOMAIN f) = Cardinality(S) /\ {f[v] : v \in DOMAIN f} = S

(* Every linear layer the decoder runs is the product of the weights as    *)
(* stored and the input, whatever the packing, the kernel and the fall-    *)
(* backs it goes through (quant_linear, a8_group): each row of each        *)
(* projection is written once for each token, every column of it meets its *)
(* own activation under its own group's scale exactly once, the bias is    *)
(* added once, and a fall-back stays inside the scratch it was given.      *)
IsProduct(case, c, res) ==
  LET Rows == UNION {{<<i, n>> : n \in 0..case.Ns[i] - 1} : i \in 1..Len(case.Ns)}
      Image(l) == {l.rows[v] : v \in DOMAIN l.rows}
      Ran == DOMAIN res.launches
  IN /\ res.status = "ok"
     /\ res.used <= c.scratch
     /\ UNION {Image(res.launches[i]) : i \in Ran} = Rows
     /\ \A i \in Ran : LET l == res.launches[i] IN
          /\ Once(l.rows, Image(l)) /\ \A j \in Ran \ {i} : Image(l) \cap Image(res.launches[j]) = {}
          /\ Once(l.ms, 0..c.M-1)
          /\ l.bias = (IF c.bias THEN 1 ELSE 0)
          /\ \A r \in DOMAIN l.terms :
               /\ r \in Image(l)
               /\ Once(l.terms[r], {<< <<r[1], r[2], k>>, k, Scale(case, r, k)>> : k \in 0..case.K-1})
               /\ l.zeros[r] # <<>> => Once(l.zeros[r], {<<k, Scale(case, r, k)>> : k \in 0..case.K-1})
     /\ UNION {DOMAIN res.launches[i].terms : i \in Ran} = Sampled(case)
=============================================================================
