------------------------------ MODULE Attention ------------------------------
(***************************************************************************)
(* Attention over the cached keys and values on the GPU: the store formats *)
(* (src/cuda/kv_codec.cuh, kv_quant.cu), the kernels that read them        *)
(* (attention.cu, attention_decode.cu, attention_fi.cu, attn_common.cuh)   *)
(* and the choice between them (vv_attn_resolve, vv_attn_prefill,          *)
(* vv_attn_decode).                                                        *)
(*                                                                         *)
(* Of an attention row only what enters its softmax is kept: a visit is    *)
(* the position whose key was scored, the position whose value it weighs,  *)
(* and the store row both were read from. Merging partial states is the    *)
(* union of their visits; `by` tells two visits of one position apart.     *)
(***************************************************************************)
EXTENDS Integers, Sequences, FiniteSets, Bitwise

CONSTANTS MaxParts     \* VV_DECODE_MAX_PARTS, a multiple of DecodeWarps

Page == 64
Dims == 128
DecodeWarps == 8
PosPerWarp == 128
BC == 64
FaBR == 8
FaBC == 32
RowsBR == 64
MapBatch == 32

CeilDiv(a, b) == (a + b - 1) \div b
Least(a, b) == IF a < b THEN a ELSE b
Most(a, b) == IF a < b THEN b ELSE a
-----------------------------------------------------------------------------
(* TurboQuant: 128 values as codes of a few bits. Lane l of a warp owns    *)
(* dims 4l..4l+3; tq1.5 codes a pair of dims at a time.                    *)
Turbo == {"tq4", "tq3", "tq2", "tq1.5"}
KVBits == [f \in Turbo |-> CASE f = "tq4" -> 16 [] f = "tq3" -> 12 [] f = "tq2" -> 8 [] OTHER -> 6]
CodeBits == [f \in Turbo |-> CASE f = "tq4" -> 4 [] f = "tq2" -> 2 [] OTHER -> 3]
BytesPerVec(f) == CASE f = "tq4" -> Dims \div 2 [] f = "tq3" -> (Dims * 3) \div 8
                    [] f = "tq2" -> Dims \div 4 [] f = "tq1.5" -> (Dims * 3) \div 16
                    [] f = "fp16" -> Dims * 2 [] OTHER -> Dims
PerLane(f) == KVBits[f] \div CodeBits[f]
CodeOf(f, d) == IF f = "tq1.5" THEN d \div 2 ELSE d

(* pack4: code i of a lane at bit CodeBits * i of its slice. A stored bit  *)
(* is <<code, bit of the code>>.                                           *)
pack4(f, lane, b) == <<PerLane(f) * lane + (b \div CodeBits[f]), b % CodeBits[f]>>

(* kv_store_kernel: the slices of the 32 lanes are ORed into 32-bit words, *)
(* what does not fit a word into the next; bpv / 4 words are written. A    *)
(* word is the function from its bits to the stored bits ORed there.       *)
Deposits(f) ==
  LET Bit(lane) == KVBits[f] * lane
  IN {<<Bit(lane) \div 32, (Bit(lane) % 32) + b, pack4(f, lane, b)>> : lane \in 0..31, b \in 0..KVBits[f] - 1}
DepositsNoSpill(f) == {<<d[1], d[2] % 32, d[3]>> : d \in Deposits(f)}
Spilled(f) == {IF d[2] < 32 THEN d ELSE <<d[1] + 1, d[2] - 32, d[3]>> : d \in Deposits(f)}
kv_store_words(f) ==
  LET all == Spilled(f)
  IN [w \in 0..(BytesPerVec(f) \div 4) - 1 |-> [i \in 0..31 |-> {d[3] : d \in {e \in all : e[1] = w /\ e[2] = i}}]]

(* warp_fetch_bits: a lane takes its slice out of two words of the warp.   *)
warp_fetch_bits(f, words, lane) ==
  LET bit == KVBits[f] * lane
      sh == bit % 32
      Mine(w) == IF w \in DOMAIN words THEN words[w] ELSE [i \in 0..31 |-> {}]
      lo == Mine(bit \div 32)
      hi == Mine(((bit \div 32) + 1) % 32)
  IN [i \in 0..KVBits[f] - 1 |->
        (IF i + sh < 32 THEN lo[i + sh] ELSE {}) \cup (IF sh > 0 /\ i >= 32 - sh THEN hi[i - (32 - sh)] ELSE {})]

(* att_bits of att_q_commit: a thread decodes a run of whole words.        *)
RunValues(f) == IF f = "tq1.5" THEN 64 ELSE 32
RunWords(f) == (KVBits[f] * (RunValues(f) \div 4)) \div 32
att_bits(f, words, j, b, n) ==
  LET k == b \div 32
      sh == b % 32
      Word(i) == words[j * RunWords(f) + i]
  IN [i \in 0..n - 1 |->
        (IF i + sh < 32 THEN Word(k)[i + sh] ELSE {})
        \cup (IF sh + n > 32 /\ k + 1 < RunWords(f) /\ i >= 32 - sh THEN Word(k + 1)[i - (32 - sh)] ELSE {})]

(* The code each reader decodes dim d from: kv_read4, gd_decode by lane,   *)
(* att_q_commit by run.                                                    *)
LaneCode(f, words, d) ==
  LET bits == warp_fetch_bits(f, words, d \div 4)
      first == CodeBits[f] * (IF f = "tq1.5" THEN (d % 4) \div 2 ELSE d % 4)
  IN [i \in 0..CodeBits[f] - 1 |-> bits[first + i]]
gd_decode(f, words, d) ==
  LET lane == d \div 4
      sh == (KVBits[f] * lane) % 32
      Held(w) == IF w < (KVBits[f] * 32 + 31) \div 32 THEN words[w] ELSE [i \in 0..31 |-> {}]
      lo == Held((KVBits[f] * lane) \div 32)
      hi == Held((((KVBits[f] * lane) \div 32) + 1) % 32)
      first == CodeBits[f] * (IF f = "tq1.5" THEN (d % 4) \div 2 ELSE d % 4)
      v == [i \in 0..KVBits[f] - 1 |-> IF i + sh < 32 THEN lo[i + sh] ELSE hi[i - (32 - sh)]]
  IN [i \in 0..CodeBits[f] - 1 |-> v[first + i]]
RunCode(f, words, d) ==
  LET v == d % RunValues(f)
  IN att_bits(f, words, d \div RunValues(f), CodeBits[f] * (IF f = "tq1.5" THEN v \div 2 ELSE v), CodeBits[f])
Stored(f, d) == [i \in 0..CodeBits[f] - 1 |-> {<<CodeOf(f, d), i>>}]
-----------------------------------------------------------------------------
(* FP8. A number is mantissa * 2^exponent, the mantissa with MBits below   *)
(* its leading one (23 in the code; the rounding looks at the bit dropped  *)
(* first and at whether any other is set).                                 *)
MBits == 6
Mini == [e4m3 |-> [man |-> 3, bias |-> 7, top |-> 8, last |-> 126], e5m2 |-> [man |-> 2, bias |-> 15, top |-> 15, last |-> 123]]
Scaled(m, e, base) == m * 2^(e - base)
(* a >= 464 for e4m3, a >= 61440 for e5m2: half a step past the last.      *)
Saturates(t, e, m) ==
  \/ e > Mini[t].top
  \/ e = Mini[t].top /\ (2^MBits + m) * 2^(Mini[t].man + 1) >= 2^MBits * (IF t = "e4m3" THEN 29 ELSE 15)

f2e(t, e, m) ==
  LET p == Mini[t]
      drop == MBits - p.man
      mm == m \div 2^drop
      rem == m % 2^drop
      up == rem > 2^(drop - 1) \/ (rem = 2^(drop - 1) /\ mm % 2 = 1)
      carry == up /\ mm + 1 = 2^p.man
      shift == (MBits - e) - (p.bias - 1 + p.man)
      q == IF shift > 2 * MBits + 2 THEN 0 ELSE ((2^MBits + m) + 2^(shift - 1)) \div 2^shift
  IN CASE Saturates(t, e, m) -> p.last
       [] e < 1 - p.bias -> Least(q, 2^p.man)
       [] OTHER -> LET e2 == IF carry THEN e + 1 ELSE e
                   IN IF e2 > p.top THEN p.last
                      ELSE (e2 + p.bias) * 2^p.man + (IF carry THEN 0 ELSE IF up THEN mm + 1 ELSE mm)

e2f(t, v) ==
  LET p == Mini[t]
      e == v \div 2^p.man
      m == v % 2^p.man
  IN IF e = 0 THEN [m |-> m, e |-> 1 - p.bias - p.man] ELSE [m |-> 2^p.man + m, e |-> e - p.bias - p.man]

(* att_q_commit's way: the bits of the byte moved into an FP16, for e4m3   *)
(* also times 2^8.                                                         *)
HalfValue(h) ==
  LET e == (h \div 1024) % 32
      m == h % 1024
  IN IF e = 0 THEN [m |-> m, e |-> -24] ELSE [m |-> 1024 + m, e |-> e - 25]
CommitValue(t, v) ==
  IF t = "e5m2" THEN HalfValue(v * 256)
  ELSE LET h == HalfValue(v * 128) IN [h EXCEPT !.e = @ + 8]
SameNumber(a, b) == LET base == Least(a.e, b.e) IN Scaled(a.m, a.e, base) = Scaled(b.m, b.e, base)

(* No code is nearer to the number than the one chosen.                    *)
IsNearest(t, e, m) ==
  LET c == f2e(t, e, m)
      base == Least(e - MBits, 2 - Mini[t].bias - Mini[t].man - MBits)
      near == IF e < 1 - Mini[t].bias THEN base ELSE Least(e, Mini[t].top) - MBits - 4
      x == Scaled(2^MBits + m, e - MBits, near)
      Off(v) == LET y == e2f(t, v) IN LET z == Scaled(y.m, y.e, near) IN IF z < x THEN x - z ELSE z - x
  IN \A v \in {c - 1, c + 1} \cap 0..Mini[t].last : Off(c) <= Off(v)
-----------------------------------------------------------------------------
(* The codebooks, in thousandths; pack4 counts the midpoints below a value.*)
(* (tq1.5 searches its eight pairs for the closest.)                       *)
Levels == [tq4 |-> <<-2725, -2065, -1614, -1252, -939, -654, -387, -128, 128, 387, 654, 939, 1252, 1614, 2065, 2725>>,
           tq3 |-> <<-2150, -1343, -756, -245, 245, 756, 1343, 2150>>, tq2 |-> <<-1511, -452, 452, 1511>>]
LevelOf(f, t) == LET l == Levels[f] IN Cardinality({j \in 1..Len(l) - 1 : 2 * t > l[j] + l[j + 1]})
-----------------------------------------------------------------------------
(* The rotation of Q, K and the output: signs, then the Walsh-Hadamard     *)
(* transform of 128 values, 4 a lane: strides 1 and 2 inside a lane,       *)
(* strides 4..64 between lanes m apart. The factor 1/sqrt(128) is left out.*)
(* Only the low bits of the 32-bit hash reach the sign.                    *)
HashLow[d \in 0..Dims - 1] == IF d = 0 THEN 506952121 ELSE (HashLow[d - 1] + 506952113) % 2^29
kv_sign(d) ==
  LET y == (HashLow[d] % 2^14) ^^ ((HashLow[d] \div 2^15) % 2^14)
      x == (y * 2667) % 2^14
  IN IF ((x % 2) + (x \div 2^13)) % 2 = 1 THEN -1 ELSE 1

Strides == <<1, 2, 4, 8, 16, 32, 64>>
Butterfly(v, s) == [d \in 0..Dims - 1 |-> IF (d \div s) % 2 = 0 THEN v[d] + v[d + s] ELSE v[d - s] - v[d]]
Signed(v) == [d \in 0..Dims - 1 |-> kv_sign(d) * v[d]]

(* kv_rotate_kernel, one step of the transform at a time: the signs come   *)
(* first on the way in, last on the way back.                              *)
RotateStep(v, k) == CASE k = 0 -> Signed(v) [] k \in 1..7 -> Butterfly(v, Strides[k])
                      [] k \in 8..14 -> Butterfly(v, Strides[k - 7]) [] OTHER -> Signed(v)
Unit(i) == [d \in 0..Dims - 1 |-> IF d = i THEN 1 ELSE 0]
-----------------------------------------------------------------------------
(* Pages. vv_kv_page_map_dev writes a run of the table, MapBatch ids a     *)
(* launch; kv_phys_row follows the table.                                  *)
vv_kv_page_map_dev(table, first, pages) ==
  LET n == Len(pages)
      At(i, j) == first + i * MapBatch + j
      writes == {<<i, j>> \in (0..CeilDiv(n, MapBatch) - 1) \X (0..MapBatch - 1) : j < Least(n - i * MapBatch, MapBatch)}
  IN [k \in DOMAIN table |->
        IF \E w \in writes : At(w[1], w[2]) = k
        THEN LET w == CHOOSE w \in writes : At(w[1], w[2]) = k IN pages[w[1] * MapBatch + w[2] + 1]
        ELSE table[k]]
kv_phys_row(c, t) == IF c.paged THEN c.table[t \div Page] * Page + (t % Page) ELSE t

(* Rows a store of n positions writes, with the source position of each:   *)
(* a warp a (position, head) vector, four warps a block, or a thread       *)
(* sixteen bytes of a raw vector, 256 a block.                             *)
StoreQuant(c, pos, n) ==
  {<<kv_phys_row(c, pos + (i \div c.nkv)), i % c.nkv, i \div c.nkv>> :
     i \in {b * 4 + w : b \in 0..CeilDiv(n * c.nkv, 4) - 1, w \in 0..3} \cap 0..(n * c.nkv) - 1}
StoreRaw(c, pos, n) ==
  LET chunks == Dims \div 8
      per == c.nkv * chunks
  IN {<<kv_phys_row(c, pos + (i \div per)), (i % per) \div chunks, i \div per>> :
        i \in {b * 256 + t : b \in 0..CeilDiv(n * per, 256) - 1, t \in 0..255} \cap 0..(n * per) - 1}
vv_kv_store_dev(c, pos, n) == IF c.fmt = "fp16" THEN StoreRaw(c, pos, n) ELSE StoreQuant(c, pos, n)
-----------------------------------------------------------------------------
(* Decode: the cache in parts, a warp each, merged by a second kernel that *)
(* reads every part. A replayed graph keeps the part count of the length   *)
(* it was captured at and takes the length from the device.                *)
Visit(by, k, v, row) == [by |-> by, k |-> k, v |-> v, row |-> row]
vv_decode_n_parts(len) == DecodeWarps * CeilDiv(Least(Most(CeilDiv(len, PosPerWarp), 1), MaxParts), DecodeWarps)

SplitPartsFloor(len, n) ==
  [p \in 0..n - 1 |-> LET chunk == len \div n IN p * chunk .. Least((p + 1) * chunk, len) - 1]
SplitParts(len, n) ==
  [p \in 0..n - 1 |-> LET chunk == CeilDiv(len, n) IN p * chunk .. Least((p + 1) * chunk, len) - 1]

(* What is launched: n_parts / DecodeWarps blocks of DecodeWarps parts, or *)
(* a block a part. A part that is not launched leaves a hole for the merge.*)
LaunchedParts(n, spread) == IF spread THEN 0..n - 1 ELSE {y * DecodeWarps + w : y \in 0..(n \div DecodeWarps) - 1, w \in 0..DecodeWarps - 1}
Merged(n, part) == [holes |-> (0..n - 1) \ DOMAIN part, visits |-> UNION {part[p] : p \in DOMAIN part}]

flash_decode_split_kernel(c, n) == [p \in 0..n - 1 |-> {Visit(p, t, t, t) : t \in SplitParts(c.dlen, n)[p]}]
q_decode_split_kernel(c, n) == [p \in 0..n - 1 |-> {Visit(p, t, t, t) : t \in SplitParts(c.dlen, n)[p]}]
(* Position t was fetched while t - 1 was computed.                        *)
gqa_decode_kernel(c) ==
  LET n == vv_decode_n_parts(c.kv_len)
      G == c.nq \div c.nkv
      packed == G = 1 \/ (c.fmt # "fp16" /\ c.nkv * n >= 4 * c.sms)
      Ahead(own, t) == IF t + 1 \in own THEN t + 1 ELSE t
      Fetch(own, t) == IF t - 1 \in own THEN Ahead(own, t - 1) ELSE t
  IN Merged(n, [p \in LaunchedParts(n, ~packed) |->
       LET own == SplitParts(c.dlen, n)[p]
       IN {Visit(p, Fetch(own, t), Fetch(own, t), kv_phys_row(c, Fetch(own, t))) : t \in own}])

(* att_fi_decode_parts steps every 1024 positions.                         *)
att_fi_decode_parts(nkv, len) == Least(4 * Most(CeilDiv(len, 1024), 1), Least(Most(MaxParts \div nkv, 4), MaxParts))
-----------------------------------------------------------------------------
(* Tensor-core tiles of BC positions. Columns of a fragment are            *)
(* 8n + 2 quad + i; the probabilities of two fragments meet V's rows in    *)
(* the same order. A tile wholly below full_to is not masked.              *)
Columns(n) == {<<k, quad, i>> : k \in 0..n - 1, quad \in 0..3, i \in 0..1}
ScoreColumn(x) == 8 * x[1] + 2 * x[2] + x[3]
ValueRow(x) == 16 * (x[1] \div 2) + 8 * (x[1] % 2) + 2 * x[2] + x[3]
Visible(c, kvLen, q, kp) == kp < kvLen /\ (~c.causal \/ kp <= c.off + q)
TileVisits(c, kvLen, q, fullTo, by, kv0, n, shift) ==
  LET prow0 == IF c.paged THEN c.table[kv0 \div Page] * Page ELSE kv0
      seen == IF kv0 + BC <= fullTo THEN Columns(n) ELSE {x \in Columns(n) : Visible(c, kvLen, q, kv0 + shift + ScoreColumn(x))}
  IN {Visit(<<by, kv0, shift, x>>, kv0 + shift + ScoreColumn(x), kv0 + shift + ValueRow(x), prow0 + shift + ScoreColumn(x)) : x \in seen}

Bound(c, kvLen, q) == IF c.causal THEN Least(c.off + q + 1, kvLen) ELSE kvLen

(* Rows are (position, head) pairs, 64 a block; the loop                   *)
(* ends at the limit of the block's last row.                              *)
att_rows_kernel(c, q, r) ==
  LET G == c.nq \div c.nkv
      row0 == RowsBR * (r \div RowsBR)
      last == Least(row0 + RowsBR, c.q_len * G) - 1
      tiles == CeilDiv(Bound(c, c.kv_len, last \div G), BC)
  IN [holes |-> {}, visits |-> UNION {TileVisits(c, c.kv_len, q, Bound(c, c.kv_len, row0 \div G), 0, BC * t, 8, 0) : t \in 0..tiles - 1}]

(* 16 rows a block, the cache in parts of whole tiles,                     *)
(* four warps share a tile's positions.                                    *)
att_split_kernel(c, kvLen, parts, q, r) ==
  LET G == c.nq \div c.nkv
      row0 == 16 * (r \div 16)
      last == Least(row0 + 16, c.q_len * G) - 1
      chunk == BC * CeilDiv(CeilDiv(kvLen, parts), BC)
      end(p) == Least((p + 1) * chunk, Bound(c, kvLen, last \div G))
      tiles(p) == IF end(p) > p * chunk THEN CeilDiv(end(p) - p * chunk, BC) ELSE 0
  IN Merged(parts, [p \in 0..parts - 1 |->
       UNION {TileVisits(c, kvLen, q, Bound(c, kvLen, row0 \div G), p, p * chunk + BC * t, 2, 16 * w) : t \in 0..tiles(p) - 1, w \in 0..3}])

(* Scalar prefill: a warp a row, a lane a position of the tile; the loop   *)
(* ends at the limit of the block's last row, past q_len or not.           *)
flash_attn2_prefill_kernel(c, q) ==
  LET lastRow == FaBR * (q \div FaBR) + FaBR - 1
      tiles == CeilDiv(Bound(c, c.kv_len, lastRow), FaBC)
  IN [holes |-> {}, visits |-> {Visit(0, p, p, p) : p \in {x \in 0..(FaBC * tiles) - 1 : Visible(c, c.kv_len, q, x)}}]
q_prefill_kernel(c, q) ==
  LET tile == FaBR * (q \div FaBR)
      limit == IF c.causal THEN Least(c.off + tile + FaBR, c.kv_len) ELSE c.kv_len
      Loaded(tj) == {g \in FaBC * tj..(FaBC * tj) + FaBC - 1 : g < c.kv_len}
  IN [holes |-> {}, visits |-> {Visit(0, p, p, p) : p \in {x \in UNION {Loaded(tj) : tj \in 0..CeilDiv(limit, FaBC) - 1} : ~c.causal \/ x <= c.off + q}}]
-----------------------------------------------------------------------------
(* The rows a launch writes: <<position, head>> with its writer.           *)
PackedRows(c, perBlock) ==
  LET G == c.nq \div c.nkv
      rows == c.q_len * G
  IN {<<r \div G, (kv * G) + (r % G), r>> : kv \in 0..c.nkv - 1,
        r \in {y * perBlock + 16 * w + g + 8 * h : y \in 0..CeilDiv(rows, perBlock) - 1, w \in 0..(perBlock \div 16) - 1, g \in 0..7, h \in 0..1} \cap 0..rows - 1}
HeadRows(c) == {<<t * FaBR + w, h, t * FaBR + w>> : h \in 0..c.nq - 1, t \in 0..CeilDiv(c.q_len, FaBR) - 1, w \in 0..FaBR - 1}
ScalarRows(c) == {x \in HeadRows(c) : x[1] < c.q_len}

(* A launch: the kernel, its parts, the rows it writes.                    *)
Refused == [kernel |-> "none"]
Launch(kernel, parts, rows) == [kernel |-> kernel, parts |-> parts, rows |-> rows]

vv_attn_gqa_decode_ok(c) == c.nkv > 0 /\ c.nq % c.nkv = 0 /\ c.nq \div c.nkv \in {1, 2, 4, 6, 7, 8}
FiTakes(c) == c.nkv > 0 /\ c.nq % c.nkv = 0 /\ c.nq \div c.nkv <= 16

(* vv_attn_resolve                                                         *)
vv_attn_resolve(c, want, paged) ==
  LET fi == c.sm >= 75 /\ FiTakes(c)
      fa2 == fi /\ vv_attn_gqa_decode_ok(c)
      slab == IF fa2 THEN "fa2" ELSE "fa1"
  IN CASE paged /\ want = "flashinfer" /\ fi -> "flashinfer"
       [] paged /\ fa2 /\ c.fmt = "fp16" -> "fa2"
       [] paged -> IF fi THEN "flashinfer" ELSE "fa1"
       [] want = "flashinfer" -> IF fi THEN "flashinfer" ELSE slab
       [] want = "fa1" -> "fa1"
       [] OTHER -> slab

(* pipeline_init: pages only where the kernels asked for read them.        *)
Paging(c, want, mode, slots) ==
  LET slab == vv_attn_resolve(c, want, FALSE)
      paged == vv_attn_resolve(c, want, TRUE)
  IN /\ paged = "flashinfer" \/ (paged = "fa2" /\ c.fmt = "fp16")
     /\ mode = "on" \/ (mode = "auto" /\ slots > 1 /\ paged = slab)
     /\ want = "auto" \/ paged = want

(* vv_attn_fi_prefill_dev splits the cache for few rows, if the partials   *)
(* fit the scratch: q_len * parts rows a head at most.                     *)
SplitFor(c) ==
  LET G == c.nq \div c.nkv
      blocks == c.nkv * CeilDiv(c.q_len * G, RowsBR)
      base == c.nkv * CeilDiv(c.q_len * G, 16)
      parts == Least(CeilDiv(2 * c.sms, base), Least(MaxParts \div c.q_len, CeilDiv(c.kv_len, 4 * BC)))
  IN IF 2 * blocks <= c.sms /\ c.q_len <= MaxParts /\ c.kv_len >= 2 * BC /\ parts >= 2 THEN parts ELSE 1
Fits(c, parts, rows) == \A x \in rows : \A p \in 0..parts - 1 : (x[1] * c.nq + x[2]) * parts + p < c.nq * MaxParts

vv_attn_fi_prefill_dev(c, packedOnly) ==
  LET parts == IF packedOnly THEN 1 ELSE SplitFor(c)
  IN IF ~FiTakes(c) THEN Refused
     ELSE IF parts = 1 THEN Launch("rows", 1, PackedRows(c, RowsBR)) ELSE Launch("split", parts, PackedRows(c, 16))
vv_attn_fa1_prefill_dev(c) == Launch("fa1", 1, ScalarRows(c))
vv_gqa_attention_prefill_q_dev(c) == Launch("q", 1, ScalarRows(c))
vv_attn_prefill(c, backend) ==
  CASE backend = "flashinfer" -> vv_attn_fi_prefill_dev(c, FALSE)
    [] backend = "fa2" /\ c.fmt = "fp16" -> vv_attn_fi_prefill_dev(c, TRUE)
    [] c.paged -> Refused
    [] c.fmt = "fp16" -> vv_attn_fa1_prefill_dev(c)
    [] OTHER -> vv_gqa_attention_prefill_q_dev(c)

EachHead(c) == {<<0, h, h>> : h \in 0..c.nq - 1}
vv_attn_fi_decode_dev(c) == IF FiTakes(c) THEN Launch("split", att_fi_decode_parts(c.nkv, c.kv_len), PackedRows(c, 16)) ELSE Refused
vv_attn_gqa_decode_dev(c) == IF vv_attn_gqa_decode_ok(c) THEN Launch("gqa", vv_decode_n_parts(c.kv_len), EachHead(c)) ELSE Refused
vv_gqa_attention_decode_dev(c) == Launch("fa1 parts", vv_decode_n_parts(c.kv_len), EachHead(c))
vv_gqa_attention_decode_q_dev(c) == Launch("q parts", vv_decode_n_parts(c.kv_len), EachHead(c))
vv_attn_decode(c, backend) ==
  CASE backend = "flashinfer" -> vv_attn_fi_decode_dev(c)
    [] backend = "fa2" /\ vv_attn_gqa_decode_ok(c) -> vv_attn_gqa_decode_dev(c)
    [] c.paged -> Refused
    [] c.fmt = "fp16" -> vv_gqa_attention_decode_dev(c)
    [] OTHER -> vv_gqa_attention_decode_q_dev(c)

(* Decoder layers call decode for one row, prefill for more.               *)
Call(c, backend) == IF c.q_len = 1 THEN vv_attn_decode(c, backend) ELSE vv_attn_prefill(c, backend)
RowOf(c, launch, x) ==
  LET Parts(v) == Merged(launch.parts, [p \in LaunchedParts(launch.parts, FALSE) |-> v[p]])
  IN CASE launch.kernel = "rows" -> att_rows_kernel(c, x[1], x[3])
       [] launch.kernel = "split" -> att_split_kernel(c, c.dlen, launch.parts, x[1], x[3])
       [] launch.kernel = "fa1" -> flash_attn2_prefill_kernel(c, x[1])
       [] launch.kernel = "q" -> q_prefill_kernel(c, x[1])
       [] launch.kernel = "gqa" -> gqa_decode_kernel(c)
       [] launch.kernel = "fa1 parts" -> Parts(flash_decode_split_kernel(c, launch.parts))
       [] OTHER -> Parts(q_decode_split_kernel(c, launch.parts))
-----------------------------------------------------------------------------
(* What is read of a vector is what was stored: every reader finds the     *)
(* bits of dim d's code and no other, and a code is the nearest there is.  *)
CodesReadBack(f) ==
  LET words == kv_store_words(f)
  IN \A d \in 0..Dims - 1 : {LaneCode(f, words, d), gd_decode(f, words, d), RunCode(f, words, d)} = {Stored(f, d)}
LevelsNearest(f, t) ==
  LET l == Levels[f]
      Off(i) == IF l[i] < t THEN t - l[i] ELSE l[i] - t
  IN \A i \in 1..Len(l) : Off(LevelOf(f, t) + 1) <= Off(i)
NumberReadBack(t, e, m) ==
  /\ IsNearest(t, e, m)
  /\ SameNumber(CommitValue(t, f2e(t, e, m)), e2f(t, f2e(t, e, m)))

(* A row's softmax takes every position it may see once, with the key and  *)
(* the value of that position, from the row they were stored in; every     *)
(* part that is merged was run, and every row is written once, inside the  *)
(* scratch.                                                                *)
Complete(c, launch, x) ==
  LET r == RowOf(c, launch, x)
      seen == {p \in 0..c.dlen - 1 : Visible(c, c.dlen, x[1], p)}
  IN /\ r.holes = {} /\ {v.k : v \in r.visits} = seen /\ Cardinality(r.visits) = Cardinality(seen)
     /\ \A v \in r.visits : v.v = v.k /\ v.row = kv_phys_row(c, v.k)
RowsOnce(c, launch) ==
  /\ {<<x[1], x[2]>> : x \in launch.rows} = (0..c.q_len - 1) \X (0..c.nq - 1)
  /\ Cardinality(launch.rows) = c.q_len * c.nq
  /\ launch.parts > 1 => Fits(c, launch.parts, launch.rows)
StoredOnce(c, pos, n) ==
  vv_kv_store_dev(c, pos, n) = {<<kv_phys_row(c, pos + p), h, p>> : p \in 0..n - 1, h \in 0..c.nkv - 1}
==============================================================================
