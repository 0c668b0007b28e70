----------------------------- MODULE ModelLoad -----------------------------
(***************************************************************************)
(* Loading a checkpoint (src/model/loader.c, loader_gguf.c): what each     *)
(* projection becomes is decided by what the file holds and by --quant;    *)
(* SmoothQuant divides a factor out of a producer (a norm, or the rows of  *)
(* the v and up projections) and multiplies it into the consumers; and a   *)
(* load stops at the first tensor it cannot take, freeing what it holds.   *)
(*                                                                         *)
(* A stored projection is a record of what the decisions read: the tensor  *)
(* that holds it, whether its header agrees with the config, its scale     *)
(* groups per row, zero points, column order, companion tensors and bias.  *)
(* Element values are left out: conversion is per element and total.       *)
(***************************************************************************)
EXTENDS Integers, FiniteSets, Sequences

CONSTANTS
  Checkpoints,  \* the checkpoints on disk the model starts from
  Options,      \* the load options a caller passes
  K             \* the columns of every projection

VARIABLES
  ck, opt,      \* the checkpoint and the options of this call
  at,           \* the next stage of model_load_impl, or "loaded", "failed", "freed"
  mem, wmem,    \* the model's blocks, and its projections', allocated and not freed
  w,            \* the projections loaded, by name
  divided,      \* the factors divided out of the layer norms
  embed, head,  \* the block embed_tokens and lm_head point at, or "none"
  tied          \* lm_head_tied

vars == <<ck, opt, at, mem, wmem, w, divided, embed, head, tied>>

Proj == <<"q", "k", "v", "o", "gate", "up", "down">>
Projections == {Proj[i] : i \in 1..7}
NF4_BLOCK == 64
INT4G_LOAD_GROUP == 128
TERNARY_BLOCK == 128

(* A tensor is looked up by name in the sorted index and held to the       *)
(* config's shape, and its byte count to its shape and dtype.              *)
find(p) == ck.form[p]
check_bytes(f) == f.sized
check_shape(f) == f.cols = K /\ check_bytes(f)

(* Parts outside the projections: present, of a float dtype and of the     *)
(* config's shape, or the load stops.                                      *)
load_float(part) == ck.dtype[part] \in {"F16", "BF16", "F32"}
need(part) == part \in DOMAIN ck.dtype /\ load_float(part)

None == [kind |-> "none"]
Refused == [kind |-> "refused"]
Weight(kind, act8, group, perm) ==
  [kind |-> kind, act8 |-> act8, group |-> group, perm |-> perm, layout |-> "rowmajor", zoff |-> 0, mul |-> {}, div |-> {}]
-----------------------------------------------------------------------------
(* SmoothQuant: which factor multiplies a projection's columns, and which  *)
(* divides its rows.                                                        *)
ColMul(p) == CASE p \in {"q", "k", "v"} -> "qkv"
               [] p \in {"gate", "up"} -> "gu"
               [] p = "o" -> "vo"
               [] OTHER -> "ud"
RowDiv(p) == CASE p = "v" -> "vo" [] p = "up" -> "ud" [] OTHER -> "none"

(* The column ranges are read from dense weights only: the maps that are   *)
(* on say which projections must be dense.                                  *)
SmoothReads(maps) == {p \in Projections : ColMul(p) \in maps}
smooth_layer == \A p \in SmoothReads(opt.maps) : find(p).hold = "float" /\ check_shape(find(p))

ActInt8(q) == q \in {"w8a8", "w4a8"}

(* A dense projection: kept in FP16, or cut into the groups of a load-time *)
(* format, which must divide the row. Only then are factors folded in.     *)
LoadDense(p, f, q) ==
  LET kind == CASE q = "nf4" -> "nf4" [] q \in {"int8", "w8a8"} -> "int8" [] OTHER -> "int4g"
      group == CASE kind = "nf4" -> NF4_BLOCK [] kind = "int4g" -> INT4G_LOAD_GROUP [] OTHER -> K
  IN CASE ~check_shape(f) -> Refused
       [] q \in {"auto", "none"} -> Weight("fp16", FALSE, K, FALSE)
       [] K % group # 0 -> Refused
       [] OTHER -> [Weight(kind, ActInt8(q), group, FALSE)
                      EXCEPT !.mul = {ColMul(p)} \cap opt.maps, !.div = {RowDiv(p)} \cap opt.maps]

(* bitsandbytes NF4 codes with their (possibly nested) block scales.       *)
LoadNf4(f, q) ==
  IF q \in {"auto", "nf4"} /\ K % NF4_BLOCK = 0 /\ check_shape(f) /\ f.scales = K \div NF4_BLOCK
  THEN Weight("nf4", FALSE, NF4_BLOCK, FALSE) ELSE Refused

(* compressed-tensors: one scheme, that of the first group of config.json, *)
(* whatever each group targets; groups that disagree are refused.          *)
ct == [bits |-> IF ck.groups = <<>> THEN 0 ELSE ck.groups[1].bits,
       act8 |-> ck.groups # <<>> /\ ck.groups[1].act8,
       mixed |-> \E i \in DOMAIN ck.groups : ck.groups[i] # ck.groups[1]]

(* The bits of a stored projection, the modes they serve, and the scales.  *)
CtBits(f) == IF f.hold = "packed" THEN 4 ELSE IF ct.bits = 0 THEN 8 ELSE ct.bits
CtMode(bits, q) == \/ bits = 8 /\ q \in {"auto", "int8", "w8a8"}
                   \/ bits = 4 /\ q \in {"auto", "int4", "w4a8"}
CtScales(bits, f) ==
  /\ f.scales > 0 /\ K % f.scales = 0
  /\ bits = 8 => f.scales = 1
  /\ bits = 4 => (K \div f.scales) % 32 = 0

(* Its zero points, column order and codes: 8-bit is symmetric only, and   *)
(* only a plain group order loads.                                          *)
LoadCt(f, q) ==
  LET bits == CtBits(f)
      act8 == IF q = "auto" THEN ct.act8 ELSE ActInt8(q)
  IN IF /\ check_shape(f) /\ bits \in {4, 8} /\ CtMode(bits, q) /\ CtScales(bits, f)
        /\ f.zero # "unreadable" /\ f.order # "act"
        /\ bits = 8 => f.zero # "nonzero"
     THEN IF bits = 8 THEN Weight("int8", act8, K, FALSE)
                      ELSE Weight("int4g", act8, K \div f.scales, FALSE)
     ELSE Refused

(* GPTQ stores its zero points minus one unless config.json says v2; an AWQ*)
(* tensor with a g_idx beside it keeps that older meaning.                 *)
zero_bias(f) == IF f.hold = "gptq" THEN (IF ck.gptqV2 THEN 0 ELSE 1) ELSE IF f.order # "none" THEN 1 ELSE 0

(* AWQ and GPTQ: repacked into INT4G. Only GPTQ's g_idx orders columns, and*)
(* an order that is the identity is dropped.                                *)
LoadAwqOrdered(f, q) ==
  IF q \in {"auto", "int4", "w4a8"} /\ check_shape(f) /\ f.scales > 0 /\ K % f.scales = 0
  THEN Weight("int4g", q = "w4a8", K \div f.scales, f.hold = "gptq" /\ f.order = "act")
  ELSE Refused
LoadAwq(f, q) ==
  LET perm == f.hold = "gptq" /\ f.order = "act"
  IN IF /\ q \in {"auto", "int4", "w4a8"} /\ check_shape(f)
        /\ f.scales > 0 /\ K % f.scales = 0
        /\ ~ (q = "w4a8" /\ perm)
     THEN [Weight("int4g", q = "w4a8", K \div f.scales, perm) EXCEPT !.zoff = zero_bias(f)]
     ELSE Refused

(* BitNet's latent F32 weights are ternarized.                             *)
LoadTernary(f) ==
  IF f.hold = "float" /\ check_shape(f) /\ K % TERNARY_BLOCK = 0
  THEN Weight("ternary", FALSE, K, FALSE) ELSE Refused

(* One projection, in whatever form the file holds it, and its bias.       *)
BiasLoads(p, f) ==
  IF f.bias = "none" THEN ~ (ck.attnBias /\ p \in {"q", "k", "v"}) ELSE f.bias = "float"
load_projection(p) ==
  LET f == find(p)
      q == opt.quant
      r == CASE ck.family = "bitnet" -> LoadTernary(f)
             [] f.hold = "U8"        -> LoadNf4(f, q)
             [] f.hold = "float"     -> LoadDense(p, f, q)
             [] f.hold \in {"I8", "packed"} -> LoadCt(f, q)
             [] f.hold \in {"awq", "gptq"}  -> LoadAwq(f, q)
             [] OTHER -> Refused
  IN IF BiasLoads(p, f) THEN r ELSE Refused
-----------------------------------------------------------------------------
(* The choices model_load_impl settles before it opens a file. Families    *)
(* other than BitNet have one weights source, encoder and head.            *)
default_vae == IF opt.cpu THEN "int8" ELSE "float"
Vae == IF ck.family = "bitnet" /\ opt.vae = "auto" THEN default_vae ELSE opt.vae
Source == IF ck.family # "bitnet" THEN "safetensors"
          ELSE IF opt.source # "auto" THEN opt.source
          ELSE IF ck.gguf THEN "gguf" ELSE "safetensors"
OptionsFit ==
  IF ck.family = "bitnet"
  THEN opt.quant = "auto" /\ (opt.head = "int8" => opt.cpu)
  ELSE opt.source = "auto" /\ opt.vae # "int8" /\ opt.head # "int8"

(* Smoothing takes a load-time format and statistics of this model; a      *)
(* compressed-tensors checkpoint takes one scheme.                          *)
SchemesFit ==
  /\ opt.smooth => opt.quant \notin {"auto", "none"} /\ opt.smoothShape
  /\ ~ct.mixed

(* vv_model_free: the layers with every tensor they hold, the encoders,    *)
(* the files, and the embedding and the head unless the head is tied.      *)
Blocks(p) == {<<p, "codes">>, <<p, "scales">>, <<p, "mins">>, <<p, "zeros">>, <<p, "perm">>, <<p, "bias">>}
FreedTables == IF tied THEN <<embed>> ELSE <<embed, head>>
FreedParts == {"model", "layers", "norms", "q6k", "head_i8", "bound", "i8vae", "connectors", "encoders", "files"}
ModelFree == /\ mem' = mem \ (FreedParts \cup {"index", "scratch", "gguf"} \cup {FreedTables[i] : i \in DOMAIN FreedTables})
             /\ wmem' = wmem \ UNION {Blocks(p) : p \in Projections}

(* The blocks one loaded weight owns.                                      *)
Owned(p, r) == {<<p, "codes">>}
  \cup (IF r.kind \in {"nf4", "int8", "int4g"} THEN {<<p, "scales">>} ELSE {})
  \cup (IF r.kind = "int4g" /\ r.layout = "rowmajor" THEN {<<p, "mins">>, <<p, "zeros">>} ELSE {})
  \cup (IF r.perm THEN {<<p, "perm">>} ELSE {})
  \cup (IF find(p).bias = "float" THEN {<<p, "bias">>} ELSE {})

Init ==
  /\ ck \in Checkpoints /\ opt \in Options
  /\ at = "options" /\ mem = {"model"} /\ wmem = {}
  /\ w = [p \in Projections |-> None] /\ divided = {}
  /\ embed = "none" /\ head = "none" /\ tied = FALSE

(* A load that stops: the tensor index goes, then the model.               *)
Fail == /\ at' = "failed" /\ ModelFree
        /\ UNCHANGED <<ck, opt, w, divided, embed, head, tied>>

Start ==
  /\ at = "options"
  /\ IF ~OptionsFit THEN Fail
     ELSE /\ at' = IF Source = "gguf" THEN "gguf" ELSE "open"
          /\ UNCHANGED <<ck, opt, mem, wmem, w, divided, embed, head, tied>>

(* The shards are the distinct names of the index's weight_map, each a     *)
(* file of the model directory.                                            *)
find_safetensors_files == ck.index # <<>> /\ \A i \in DOMAIN ck.index : ck.index[i] # "outside"
(* A name in two shards is refused, once each shard is counted once.       *)
build_index == \A a, b \in {ck.index[i] : i \in DOMAIN ck.index} : a # b => ck.names[a] \cap ck.names[b] = {}
find_prefix == ck.hasPrefix

(* Open every shard, check the schemes, sort the index and find the        *)
(* language model's prefix.                                                 *)
OpenShards ==
  /\ at = "open"
  /\ \/ Fail
     \/ /\ find_safetensors_files /\ SchemesFit /\ build_index /\ find_prefix
        /\ at' = "globals" /\ mem' = mem \cup {"files", "layers", "index"}
        /\ UNCHANGED <<ck, opt, wmem, w, divided, embed, head, tied>>

(* The embedding, the final norm and the head: shared when tied.           *)
LoadGlobals ==
  /\ at = "globals"
  /\ \/ Fail
     \/ /\ need("embed") /\ need("norm") /\ (ck.tie \/ need("head"))
        /\ embed' = "embed"
        /\ tied' = ck.tie
        /\ head' = IF ck.tie THEN "embed" ELSE "head"
        /\ mem' = mem \cup {"embed", "norms"} \cup (IF ck.tie THEN {} ELSE {"head"})
                      \cup (IF ck.tie /\ opt.head = "int8" THEN {"head_i8"} ELSE {})
        /\ at' = "layers"
        /\ UNCHANGED <<ck, opt, wmem, w, divided>>

(* A layer past the config's count is refused; then the layer's factors,   *)
(* norms and projections in the order of Proj.                             *)
LoadNorms ==
  /\ at = "layers"
  /\ \/ Fail
     \/ /\ ~ck.extraLayer /\ need("layernorm")
        /\ opt.smooth => smooth_layer
        /\ divided' = IF opt.smooth THEN {"qkv", "gu"} \cap opt.maps ELSE {}
        /\ mem' = mem \cup (IF opt.smooth THEN {"scratch"} ELSE {})
        /\ at' = Proj[1]
        /\ UNCHANGED <<ck, opt, wmem, w, embed, head, tied>>

LoadProjection ==
  /\ at \in Projections
  /\ LET i == CHOOSE j \in 1..7 : Proj[j] = at
         r == load_projection(at)
     IN \/ Fail
        \/ /\ r # Refused
           /\ w' = [w EXCEPT ![at] = r]
           /\ wmem' = wmem \cup Owned(at, r)
           /\ at' = IF i = 7 THEN "speech" ELSE Proj[i + 1]
           /\ mem' = IF i = 7 THEN mem \ {"scratch"} ELSE mem
           /\ UNCHANGED <<ck, opt, divided, embed, head, tied>>

(* The speech side: connectors and encoders in FP32; then the index goes,  *)
(* and BitNet on the CPU gets the int8 filter in front of its head.        *)
head_filter == IF ck.family = "bitnet" /\ opt.cpu /\ opt.head = "auto" THEN {"head_i8", "bound"} ELSE {}
load_connector == need("connector")
load_encoder == need("encoder")
LoadSpeech ==
  /\ at = "speech" /\ ~ (ck.family = "bitnet" /\ Vae = "int8")
  /\ \/ Fail
     \/ /\ load_connector /\ load_encoder
        /\ mem' = (mem \ {"index"}) \cup {"connectors", "encoders"} \cup head_filter
        /\ at' = "loaded"
        /\ UNCHANGED <<ck, opt, wmem, w, divided, embed, head, tied>>

(* BitNet's int8 encoder, quantized from the F32 tensors of both towers.   *)
load_i8vae_st ==
  /\ at = "speech" /\ ck.family = "bitnet" /\ Vae = "int8"
  /\ \/ Fail
     \/ /\ need("connector") /\ need("encoder") /\ ck.dtype["connector"] = "F32" /\ ck.dtype["encoder"] = "F32"
        /\ mem' = (mem \ {"index"}) \cup {"i8vae"} \cup head_filter
        /\ at' = "loaded"
        /\ UNCHANGED <<ck, opt, wmem, w, divided, embed, head, tied>>

(* BitNet from its GGUF pair: both files are mapped, the dimensions held   *)
(* to config.json, and every tensor copied: I2_S projections as they are,  *)
(* the Q6_K embedding, the F16 head or int8 rows of it, norms and biases.  *)
load_ternary == K % TERNARY_BLOCK = 0
LoadGgufLm ==
  /\ at = "gguf"
  /\ \/ Fail
     \/ /\ ck.ggufArch /\ ck.ggufDims
        /\ load_ternary
        /\ w' = [p \in Projections |-> Weight("ternary", FALSE, K, FALSE)]
        /\ wmem' = {<<p, "codes">> : p \in Projections}
              \cup (IF ck.attnBias THEN {<<p, "bias">> : p \in {"q", "k", "v"}} ELSE {})
        /\ head' = IF opt.head = "int8" THEN "none" ELSE "head"
        /\ mem' = mem \cup {"gguf", "layers", "norms", "q6k"} \cup (IF opt.head = "int8" THEN {"head_i8"} ELSE {"head"})
        /\ at' = "vae"
        /\ UNCHANGED <<ck, opt, divided, embed, tied>>

(* The encoder file: an int8 tower, or every I8_S tensor dequantized under *)
(* its safetensors name. A kernel's front padding must be zero taps and is *)
(* dropped. Both files are closed again, failed or not.                    *)
FrontPadded(kp, k, taps) == kp >= k /\ \A j \in 1..(kp - k) : taps[j] = 0
vae_i8_tower == FrontPadded(Len(ck.taps), ck.kernel, ck.taps)
vae_float == ck.kernel <= Len(ck.taps) /\ \A j \in 1..(Len(ck.taps) - ck.kernel) : ck.taps[j] = 0
LoadGgufVae ==
  /\ at = "vae"
  /\ \/ Fail
     \/ /\ ck.vaeArch /\ (IF Vae = "int8" THEN vae_i8_tower ELSE vae_float)
        /\ mem' = (mem \ {"gguf"}) \cup head_filter
                  \cup (IF Vae = "int8" THEN {"i8vae"} ELSE {"connectors", "encoders"})
        /\ at' = "loaded"
        /\ UNCHANGED <<ck, opt, wmem, w, divided, embed, head, tied>>

(* For the GPU: BitNet's tables become one F16 table (the GGUF's head      *)
(* serves as the embedding), and INT4 weights take the layout of the W4A16 *)
(* kernels where their shape allows it.                                    *)
PrepareBitnet ==
  /\ at = "loaded" /\ ~opt.cpu /\ ck.family = "bitnet" /\ embed = "none"
  /\ IF head # "none"
     THEN embed' = head /\ tied' = TRUE /\ mem' = mem \ {"q6k"}
     ELSE embed' = "embed" /\ mem' = mem \cup {"embed"} /\ UNCHANGED tied
  /\ at' = "ready"
  /\ UNCHANGED <<ck, opt, wmem, w, divided, head>>

GpuShape(r) == r.kind = "int4g" /\ K % 64 = 0 /\ r.group \in {32, 64, 128, 256}
int4g_to_gpu_layout ==
  /\ at = "loaded" /\ ~opt.cpu /\ \E p \in Projections : w[p].kind = "int4g"
  /\ w' = [p \in Projections |-> IF GpuShape(w[p]) THEN [w[p] EXCEPT !.layout = "gpu"] ELSE w[p]]
  /\ wmem' = {b \in wmem : ~ \E p \in Projections : GpuShape(w[p]) /\ b \in {<<p, "mins">>, <<p, "zeros">>}}
  /\ at' = "ready"
  /\ UNCHANGED <<ck, opt, mem, divided, embed, head, tied>>

Free ==
  /\ at \in {"loaded", "ready"}
  /\ at' = "freed" /\ ModelFree
  /\ UNCHANGED <<ck, opt, w, divided, embed, head, tied>>

Next == Start \/ OpenShards \/ LoadGlobals \/ LoadNorms \/ LoadProjection
        \/ LoadSpeech \/ load_i8vae_st \/ LoadGgufLm \/ LoadGgufVae \/ PrepareBitnet \/ int4g_to_gpu_layout \/ Free
-----------------------------------------------------------------------------
(* A load that fails, and a model that is freed, leave no block behind,    *)
(* and no table is freed twice: a tied head is the embedding, whichever of *)
(* the two the file held (vv_model_free).                                  *)
LoadFreesAll ==
  /\ at \in {"failed", "freed"} => mem = {} /\ wmem = {}
  /\ embed # "none" /\ ~tied => embed # head
  /\ {embed, head} \ {"none"} \subseteq mem \/ at \in {"failed", "freed"}

(* What --quant asked for is what every projection of a loaded model is,   *)
(* whatever form the file held, and int8 activations never meet a column   *)
(* permutation, which their kernels do not take.                           *)
LoadedAsAsked ==
  at \in {"loaded", "ready"} =>
    \A p \in Projections :
      /\ w[p].kind = CASE ck.family = "bitnet" -> "ternary"
                       [] opt.quant = "none" -> "fp16"
                       [] opt.quant = "nf4" -> "nf4"
                       [] opt.quant \in {"int8", "w8a8"} -> "int8"
                       [] opt.quant \in {"int4", "w4a8"} -> "int4g"
                       [] OTHER -> w[p].kind
      /\ opt.quant \in {"w8a8", "w4a8"} => w[p].act8
      /\ w[p].act8 => ~w[p].perm /\ w[p].kind \in {"int8", "int4g"}

(* SmoothQuant changes nothing but the rounding: a factor divided out of a *)
(* norm or of a projection's rows is multiplied into every projection that *)
(* reads it, and the other way round. It is what keeps the model the same  *)
(* when the maps that check a producer's form are on with those that       *)
(* divide its rows (VV_SMOOTH_MAPS_DEFAULT).                               *)
MapsChecked == ("vo" \in opt.maps => "qkv" \in opt.maps) /\ ("ud" \in opt.maps => "gu" \in opt.maps)
Produced == divided \cup UNION {w[p].div : p \in Projections}
SmoothBalanced ==
  at \in {"loaded", "ready"} /\ ck.family # "bitnet" /\ MapsChecked =>
    \A p \in Projections : w[p].mul = {ColMul(p)} \cap Produced
=============================================================================
