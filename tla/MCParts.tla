------------------------------ MODULE MCParts ------------------------------
(***************************************************************************)
(* One run over the parts of the library that work on their own: each      *)
(* behaviour is one suite, chosen at the start. The tile ring, the         *)
(* microphone, layer streaming, the resampler, a context's life, the       *)
(* segmenter and the backend of streaming sessions have the variables of   *)
(* their modules. The other suites share v1 to v16: a suite maps its own   *)
(* onto the first of them. What a suite does not use stays idle. A suite of*)
(* a pure part takes its input from v1, which grows by one element at a    *)
(* time where it is computed in stages.                                    *)
(***************************************************************************)
EXTENDS Integers, Sequences, FiniteSets, TileRing, MicCapture, LayerStream, Resampler, ContextLife, Vad, StreamBackend

VARIABLES suite, v1, v2, v3, v4, v5, v6, v7, v8, v9, v10, v11, v12, v13, v14, v15, v16

MCRings == {[kind |-> "async", stages |-> s, tiles |-> n] : s \in 2..4, n \in {1, 2, 5}}
           \cup {[kind |-> "kv", stages |-> 2, tiles |-> 4], [kind |-> "double", stages |-> 2, tiles |-> 4],
                 [kind |-> "single", stages |-> 1, tiles |-> 3]}
RingIdle == /\ ring = [kind |-> "single", stages |-> 1, tiles |-> 3]
            /\ pc = [w \in Warps |-> "load"] /\ kt = [w \in Warps |-> 0]
            /\ slot = [s \in {0} |-> [p \in Warps |-> -1]] /\ flight = {}
\* Rates on both sides of one.
MCRates == {<<2, 2>>, <<1, 3>>, <<2, 3>>, <<3, 1>>, <<7, 3>>, <<441, 160>>}
ResamplerIdle == ResampleInit /\ rs.in = rs.out
\* Three layers over one or two slots, so the slot of the first layer changes
\* from pass to pass; any prefix of them resident.
LayersIdle == LayerInit /\ pool = [bufs |-> 1, resident |-> 0, prefetch |-> FALSE]
\* A parent and two clones, every kind of placement.
LifeIdle == LifeInit /\ conf = [place |-> "all", part |-> FALSE, paged |-> FALSE, sharded |-> FALSE, tied |-> FALSE, unified |-> FALSE, bitnet |-> FALSE]

Idle(v) == v = 0
Idle12 == Idle(v13) /\ Idle(v14) /\ Idle(v15) /\ Idle(v16)
Idle10 == Idle(v11) /\ Idle(v12) /\ Idle12
Idle9 == Idle(v10) /\ Idle10
Idle8 == Idle(v9) /\ Idle9
Pure == Idle(v2) /\ Idle(v3) /\ Idle(v4) /\ Idle(v5) /\ Idle(v6) /\ Idle(v7) /\ Idle(v8) /\ Idle8
apart == <<suite, ringVars, micVars, layerVars, resampleVars, lifeVars, vadVars, backendVars>>
after12 == <<apart, v13, v14, v15, v16>>
after10 == <<v11, v12, after12>>
after9 == <<v10, after10>>
after8 == <<v9, after9>>
after1 == <<v2, v3, v4, v5, v6, v7, v8, after8>>
input == v1
-----------------------------------------------------------------------------
(* Checkpoints: one stored form for every projection, or one projection in *)
(* another form; K has two NF4 blocks and one ternary block.               *)
Form(hold, scales) == [hold |-> hold, cols |-> 128, sized |-> TRUE, scales |-> scales, zero |-> "none", order |-> "none", bias |-> "none"]
Forms == { Form("float", 0), Form("U8", 2), Form("I8", 1), [Form("I8", 1) EXCEPT !.zero = "nonzero"],
           Form("I8", 2), Form("packed", 4), Form("packed", 8), [Form("packed", 2) EXCEPT !.order = "act"],
           Form("awq", 1), [Form("gptq", 4) EXCEPT !.order = "act"], [Form("gptq", 4) EXCEPT !.order = "plain"],
           [Form("float", 0) EXCEPT !.cols = 64], [Form("U8", 2) EXCEPT !.sized = FALSE], [Form("float", 0) EXCEPT !.bias = "float"], [Form("U8", 2) EXCEPT !.bias = "int"], Form("absent", 0) }
OddForms == {Form("float", 0), Form("U8", 2), Form("awq", 1)}
Parts == {"embed", "norm", "head", "layernorm", "connector", "encoder"}
Without(t) == [x \in Parts \ {t} |-> "BF16"]
Plain == [family |-> "asr", gguf |-> FALSE, ggufArch |-> TRUE, ggufDims |-> TRUE, vaeArch |-> TRUE, taps |-> <<0, 3, 1>>, kernel |-> 2, attnBias |-> FALSE, groups |-> <<>>, gptqV2 |-> FALSE,
          index |-> <<"a", "b", "a">>, names |-> [a |-> {1}, b |-> {2}], hasPrefix |-> TRUE, tie |-> FALSE, extraLayer |-> FALSE,
          dtype |-> [t \in Parts |-> "BF16"]]
Uniform(f) == [p \in {"q", "k", "v", "o", "gate", "up", "down"} |-> f]
With(c, form) == [k \in DOMAIN c \cup {"form"} |-> IF k = "form" THEN form ELSE c[k]]
MCCheckpoints ==
  {With(Plain, Uniform(f)) : f \in Forms}
  \cup {With(Plain, [Uniform(f) EXCEPT ![p] = g]) : f \in OddForms, g \in OddForms, p \in {"v", "up", "o"}}
  \cup {With([Plain EXCEPT !.tie = t, !.dtype = IF t THEN Without("head") ELSE @, !.groups = <<[bits |-> b, act8 |-> b = 4]>>], Uniform(Form("I8", 4))) :
          t \in BOOLEAN, b \in {0, 4, 8, 3}}
  \cup {With([Plain EXCEPT !.groups = <<[bits |-> 4, act8 |-> TRUE], [bits |-> 4, act8 |-> FALSE]>>], Uniform(Form("packed", 1))),
        With([Plain EXCEPT !.names = [a |-> {1}, b |-> {1, 2}]], Uniform(Form("float", 0))),
        With([Plain EXCEPT !.extraLayer = TRUE], Uniform(Form("float", 0))),
        With([Plain EXCEPT !.attnBias = TRUE], Uniform(Form("float", 0))),
        With([Plain EXCEPT !.dtype["encoder"] = "I32"], Uniform(Form("float", 0)))}
  \cup {With([Plain EXCEPT !.dtype = Without(t)], Uniform(Form("float", 0))) : t \in Parts}
  \cup {With([Plain EXCEPT !.family = "bitnet", !.gguf = g, !.tie = t, !.kernel = k, !.attnBias = t,
                     !.dtype = [x \in Parts |-> "F32"]], Uniform([Form("float", 0) EXCEPT !.bias = "float"])) :
          g \in BOOLEAN, t \in BOOLEAN, k \in {1, 2}}
NoSmooth == [quant |-> "auto", smooth |-> FALSE, maps |-> {}, smoothShape |-> TRUE,
             source |-> "auto", vae |-> "auto", head |-> "auto", cpu |-> FALSE]
Quants == {"auto", "none", "nf4", "int4", "int8", "w8a8", "w4a8"}
MCOptions ==
  {[NoSmooth EXCEPT !.quant = q, !.smooth = m # {}, !.maps = m] :
     q \in Quants, m \in {{}, {"qkv"}, {"vo"}, {"gu", "ud"}, {"qkv", "gu", "vo", "ud"}}}
  \cup {[NoSmooth EXCEPT !.source = s, !.vae = v, !.head = h, !.cpu = c] :
          s \in {"auto", "gguf", "safetensors"}, v \in {"auto", "int8", "float"}, h \in {"auto", "int8"}, c \in BOOLEAN}

L == INSTANCE ModelLoad WITH ck <- v1, opt <- v2, at <- v3, mem <- v4, wmem <- v5, w <- v6, divided <- v7,
       embed <- v8, head <- v9, tied <- v10, Checkpoints <- MCCheckpoints, Options <- MCOptions, K <- 128

(* A load gives what the options asked of the checkpoint, or an error; in  *)
(* both cases, and after the model is freed, nothing is left allocated;    *)
(* and what SmoothQuant divided is divided on both sides (loader.c).       *)
LoadedAsAsked == suite = "load" => L!LoadedAsAsked /\ L!LoadFreesAll /\ L!SmoothBalanced
-----------------------------------------------------------------------------
(* Linear layers: every stored form, token counts on both sides of every   *)
(* choice, widths that fit the tiles and widths that do not.               *)
LL == INSTANCE Linear WITH Sms <- 3, PerSm <- 1

Case(kinds, src, Ns, K, G) == [kinds |-> kinds, src |-> src, Ns |-> Ns, K |-> K, G |-> G, legacy |-> FALSE, act8 |-> FALSE]
Three(k) == <<k, k, k>>
Legacy(c) == {c, [c EXCEPT !.legacy = TRUE]}
Act8(cs) == {[c EXCEPT !.act8 = TRUE] : c \in cs}
LinearCases ==
  {Case(<<k>>, "quant", <<N>>, K, 64) : k \in {"none", "nf4", "int8"}, N \in {20, 72}, K \in {64, 256, 320}}
  \cup {Case(Three(k), "quant", <<72, 16, 8>>, 128, 64) : k \in {"none", "nf4", "int8"}}
  \cup UNION {Legacy(Case(<<"int4g">>, s, <<136>>, K, G)) : s \in {"awq", "gptq", "quant"}, K \in {256, 320}, G \in {32, 64}}
  \cup {Case(Three("int4g"), "awq", <<72, 16, 8>>, 512, 256), Case(<<"int4g">>, "awq", <<16>>, 1152, 128)}
  \cup {Case(ks, "awq", <<72, 16, 8>>, 256, 64) : ks \in {<<"int8", "nf4", "int8">>, <<"nf4", "int4g", "nf4">>}}
  \cup Act8({Case(<<"int4g">>, s, <<136>>, K, G) : s \in {"awq", "quant"}, K \in {256, 320}, G \in {32, 64}})
  \cup Act8({Case(<<"int8">>, "quant", <<136>>, K, 64) : K \in {256, 288, 320}})
  \cup Act8({Case(Three(k), "quant", <<72, 16, 8>>, 256, 128) : k \in {"int8", "int4g"}})
Devices(case) ==
  {[M |-> M, bias |-> b, major |-> v, skinny |-> b, two |-> b, scratch |-> 2 * case.K * (case.Ns[1] + M) + 256] :
     M \in {1, 8, 9, 33, 64, 65, 136}, b \in BOOLEAN, v \in {7, 8}}
LinearStep ==
  LET case == input[1] IN
  CASE Len(input) = 1 -> v1' = <<case, LL!InputOrder(case)>>
    [] Len(input) = 2 -> v1' = <<case, input[2], LL!Weights(case, input[2])>>
    [] OTHER -> Len(input) = 3 /\ v1' \in {<<case, input[2], input[3], d>> : d \in Devices(case)}

(* Whatever kernel a linear layer is dispatched to, it computes the product*)
(* of the weights as the checkpoint means them: every weight of a row once,*)
(* with its own scale and input (quant_linear and the kernels under it).   *)
LinearCall == LL!Call(input[1], input[2], input[3], input[4])
LinearIsProduct ==
  suite = "linear" /\ Len(input) = 4 /\ LL!Loads(input[1]) => LL!IsProduct(input[1], LinearCall, LL!Run(input[1], LinearCall))
-----------------------------------------------------------------------------
(* Attention: lengths on both sides of a tile, a part, a page and a batch  *)
(* of pages; a device length past the host's, as in a replayed graph.      *)
A == INSTANCE Attention WITH MaxParts <- 16

AttnHeads == {<<4, 4>>, <<14, 2>>, <<10, 1>>}
Decodes == {<<1, 0, n, n + d>> : n \in {1, 64, 300, 1025}, d \in {0, 3}} \cup {<<1, 0, 2110, 2110>>}
Prefills == {<<q[1], q[2], q[1] + q[2], q[1] + q[2]>> : q \in {<<2, 0>>, <<9, 60>>, <<33, 100>>, <<5, 700>>, <<17, 300>>}}
AttnCase(h, q, fmt, sm, sms) ==
  [fmt |-> fmt, paged |-> FALSE, table |-> [i \in 0..39 |-> -1], nq |-> h[1], nkv |-> h[2], q_len |-> q[1], off |-> q[2],
   kv_len |-> q[3], dlen |-> q[4], causal |-> q[1] > 1, sm |-> sm, sms |-> sms]
AttnCases == {AttnCase(h, q, f, d[1], d[2]) : h \in AttnHeads, q \in Decodes \cup Prefills, f \in {"fp16", "tq3"}, d \in {<<70, 3>>, <<86, 3>>, <<86, 60>>}}
Wants == {"auto", "fa1", "fa2", "flashinfer"}
Mapped(c) == [c EXCEPT !.table = A!vv_kv_page_map_dev(@, 0, [i \in 1..A!CeilDiv(c.dlen, 64) |-> (7 * i) % 41])]
AttnStep ==
  LET c == input[2] IN
  CASE Len(input) = 2 -> \E want \in Wants, mode \in {"auto", "on"} :
         LET paged == A!Paging(c, want, mode, 2)
             k == IF paged THEN [Mapped(c) EXCEPT !.paged = TRUE] ELSE c
         IN v1' = <<"attn", k, A!Call(k, A!vv_attn_resolve(c, want, paged))>>
    [] Len(input) = 3 /\ input[3].kernel # "none" -> \E x \in input[3].rows :
         x[1] \in {0, 8, c.q_len - 1} /\ x[2] \in {0, c.nq - 1} /\ v1' = <<"attn", c, [input[3] EXCEPT !.rows = {x}], x>>
    [] OTHER -> FALSE
(* Every query attends to every key it may see, once, and to no other, in  *)
(* whatever kernel, split and page layout was chosen, and every row of K   *)
(* and V is stored once (attention.cu, attention_decode.cu,                *)
(* attention_fi.cu).                                                       *)
AttendsToAll ==
  suite = "attn" =>
    /\ Len(input) = 3 => input[3].kernel # "none" /\ A!RowsOnce(input[2], input[3])
    /\ Len(input) = 3 => A!StoredOnce(input[2], input[2].off, input[2].q_len)
    /\ Len(input) = 4 => A!Complete(input[2], input[3], input[4])

(* The store formats, and the rotation one step of its butterflies at a    *)
(* time.                                                                   *)
CodecInputs == {<<"bits", f>> : f \in A!Turbo}
               \cup {<<"level", f, 50 * t>> : f \in {"tq4", "tq3", "tq2"}, t \in -60..60}
               \cup {<<"fp8", t, e, m>> : t \in {"e4m3", "e5m2"}, e \in -22..18, m \in 0..63}
Dot(u, v) == LET S[d \in 0..128] == IF d = 0 THEN 0 ELSE S[d - 1] + u[d - 1] * v[d - 1] IN S[128]
RotationKeeps ==
  suite = "rotate" =>
    /\ input[1] = 8 => Dot(input[4], input[5]) = IF input[2] = input[3] THEN 128 ELSE 0
    /\ input[1] = 16 => \A d \in 0..127 : input[4][d] = 128 * A!Unit(input[2])[d]
CodeKept ==
  suite = "codec" =>
    CASE input[1] = "bits" -> A!CodesReadBack(input[2])
      [] input[1] = "level" -> A!LevelsNearest(input[2], input[3])
      [] OTHER -> A!NumberReadBack(input[2], input[3], input[4])
(* What is stored is what is read back: packed codes across byte borders,  *)
(* the nearest level, the nearest 8-bit float; and the rotation before the *)
(* codes keeps products and is undone by its inverse (kv_quant.cu).        *)
KvReadBack == CodeKept /\ RotationKeeps
RotateInputs == {<<0, i, j, A!Unit(i), A!Unit(j)>> : i \in {0, 1, 6, 77}, j \in {0, 1, 77, 127}}
RotateNext == input[1] < 16 /\ v1' = <<input[1] + 1, input[2], input[3], A!RotateStep(input[4], input[1]), A!RotateStep(input[5], input[1])>>
-----------------------------------------------------------------------------
(* Streaming sessions one after the other on a slot, opened in two ways;   *)
(* one failure.                                                            *)
MCOpenParams == {[rows |-> 5, reserve |-> 0, no_wait |-> FALSE, clip |-> TRUE], [rows |-> 7, reserve |-> 9, no_wait |-> TRUE, clip |-> FALSE]}
SlotIdle == BackendInit /\ ~ctx.gpu
-----------------------------------------------------------------------------
(* Text: all byte strings up to a length, in every cut into tokens; two    *)
(* control strings with a common beginning, a stop string across tokens.   *)
T == INSTANCE TextOut WITH Strip <- {<<"<", "|">>, <<"<", "a", "|">>}, Stop <- <<<<"a", "|">>, <<"|">>>>
Bytes == {"a", "<", "|", "2", "3", "c", "d"}
Tokens == {<<b>> : b \in Bytes} \cup {<<"<", "a">>, <<"a", "|">>, <<"c", "2">>, <<"3", "d">>}
TextStep ==
  /\ ~v1.done
  /\ \/ \E t \in Tokens : Len(v1.fed) + Len(t) <= 5 /\ v1' = T!text_step(v1, t, FALSE)
     \/ v1' = T!text_step(v1, <<>>, TRUE)
GenStep ==
  /\ T!Running(v1)
  /\ \/ v1.n < v1.max /\ \E t \in Tokens \cup {<<>>}, go \in BOOLEAN : v1' = T!Token(v1, t, go)
     \/ v1' = T!Over(v1)
(* The text shown is the decoded text without its control strings, never  *)
(* cut inside a character, all of it once the stream is flushed; and what a*)
(* generation streamed is its answer, but for a stop string and the token  *)
(* that ended it (text_push, text_flush, vv_inference_generate).           *)
DeltasAreWhole == (suite = "text" => T!DeltasAreWhole(v1)) /\ (suite = "gen" => T!SentIsText(v1))
(* Tokens: texts of letters, marks, spaces and added tokens, one of two     *)
(* bytes; merges that compete for the same letters.                        *)
TT == INSTANCE Tokenizer WITH ByteLevel <- <<>>, Merges <- <<>>, AddedTokens <- <<>>
MCByteLevel == TT!bytelevel_build
TK == INSTANCE Tokenizer WITH ByteLevel <- MCByteLevel,
        Merges <- << <<<<97>>, <<97>>>>, <<<<288>>, <<97>>>>, <<<<97, 97>>, <<115>>>>, <<<<195>>, <<169>>>>, <<<<97>>, <<115>>>> >>,
        AddedTokens <- <<[str |-> <<60, 97>>, special |-> FALSE], [str |-> <<60, 97, 62>>, special |-> TRUE]>>
TextChars == {<<97>>, <<115>>, <<39>>, <<49>>, <<32>>, <<10>>, <<33>>, <<60>>, <<62>>, <<195, 169>>}
TokenStep == \E c \in TextChars : v1.n < 4 /\ v1' = [n |-> v1.n + 1, s |-> v1.s \o c]
(* Tokens stand for the text they were made from, cut as the checkpoint's  *)
(* regex cuts it and merged as its merges say (bpe.c).                     *)
TokensAreText == suite = "token" => TK!TokensAreText(v1.s, TK!vv_tokenizer_encode(v1.s))
SampleInputs == {<<l, k, p>> : l \in UNION {[1..n -> 0..3] : n \in 1..4}, k \in {1, 2, 4, 9}, p \in {0, 40, 75, 100}}
(* Sampling keeps the k most likely tokens and of these the fewest that    *)
(* reach top-p (sampling.c).                                               *)
SamplesBest == suite = "sample" => T!SamplesBest(v1[1], v1[2], v1[3])
Strings == {[as |-> <<>>, is |-> <<>>], [as |-> <<"t", "b", "q", "t">>, is |-> <<"t", "q", "t">>], [as |-> <<"b", "b">>, is |-> <<"b">>],
            [as |-> <<"t", "}">>, is |-> <<"t", "}">>], [as |-> <<"{", "t">>, is |-> <<"{", "t">>], [as |-> <<"]", "t">>, is |-> <<"]", "t">>]}
AnswerInputs == {<<a, n>> : a \in UNION {[1..k -> Strings] : k \in 1..3}, n \in 0..30}
(* A segment of the model's answer survives wherever the answer was cut off*)
(* behind it, with quotes, braces and brackets in its text (postprocess.c).*)
AnswerKept == suite = "answer" => T!AnswerKept(v1[1], v1[2])
-----------------------------------------------------------------------------
(* The speech encoder: a kernel of two strides, as every checkpoint has,   *)
(* chunks that leave a partial stride, empty chunks and a window between   *)
(* streams; on the CPU, tiles shorter than a stage waits for.              *)
VP == INSTANCE VaePlan
MCEnc == [stem |-> 3, stages |-> <<[mix |-> <<2>>, ds |-> <<4, 2>>], [mix |-> <<3>>, ds |-> <<>>]>>, head |-> 2]
MCPlan == VP!vae_plan_build(MCEnc)
Piece(s, n, fin) == [s |-> s, n |-> n, fin |-> fin, skip |-> 0]
MCBatches == {<<Piece(1, n, FALSE)>> : n \in {0, 1, 3}} \cup {<<Piece(1, 2, TRUE)>>, <<Piece(1, 1, FALSE), Piece(2, 3, FALSE)>>}
             \cup {<<Piece(2, 2, FALSE), [s |-> 0, n |-> 3, fin |-> FALSE, skip |-> 1], Piece(1, n, FALSE)>> : n \in {0, 3}}
E == INSTANCE Encoder WITH st <- v1, gen <- v2, given <- v3, frames <- v4, ended <- v5, win <- v6, told <- v7, calls <- v8,
       Plan <- MCPlan, Batches <- MCBatches, MaxCalls <- 3, CpuTile <- 5, MinRows <- 3
RealStage(ch, ds) == [ch |-> ch, hidden |-> 4 * ch, mix |-> <<7>>, ds |-> ds]
RealEnc == [stem |-> 7, head |-> 7, stages |-> <<RealStage(32, <<4, 2>>), RealStage(64, <<4, 2>>), RealStage(128, <<8, 4>>), RealStage(256, <<10, 5>>),
                                                 RealStage(512, <<10, 5>>), RealStage(1024, <<16, 8>>), RealStage(2048, <<>>)>>]
RealPlan == VP!vae_plan_build(RealEnc)
EA == INSTANCE EncoderArena WITH Enc <- RealEnc, Plan <- RealPlan, TileElems <- 16777216
Arena(items, samples) == [items |-> items, samples |-> samples]
\* The default, one second, and the least that clamp_params lets through.
Arenas == {Arena(i, n) : i \in {1, 16}, n \in {3200, 24000}} \cup {Arena(16, 720000)}
ArenaStep == \E n \in {0, 1, 160, 799, 1500, 24000}, fin \in BOOLEAN :
  v1.calls < 4 /\ v1.n * n <= v1.a.samples /\ v1' = EA!Encode(v1, n, fin)
(* Audio in chunks of any sizes, in batches with other streams, or in tiles*)
(* on the CPU is encoded to the frames it gives as a whole; and every      *)
(* buffer of the arena is as large as what a launch writes into it, with a *)
(* tile for every layer unless the arena is too small for the widest one   *)
(* (vae_gpu.c, vae_cpu.c, vae_plan.h).                                     *)
EncodesAsWhole ==
  /\ suite = "vae" => E!StreamsAreWhole
  /\ suite = "vaecpu" => E!TilesAreWhole(v1)
  /\ suite = "arena" => EA!ArenaFits(v1)
-----------------------------------------------------------------------------
(* The front end: a file longer than a launch of four units, a short one   *)
(* and a window that fills a launch; windows encoded ahead, one too large; *)
(* a stream in chunks, the first one cut, the last only the end padding.   *)
JobOf(stream, len, final, skip) == [stream |-> stream, len |-> len, final |-> final, skip |-> skip]
File(n) == JobOf(TRUE, n, TRUE, 0)
Part(n) == JobOf(TRUE, n, FALSE, 1)
LiveWindow(n) == JobOf(FALSE, n, TRUE, 0)
F == INSTANCE Frontend WITH svcOn <- v1, svcStop <- v2, wpc <- v3, queue <- v4, act <- v5, fresh <- v6, size <- v7, base <- v8,
       cpc <- v9, answered <- v10, err <- v11, job <- v12, pg <- v13, enc <- v14, ctx <- v15, calls <- v16,
       Slot <- {"s1", "s2"}, Cap <- 4, MaxItems <- 2, MaxActive <- 2, MaxCalls <- 3,
       Submits <- {File(7), File(2), LiveWindow(4)},
       Runs <- {<<LiveWindow(2), LiveWindow(2), LiveWindow(5)>>, <<Part(5), Part(1), File(0)>>}
(* A call that has returned tells the truth about every job of it, streams *)
(* see their audio unbroken and in order, and only a window larger than a  *)
(* launch overflows (frontend.c).                                          *)
LaunchesRight == suite = "front" => F!LaunchesRight
(* "The oldest job always keeps a quarter of the launch (all of it when it *)
(* is alone), so a stream of short arrivals cannot starve a long file"     *)
(* (plan_launch).                                                          *)
OldestGoesOn == [][suite = "front" => F!OldestGoesOn]_<<v1, after1>>
-----------------------------------------------------------------------------
InitOthers == \/ suite = "front" /\ F!Init
              \/ suite = "load" /\ L!Init /\ Idle10
              \/ suite = "linear" /\ v1 \in {<<c>> : c \in LinearCases} /\ Pure
              \/ suite = "attn" /\ v1 \in {<<"attn", c>> : c \in AttnCases} /\ Pure
              \/ suite = "codec" /\ v1 \in CodecInputs /\ Pure
              \/ suite = "rotate" /\ v1 \in RotateInputs /\ Pure
              \/ suite = "text" /\ v1 = T!vv_stream_text_create /\ Pure
              \/ suite = "gen" /\ v1 \in {T!Generation(n) : n \in {1, 4}} /\ Pure
              \/ suite = "token" /\ v1 = [n |-> 0, s |-> <<>>] /\ Pure
              \/ suite = "sample" /\ v1 \in SampleInputs /\ Pure
              \/ suite = "answer" /\ v1 \in AnswerInputs /\ Pure
              \/ suite = "vae" /\ E!Init /\ Idle8
              \/ suite = "arena" /\ v1 \in UNION {{EA!Streams(a, n) : n \in {1, a.items}} : a \in Arenas} /\ Pure
              \/ suite = "vaecpu" /\ v1 \in {E!vv_conv_vae_encode_cpu(n) : n \in 1..30} /\ Pure
Alone == Idle(v1) /\ Pure
Init == \/ InitOthers /\ RingIdle /\ MicInit /\ LayersIdle /\ ResamplerIdle /\ LifeIdle /\ VadInit /\ SlotIdle
        \/ suite = "ring" /\ RingInit /\ MicInit /\ LayersIdle /\ ResamplerIdle /\ LifeIdle /\ VadInit /\ SlotIdle /\ Alone
        \/ suite \in {"mic", "vad"} /\ RingIdle /\ MicInit /\ LayersIdle /\ ResamplerIdle /\ LifeIdle /\ VadInit /\ SlotIdle /\ Alone
        \/ suite = "layers" /\ RingIdle /\ MicInit /\ LayerInit /\ ResamplerIdle /\ LifeIdle /\ VadInit /\ SlotIdle /\ Alone
        \/ suite = "resample" /\ RingIdle /\ MicInit /\ LayersIdle /\ ResampleInit /\ LifeIdle /\ VadInit /\ SlotIdle /\ Alone
        \/ suite = "life" /\ RingIdle /\ MicInit /\ LayersIdle /\ ResamplerIdle /\ LifeInit /\ VadInit /\ SlotIdle /\ Alone
        \/ suite = "stream" /\ RingIdle /\ MicInit /\ LayersIdle /\ ResamplerIdle /\ LifeIdle /\ VadInit /\ BackendInit /\ Alone
shared == <<v1, v2, v3, v4, v5, v6, v7, v8, v9, v10, v11, v12, v13, v14, v15, v16>>
Next == \/ suite = "layers" /\ LayerNext /\ UNCHANGED <<suite, ringVars, micVars, resampleVars, lifeVars, vadVars, backendVars, shared>>
        \/ suite = "resample" /\ ResampleNext /\ UNCHANGED <<suite, ringVars, micVars, layerVars, lifeVars, vadVars, backendVars, shared>>
        \/ suite = "life" /\ LifeNext /\ UNCHANGED <<suite, ringVars, micVars, layerVars, resampleVars, vadVars, backendVars, shared>>
        \/ suite = "vad" /\ VadNext /\ UNCHANGED <<suite, ringVars, micVars, layerVars, resampleVars, lifeVars, backendVars, shared>>
        \/ suite = "stream" /\ BackendNext /\ UNCHANGED <<suite, ringVars, micVars, layerVars, resampleVars, lifeVars, vadVars, shared>>
        \/ suite = "front" /\ F!Next /\ UNCHANGED apart
        \/ suite = "load" /\ L!Next /\ UNCHANGED after10
        \/ suite = "linear" /\ LinearStep /\ UNCHANGED after1
        \/ suite = "attn" /\ AttnStep /\ UNCHANGED after1
        \/ suite = "rotate" /\ RotateNext /\ UNCHANGED after1
        \/ suite = "text" /\ TextStep /\ UNCHANGED after1
        \/ suite = "token" /\ TokenStep /\ UNCHANGED after1
        \/ suite = "gen" /\ GenStep /\ UNCHANGED after1
        \/ suite = "vae" /\ E!Next /\ UNCHANGED after8
        \/ suite = "arena" /\ ArenaStep /\ UNCHANGED after1
        \/ suite = "vaecpu" /\ v1.status = "run" /\ v1' \in E!CpuStep(v1) /\ UNCHANGED after1
        \/ suite = "ring" /\ RingNext /\ UNCHANGED <<suite, micVars, layerVars, resampleVars, lifeVars, vadVars, backendVars, shared>>
        \/ suite = "mic" /\ MicNext /\ UNCHANGED <<suite, ringVars, layerVars, resampleVars, lifeVars, vadVars, backendVars, shared>>
Spec == Init /\ [][Next]_<<v1, after1>>
=============================================================================
