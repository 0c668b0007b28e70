---------------------------- MODULE ContextLife ----------------------------
(***************************************************************************)
(* Who owns what while an engine brings up the slots of one device, serves *)
(* and goes away: vv_inference_init, vv_inference_clone and                *)
(* vv_inference_free of src/inference/pipeline.c, fill_device and          *)
(* vv_engine_free of src/engine/engine.c, and the constructors of          *)
(* src/inference/kv_cache.c they call.                                     *)
(*                                                                         *)
(* Context 0 loads the model and owns it; the others are clones, which     *)
(* borrow the weights, the layer pool, the tables and the front end, and   *)
(* own a cache, a workspace and streams.  A resource is an allocation with *)
(* one owner; the host copy and the device copy of a weight are two.  Any  *)
(* allocation, copy or registration may fail, and what has been built so   *)
(* far is then given back by the handler the code has for that point.      *)
(***************************************************************************)
EXTENDS Integers, FiniteSets

CONSTANTS
    MaxClones,      \* slots past the first
    Asked           \* whether --gpu-layers may keep layers off a device they fit

ASSUME LifeAssumption == MaxClones \in Nat /\ Asked \subseteq BOOLEAN

VARIABLES
    conf,           \* what was asked for and where it lands
    stage,          \* the stage the call has reached
    cur,            \* the context being built, or freed
    slots,          \* e->n_slots
    live,           \* allocations: <<owner, name>>
    twice,          \* history: freed when it was not allocated
    refs,           \* references of the KV pool
    onGpu,          \* weights of the model whose data is a device pointer
    staged          \* a streamed layer points into a staging buffer

lifeVars == <<conf, stage, cur, slots, live, twice, refs, onGpu, staged>>

Contexts == 0..MaxClones

Confs == {c \in [place : {"all", "stream", "cpu"}, part : Asked,
                 paged : BOOLEAN, sharded : BOOLEAN, tied : BOOLEAN,
                 unified : BOOLEAN, bitnet : BOOLEAN] :
            /\ c.sharded => ~c.paged
            /\ c.place = "cpu" => ~c.paged /\ ~c.sharded /\ ~c.part}

\* n_resident_layers < primary_layers: the layer pool streams.
Streaming == conf.place = "stream" \/ conf.part

Of(c, names) == {c} \X names
Alloc(c, names) == live \cup Of(c, names)

\* Frees: an allocation leaves the ledger, anything else is remembered.
Free(res) == /\ live' = live \ res
             /\ twice' = twice \cup (res \ live)

\* The host copies of the weights, as the loader leaves them.
HostWeights == {"h_embed", "h_encoders", "h_resident"}
               \cup (IF Streaming THEN {"h_streamed"} ELSE {})
               \cup (IF conf.tied THEN {} ELSE {"h_head"})

LifeInit ==
    /\ conf \in Confs
    /\ stage = "load" /\ cur = 0 /\ slots = 0
    /\ live = Of(0, {"ctx"}) /\ twice = {} /\ refs = 0
    /\ onGpu = {} /\ staged = FALSE

Go(to) == stage' = to /\ UNCHANGED <<conf, cur, slots, refs, onGpu, staged>>
Keep == UNCHANGED <<live, twice>>

\* The name a host copy's weight has in onGpu.
OnDevice == [h_embed |-> "embed", h_head |-> "head",
             h_encoders |-> "encoders", h_resident |-> "layers"]

\* Mutant: vv_model_free frees a tensor wherever it is.
OwnedAnywhere == {"model"} \cup HostWeights

\* vv_model_free: the tensors that are still the host's; a tied head is the
\* embedding table, and what is on the device is left to its context.
HostOwned ==
    {"model"} \cup {w \in HostWeights :
        IF w = "h_streamed" THEN ~staged ELSE OnDevice[w] \notin onGpu}
ModelFree == Of(0, HostOwned)

----------------------------------------------------------------------------
(* vv_inference_init                                                       *)

\* vv_model_load_ex: everything or nothing.
LoadModel ==
    /\ stage = "load"
    /\ \/ /\ live' = Alloc(0, {"model"} \cup HostWeights)
          /\ Go("prepare") /\ UNCHANGED twice
       \/ Free(Of(0, {"ctx"})) /\ Go("failed")

\* vv_model_bitnet_prepare_gpu.
Prepare ==
    /\ stage = "prepare"
    /\ \/ Keep /\ Go("host")
       \/ conf.bitnet /\ Free(ModelFree \cup Of(0, {"ctx"})) /\ Go("failed")

\* build_frontend_host: an encoder or a connector that cannot be had is only
\* missed later.
BuildFrontendHost ==
    /\ stage = "host"
    /\ \/ live' = Alloc(0, {"encoders"}) \/ live' = live
    /\ twice' = twice
    /\ Go("place")

\* The budget's verdict.  BitNet that asked for a device and got none loads
\* again the way the CPU wants it.
Place ==
    /\ stage = "place"
    /\ \/ /\ Keep
          /\ Go(IF conf.place = "cpu" THEN "cpu" ELSE "streams")
       \/ /\ conf.place = "cpu" /\ conf.bitnet
          /\ Free(ModelFree \cup (live \cap Of(0, {"encoders"})))
          /\ Go("reload")

Reload ==
    /\ stage = "reload"
    /\ \/ /\ \E built \in {{}, {"encoders"}} :
                live' = Alloc(0, {"model"} \cup built \cup HostWeights)
          /\ Go("cpu") /\ UNCHANGED twice
       \/ Free(Of(0, {"ctx"})) /\ Go("failed")

\* The CPU path: an FP32 cache and a workspace.  Its ways out give back the
\* cache, the model and the context, and not the front end's descriptions.
CpuContext ==
    /\ stage = "cpu"
    /\ \/ live' = Alloc(0, {"kv", "ws"}) /\ Go("attach") /\ UNCHANGED twice
       \/ Free(ModelFree \cup Of(0, {"ctx"})) /\ Go("failed")

\* The weight layout and the two streams; same way out.
MakeStreams ==
    /\ stage = "streams"
    /\ \/ live' = Alloc(0, {"streams"}) /\ Go("kv") /\ UNCHANGED twice
       \/ Free(ModelFree \cup Of(0, {"ctx"})) /\ Go("failed")

\* fail_gpu.  Not the shards, their event or the layers already uploaded.
FailGpu ==
    /\ Free((live \cap Of(0, {"encoders", "staging", "kv", "ws", "streams"}))
            \cup (IF <<0, "kv">> \in live /\ conf.paged THEN Of(0, {"pool"})
                                                        ELSE {})
            \cup ModelFree \cup Of(0, {"ctx"}))
    /\ refs' = IF <<0, "kv">> \in live /\ conf.paged THEN 0 ELSE refs
    /\ stage' = "failed" /\ UNCHANGED <<conf, cur, slots, onGpu, staged>>

\* vv_kv_cache_create_range, which frees what it has on its way out, or a
\* pool and the first cache on it.
MakeKv ==
    /\ stage = "kv"
    /\ \/ /\ live' = Alloc(0, {"kv"} \cup (IF conf.paged THEN {"pool"} ELSE {}))
          /\ refs' = IF conf.paged THEN 1 ELSE 0
          /\ stage' = "layers" /\ UNCHANGED <<conf, cur, slots, twice, onGpu, staged>>
       \/ FailGpu

\* upload_layer_range: each tensor's host copy is freed as it is uploaded.
UploadLayers ==
    /\ stage = "layers"
    /\ live' = (live \ Of(0, {"h_resident"})) \cup Of(0, {"layers"})
    /\ onGpu' = onGpu \cup {"layers"}
    /\ stage' = "staging" /\ UNCHANGED <<conf, cur, slots, twice, refs, staged>>

UploadLayersFails ==
    /\ stage = "layers"
    /\ FailGpu

\* vv_layer_pool_create and, when layers stay behind, their page locks.
MakeLayerPool ==
    /\ stage = "staging"
    /\ \/ live' = Alloc(0, {"staging"}) /\ Go("ws") /\ UNCHANGED twice
       \/ FailGpu

MakeWorkspace ==
    /\ stage = "ws"
    /\ \/ /\ live' = Alloc(0, {"ws"}) /\ UNCHANGED twice
          /\ Go(IF conf.sharded THEN "shards" ELSE "tables")
       \/ FailGpu

\* The other devices' shards: shard_init and its own layer pool, and
\* shard_free when it cannot be had.
MakeShards ==
    /\ stage = "shards"
    /\ live' = Alloc(0, {"shards", "shard_done"})
    /\ Go("tables") /\ UNCHANGED twice

\* The array and its event are not among what fail_gpu gives back.
MakeShardsFails ==
    /\ stage = "shards"
    /\ \E left \in {{}, {"shards"}, {"shards", "shard_done"}} :
          live' = Alloc(0, left)
    /\ Go("shard_failed") /\ UNCHANGED twice

GiveUpShards ==
    /\ stage = "shard_failed"
    /\ FailGpu

\* The embedding table and the head, either of which may stay on the host
\* (a streamed placement leaves them more or less of the device); then, on
\* unified memory, the host copies given up for them.
share_uploaded(up) ==
    IF conf.unified THEN up ELSE {}

HostCopy == [embed |-> "h_embed", head |-> "h_head"]

UploadTables ==
    /\ stage = "tables"
    /\ \E up \in SUBSET {"embed", "head"} :
          /\ conf.tied => "head" \notin up
          /\ live' = Alloc(0, up) \ Of(0, {HostCopy[t] : t \in share_uploaded(up)})
          /\ onGpu' = onGpu \cup share_uploaded(up)
    /\ stage' = "norm" /\ UNCHANGED <<conf, cur, slots, twice, refs, staged>>

\* A norm that cannot be uploaded is found out by the first request.
UploadNorm ==
    /\ stage = "norm"
    /\ \/ live' = Alloc(0, {"norm"}) \/ live' = live
    /\ twice' = twice
    /\ Go("attach")

----------------------------------------------------------------------------
(* attach_frontend, for a parent and for a clone.                          *)

\* What of the front end comes up, after another try at the descriptions the
\* parent lacks; a device that shares the host's memory then gives back the
\* encoders' host weights.
AttachFrontend ==
    /\ stage = "attach"
    /\ \E got \in {{}, {"frontend"}, {"frontend", "fe_stream"}} :
       \E tok \in {{}, {"tokenizer"}}, built \in {{}, {"encoders"}} :
          LET host == <<0, "encoders">> \in live \/ built # {}
              up == IF cur # 0 THEN got \ {"frontend"}
                    ELSE IF conf.place = "cpu" \/ ~host THEN {} ELSE got
              gone == IF "frontend" \in up /\ conf.unified
                      THEN {"h_encoders"} ELSE {}
          IN  /\ cur # 0 => built = {} /\ (up = {} \/ <<0, "frontend">> \in live)
              /\ live' = Alloc(cur, up \cup tok \cup built) \ Of(0, gone)
              /\ onGpu' = onGpu \cup {"encoders" : g \in gone}
    /\ slots' = slots + 1
    /\ stage' = IF slots' <= MaxClones THEN "clone" ELSE "up"
    /\ cur' = IF slots' <= MaxClones THEN slots' ELSE cur
    /\ UNCHANGED <<conf, twice, refs, staged>>

----------------------------------------------------------------------------
(* vv_inference_clone                                                      *)

\* Who may be cloned: the placement decides, not the layers really resident.
Clonable == conf.place = "all"

\* The engine runs with the slots it has got.
fill_device == stage' = "up" /\ UNCHANGED <<conf, cur, slots, onGpu, staged>>

\* A shard that streams some of its layers refuses too.
CloneRefused ==
    /\ stage = "clone" /\ (~Clonable \/ conf.sharded)
    /\ fill_device /\ UNCHANGED <<live, twice, refs>>

\* Streams, a cache on the parent's pool or its own, a workspace, and its own
\* share of every shard.
Owns == {"ctx", "streams", "kv", "ws"}
        \cup (IF conf.sharded THEN {"shards", "shard_done"} ELSE {})

Clone ==
    /\ stage = "clone" /\ Clonable
    /\ live' = Alloc(cur, Owns)
    /\ refs' = IF conf.paged THEN refs + 1 ELSE refs
    /\ stage' = "attach" /\ UNCHANGED <<conf, cur, slots, twice, onGpu, staged>>

\* Any of them fails: what the clone has is freed, what it borrows is not.
CloneFails ==
    /\ stage = "clone" /\ Clonable
    /\ fill_device /\ UNCHANGED <<live, twice, refs>>

----------------------------------------------------------------------------
(* The engine in use, and its end.                                         *)

\* A step that streams leaves layers staged.
Serve ==
    /\ stage = "up" /\ conf.place # "cpu"
    /\ staged' = Streaming
    /\ UNCHANGED <<conf, stage, cur, slots, live, twice, refs, onGpu>>

\* vv_engine_free: a clone borrows from the first slot, so it goes first.
EngineFree ==
    /\ stage = "up"
    /\ stage' = "freeing" /\ cur' = slots - 1
    /\ UNCHANGED <<conf, slots, live, twice, refs, onGpu, staged>>

\* What only the context that loaded the model frees: the tables, the layer
\* pool, the front end and the model.  A device's layers go only where every
\* layer was placed there, and where one is staged its pointer is a piece of
\* the staging buffer, which is gone.
ParentOnly(c) ==
    IF c # 0 THEN {}
    ELSE (live \cap Of(0, {"embed", "head", "norm", "staging", "frontend"}))
         \cup (IF conf.place = "all" THEN Of(0, {"layers"}) ELSE {})
         \cup (IF conf.place = "all" /\ staged THEN Of(0, {"slot"}) ELSE {})
         \cup ModelFree

\* vv_kv_cache_free and vv_kv_pool_release: the last reference takes the pool.
PoolGone == IF conf.paged /\ refs = 1 THEN Of(0, {"pool"}) ELSE {}

\* vv_inference_free.
FreeContext ==
    /\ stage = "freeing" /\ cur >= 0
    /\ Free((live \cap Of(cur, {"ws", "shards", "shard_done", "kv", "streams",
                                "tokenizer", "fe_stream", "encoders"}))
            \cup ParentOnly(cur) \cup PoolGone \cup Of(cur, {"ctx"}))
    /\ refs' = IF conf.paged THEN refs - 1 ELSE refs
    /\ cur' = cur - 1
    /\ stage' = IF cur = 0 THEN "gone" ELSE "freeing"
    /\ UNCHANGED <<conf, slots, onGpu, staged>>

Over == stage \in {"failed", "gone"} /\ UNCHANGED lifeVars

----------------------------------------------------------------------------
LifeNext ==
    \/ LoadModel \/ Prepare \/ BuildFrontendHost \/ Place \/ Reload
    \/ CpuContext \/ MakeStreams \/ MakeKv \/ UploadLayers
    \/ UploadLayersFails \/ MakeLayerPool \/ MakeWorkspace \/ MakeShards
    \/ MakeShardsFails \/ GiveUpShards
    \/ UploadTables \/ UploadNorm \/ AttachFrontend
    \/ CloneRefused \/ Clone \/ CloneFails
    \/ Serve \/ EngineFree \/ FreeContext \/ Over

LifeSpec == LifeInit /\ [][LifeNext]_lifeVars

----------------------------------------------------------------------------
(* Nothing is freed twice or freed without having been allocated, on any   *)
(* way out: a tied head, a table that unified memory shares between the    *)
(* model and its context, a weight that moved to the device, and whatever  *)
(* a clone borrows each have exactly one owner at the end.                 *)
NoWrongFree == twice = {}

(* What a living context points to is alive: a clone's parent, its weights *)
(* and tables, the pool its cache is on, and the front end its stream      *)
(* belongs to.                                                             *)
BorrowedOutlives ==
    \A c \in Contexts : <<c, "kv">> \in live =>
        /\ <<0, "model">> \in live /\ <<0, "ctx">> \in live
        /\ conf.paged => <<0, "pool">> \in live /\ refs >= 1
        /\ <<c, "fe_stream">> \in live => <<0, "frontend">> \in live
        /\ c # 0 => {<<0, "staging">>, <<0, "layers">>} \subseteq live

(* An engine that came up and is freed leaves nothing, where all layers    *)
(* were placed on one device or none.  (A streamed placement keeps its     *)
(* resident layers, and the host copies of the layers that were staged.)   *)
GoneLeavesNothing == stage = "gone" /\ conf.place # "stream" => live = {}

(* Nothing is freed twice, nothing borrowed is freed before its borrower,  *)
(* and when the last context and the model are gone nothing is left        *)
(* (vv_inference_free, vv_inference_clone, vv_model_free).                 *)
FreedOnce == NoWrongFree /\ BorrowedOutlives /\ GoneLeavesNothing

----------------------------------------------------------------------------
(* What holds at every stage, and makes FreedOnce inductive.               *)

Has(c, w) == <<c, w>> \in live

Ended == stage \in {"failed", "gone"}
Early == stage \in {"load", "prepare", "host", "place", "reload", "cpu", "streams", "kv"}
OnGpuUp == stage \in {"layers", "staging", "ws", "shards", "shard_failed", "tables", "norm"}
Served == stage \in {"attach", "clone", "up", "freeing"}

\* What a clone may own, and what the first context may own beside weights.
CloneNames == {"ctx", "streams", "kv", "ws", "shards", "shard_done", "tokenizer", "fe_stream"}
WeightNames == {"model", "h_embed", "h_encoders", "h_resident", "h_streamed", "h_head"}
FirstNames == CloneNames \cup {"pool", "layers", "staging", "encoders", "frontend", "embed", "head", "norm"}
Names == FirstNames \cup WeightNames

\* The contexts that exist.
Top == IF stage \in {"attach", "freeing"} THEN cur
       ELSE IF stage \in {"clone", "up"} THEN slots - 1 ELSE 0

LifeTypes ==
    /\ conf \in Confs /\ staged \in BOOLEAN /\ (staged => Streaming)
    /\ cur \in Int /\ slots \in Nat /\ refs \in Int
    /\ live \subseteq Contexts \X Names

\* The path taken belongs to the placement.
PathIs ==
    /\ Early \/ OnGpuUp \/ Served \/ Ended
    /\ Early => onGpu = {} /\ ~staged
    /\ Early \/ OnGpuUp => cur = 0 /\ slots = 0
    /\ stage = "attach" => cur = slots /\ cur <= MaxClones
    /\ stage = "clone" => cur = slots /\ slots >= 1 /\ slots <= MaxClones
    /\ stage = "up" => slots >= 1 /\ slots <= MaxClones + 1
    /\ stage = "freeing" => cur >= 0 /\ cur <= MaxClones
    /\ OnGpuUp \/ stage \in {"streams", "kv"} => conf.place # "cpu"
    /\ stage \in {"cpu", "reload"} => conf.place = "cpu"
    /\ Served /\ Top > 0 => conf.place = "all"

\* The pool is shared by exactly the contexts that exist.
PoolShared ==
    /\ conf.paged /\ (OnGpuUp \/ Served) => Has(0, "pool") /\ refs = Top + 1
    /\ Has(0, "pool") => conf.paged

\* Host copies are owned by the model until they move.
WeightsHeld ==
    /\ ~(Ended \/ stage \in {"load", "reload"}) => \A w \in HostOwned : Has(0, w)
    /\ \A w \in Names : Has(0, w) => w \in FirstNames \cup HostOwned \/ (w = "h_streamed" /\ staged)

\* Who owns what at all.
OwnersExist ==
    /\ ~Ended => \A c \in 0..Top : Has(c, "ctx")
    /\ \A c \in Contexts, w \in Names : Has(c, w) /\ c # 0 => c <= Top /\ w \in CloneNames
    /\ \A c \in Contexts : Has(c, "kv") => OnGpuUp \/ Served
    /\ \A c \in Contexts : Has(c, "fe_stream") => Has(0, "frontend") /\ Served
    /\ Has(0, "layers") => conf.place # "cpu"
    /\ OnGpuUp /\ stage # "layers" => Has(0, "layers")
    /\ OnGpuUp /\ stage \notin {"layers", "staging"} => Has(0, "staging")
    /\ Served /\ conf.place # "cpu" => Has(0, "layers") /\ Has(0, "staging")

\* The one wrong free there is: a layer of a model that fits, staged because
\* --gpu-layers asked for it.
FreesOwn ==
    /\ twice \subseteq {<<0, "slot">>} /\ (conf.place # "all" \/ ~conf.part => twice = {})
    /\ stage = "gone" /\ conf.place # "stream" /\ ~conf.part => live = {}

LifeInv == LifeTypes /\ PathIs /\ PoolShared /\ WeightsHeld /\ OwnersExist /\ FreesOwn
=============================================================================
