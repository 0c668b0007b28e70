---------------------------- MODULE LayerStream ----------------------------
(***************************************************************************)
(* Overlapped weight streaming: the layers that do not fit the device are  *)
(* copied into one or two staging slots just ahead of the compute that     *)
(* reads them (vv_layer_pool_* and vv_layer_prefetch_* of                  *)
(* src/inference/decoder.c, and the layer loops of vv_decoder_step and     *)
(* vv_decoder_prefill).                                                    *)
(*                                                                         *)
(* The host only issues work: copies to the transfer stream, kernels to    *)
(* the compute stream, and events that order the two.  Each stream runs    *)
(* its own work in order, at its own pace, while the host is passes ahead. *)
(* A kernel reads the pointer its layer had when it was launched.  Any call *)
(* to the device may fail, up to a bound; the layer loops look only at what*)
(* the layer itself returns.                                               *)
(***************************************************************************)
EXTENDS Integers, Sequences

CONSTANTS
    Layers,         \* last_layer - first_layer; layers are 0 .. Layers - 1
    MaxPasses,      \* bound: steps and prefill chunks issued
    MaxQueue,       \* bound: work the host has in flight on one stream
    MaxFaults       \* bound: calls to the device that fail

ASSUME LayersAssumption == Layers \in Nat \ {0} /\ MaxFaults \in Nat

VARIABLES
    pool,           \* [bufs, resident, prefetch]: fixed when the pool is made
    pass, at, layer,    \* the host: passes issued, where it is, which layer
    loaded,         \* pool->loaded, per slot; -1 when empty
    doneValid,      \* pool->done_valid
    ptr,            \* where a layer's tensors point: -1 the host's copy, a slot, or Mixed
    queue,          \* work issued to a stream and not finished
    busy,           \* the head of the stream has begun
    content,        \* the layer a slot's memory holds, -1 empty, -2 half copied
    issued, fired,  \* records of an event: asked for, and passed by the device
    clock,          \* history: the calls the host has made
    faults          \* history: the calls to the device that failed

hostVars == <<pass, at, layer, loaded, doneValid, ptr>>
devVars == <<content, fired>>
layerVars == <<pool, hostVars, queue, busy, devVars, issued, clock, faults>>

Slots == {0, 1}
Streams == {"xfer", "compute"}
Events == {"ready", "done"} \X Slots
LayerIdx == 0..(Layers - 1)
HalfCopied == -2
\* Some of the layer's tensors point into the slot and nothing remembers
\* their host pointers for good: saved_ptrs is overwritten by the next stage.
Mixed == -2

Pools == [bufs : {1, 2}, resident : 0..Layers, prefetch : BOOLEAN]

\* pool_slot, and the slot vv_layer_pool_stage picks: one buffer is slot 0.
pool_slot(l) == IF pool.bufs > 1 THEN l % 2 ELSE 0

Streamed(l) == l >= pool.resident

\* vv_layer_pool_create: what is resident is fixed here; a second staging
\* buffer that cannot be had leaves one.
LayerInit ==
    /\ pool \in Pools
    /\ pass = 0 /\ at = "begin" /\ layer = 0
    /\ loaded = [s \in Slots |-> -1] /\ doneValid = [s \in Slots |-> FALSE]
    /\ ptr = [l \in LayerIdx |-> -1]
    /\ queue = [t \in Streams |-> << >>] /\ busy = [t \in Streams |-> FALSE]
    /\ content = [s \in Slots |-> -1]
    /\ issued = [e \in Events |-> 0] /\ fired = [e \in Events |-> 0]
    /\ clock = 0 /\ faults = 0

----------------------------------------------------------------------------
(* Work as it is issued. A wait is for the last record asked for so far.   *)
(* t, the call that issued it, is a history: no step reads it.             *)

Copy(l) == [k |-> "copy", slot |-> pool_slot(l), l |-> l, t |-> clock]
Kernel(l) == [k |-> "run", slot |-> ptr[l], l |-> l, t |-> clock]
Await(e) == [k |-> "wait", e |-> e, n |-> issued[e], t |-> clock]
Record(e) == [k |-> "record", e |-> e, n |-> issued[e] + 1, t |-> clock]

Issue(t, work) == queue' = [queue EXCEPT ![t] = @ \o work]

\* A copy of fewer than all tensors of the layer: the slot does not hold it.
PartCopy(l) == [Copy(l) EXCEPT !.l = HalfCopied]
\* Tensors that are on_gpu are skipped, so a mixed layer is never whole again.
StageCopy(l) == IF ptr[l] = Mixed THEN PartCopy(l) ELSE Copy(l)

NoFault == UNCHANGED faults
Fault == faults < MaxFaults /\ faults' = faults + 1

\* vv_layer_pool_stage with vv_layer_pool_unstage: the slot's former layer
\* gets its host pointers back, this one's point into the slot.
Unstaged(m, s) == IF m = loaded[s] /\ ptr[m] # Mixed THEN -1 ELSE ptr[m]
Stage(l) ==
    LET s == pool_slot(l)
    IN  /\ ptr' = [m \in LayerIdx |-> IF m = l /\ ptr[m] # Mixed THEN s ELSE Unstaged(m, s)]
        /\ loaded' = [loaded EXCEPT ![s] = l]
        /\ doneValid' = [doneValid EXCEPT ![s] = FALSE]

\* A copy of it fails, the first one or a later one: the slot's former layer
\* is gone, the tensors copied so far point into the slot, and nobody has it.
StageFails(l, some) ==
    LET s == pool_slot(l)
    IN  /\ ptr' = [m \in LayerIdx |-> IF m = l /\ some THEN Mixed ELSE Unstaged(m, s)]
        /\ loaded' = [loaded EXCEPT ![s] = -1]
        /\ UNCHANGED doneValid
        /\ Fault
Begun(l, some) == IF some THEN <<PartCopy(l)>> ELSE << >>

NoStage == UNCHANGED <<ptr, loaded, doneValid, queue, issued, faults>>

\* Mutant: the copy does not wait for the slot's reader.
PrefetchAtOnce(l) ==
    LET s == pool_slot(l)
    IN  IF \/ l \notin LayerIdx \/ ~pool.prefetch \/ ~Streamed(l)
           \/ loaded[s] = l
        THEN NoStage
        ELSE /\ Stage(l) /\ NoFault
             /\ Issue("xfer", <<StageCopy(l), Record(<<"ready", s>>)>>)
             /\ issued' = [issued EXCEPT ![<<"ready", s>>] = @ + 1]

\* vv_layer_prefetch_begin: a slot is overwritten only behind the event that
\* says its reader is done; without one the prefetch is skipped. What fails:
\* a copy, the wait (whose status is dropped) or the record.
AfterReader(s) == IF loaded[s] >= 0 THEN <<Await(<<"done", s>>)>> ELSE << >>
PrefetchFails(l) ==
    LET s == pool_slot(l)
    IN  \/ \E some \in BOOLEAN : /\ StageFails(l, some) /\ UNCHANGED issued
                                 /\ Issue("xfer", AfterReader(s) \o Begun(l, some))
        \/ /\ Stage(l) /\ Fault /\ loaded[s] >= 0
           /\ Issue("xfer", <<StageCopy(l), Record(<<"ready", s>>)>>)
           /\ issued' = [issued EXCEPT ![<<"ready", s>>] = @ + 1]
        \/ /\ Stage(l) /\ Fault /\ UNCHANGED issued
           /\ Issue("xfer", AfterReader(s) \o <<StageCopy(l)>>)
vv_layer_prefetch_begin(l) ==
    LET s == pool_slot(l)
    IN  IF \/ l \notin LayerIdx \/ ~pool.prefetch \/ ~Streamed(l)
           \/ loaded[s] = l
           \/ loaded[s] >= 0 /\ ~doneValid[s]
        THEN NoStage
        ELSE \/ /\ Stage(l) /\ NoFault
                /\ Issue("xfer", AfterReader(s) \o <<StageCopy(l), Record(<<"ready", s>>)>>)
                /\ issued' = [issued EXCEPT ![<<"ready", s>>] = @ + 1]
             \/ PrefetchFails(l)

\* vv_layer_prefetch_wait: the compute stream waits for the copy, or makes it
\* itself when nobody prefetched the layer. Either may fail.
vv_layer_prefetch_wait(l) ==
    LET s == pool_slot(l)
    IN  IF ~Streamed(l) THEN NoStage
        ELSE IF loaded[s] # l
        THEN /\ UNCHANGED issued
             /\ \/ Stage(l) /\ NoFault /\ Issue("compute", <<StageCopy(l)>>)
                \/ \E some \in BOOLEAN : StageFails(l, some) /\ Issue("compute", Begun(l, some))
        ELSE /\ UNCHANGED <<ptr, loaded, doneValid, issued>>
             /\ \/ NoFault /\ Issue("compute", <<Await(<<"ready", s>>)>>)
                \/ Fault /\ UNCHANGED queue

\* vv_layer_prefetch_done: done_valid is set whether or not the record is.
vv_layer_prefetch_done(l) ==
    LET s == pool_slot(l)
    IN  IF ~Streamed(l) \/ loaded[s] # l THEN NoStage
        ELSE /\ doneValid' = [doneValid EXCEPT ![s] = TRUE]
             /\ \/ /\ NoFault /\ Issue("compute", <<Record(<<"done", s>>)>>)
                   /\ issued' = [issued EXCEPT ![<<"done", s>>] = @ + 1]
                \/ Fault /\ UNCHANGED <<queue, issued>>
             /\ UNCHANGED <<ptr, loaded>>

----------------------------------------------------------------------------
(* The layer loop of one step or one prefill chunk.                        *)

Room == \A t \in Streams : Len(queue[t]) < MaxQueue
Rest == UNCHANGED <<pool, busy, devVars>> /\ clock' = clock + 1

PassBegins ==
    /\ at = "begin" /\ pass < MaxPasses /\ Room
    /\ vv_layer_prefetch_begin(0)
    /\ at' = "wait" /\ layer' = 0 /\ pass' = pass
    /\ Rest

LayerWaits ==
    /\ at = "wait" /\ Room
    /\ vv_layer_prefetch_wait(layer)
    /\ at' = "ahead" /\ UNCHANGED <<pass, layer>>
    /\ Rest

NextLayerBegins ==
    /\ at = "ahead" /\ Room
    /\ vv_layer_prefetch_begin(layer + 1)
    /\ at' = "run" /\ UNCHANGED <<pass, layer>>
    /\ Rest

LayerRuns ==
    /\ at = "run" /\ Room
    /\ Issue("compute", <<Kernel(layer)>>)
    /\ at' = "done" /\ UNCHANGED <<pass, layer, ptr, loaded, doneValid, issued, faults>>
    /\ Rest

\* decoder_layer_impl fails, some of its kernels launched or none: the call
\* ends behind the event for this layer, and the next pass is another call.
LayerFails ==
    /\ at = "run" /\ Room /\ Fault
    /\ Issue("compute", <<Kernel(layer)>>) \/ UNCHANGED queue
    /\ at' = "failed" /\ UNCHANGED <<pass, layer, ptr, loaded, doneValid, issued>>
    /\ Rest

PassFails ==
    /\ at = "failed" /\ Room
    /\ vv_layer_prefetch_done(layer)
    /\ layer' = 0 /\ at' = "begin" /\ pass' = pass + 1
    /\ Rest

LayerDone ==
    /\ at = "done" /\ Room
    /\ vv_layer_prefetch_done(layer)
    /\ IF layer + 1 < Layers THEN /\ layer' = layer + 1 /\ at' = "wait"
                                  /\ pass' = pass
                             ELSE /\ layer' = 0 /\ at' = "begin"
                                  /\ pass' = pass + 1
    /\ Rest

----------------------------------------------------------------------------
(* The device.  A copy and a kernel take time: they begin and they end.    *)

Pop(t) == queue' = [queue EXCEPT ![t] = Tail(@)]

WorkBegins(t) ==
    /\ queue[t] # << >> /\ ~busy[t]
    /\ LET w == Head(queue[t])
       IN  /\ w.k \in {"copy", "run"}
           /\ content' = IF w.k = "copy"
                         THEN [content EXCEPT ![w.slot] = HalfCopied]
                         ELSE content
    /\ busy' = [busy EXCEPT ![t] = TRUE]
    /\ UNCHANGED <<pool, hostVars, queue, fired, issued, clock, faults>>

WorkEnds(t) ==
    /\ busy[t]
    /\ LET w == Head(queue[t])
       IN  content' = IF w.k = "copy" THEN [content EXCEPT ![w.slot] = w.l]
                                      ELSE content
    /\ Pop(t) /\ busy' = [busy EXCEPT ![t] = FALSE]
    /\ UNCHANGED <<pool, hostVars, fired, issued, clock, faults>>

EventStep(t) ==
    /\ queue[t] # << >>
    /\ LET w == Head(queue[t])
       IN  \/ /\ w.k = "record"
              /\ fired' = [fired EXCEPT ![w.e] = w.n]
           \/ /\ w.k = "wait" /\ fired[w.e] >= w.n
              /\ fired' = fired
    /\ Pop(t)
    /\ UNCHANGED <<pool, hostVars, busy, content, issued, clock, faults>>

HostStep == PassBegins \/ LayerWaits \/ NextLayerBegins \/ LayerRuns \/ LayerDone \/ LayerFails \/ PassFails
DeviceStep(t) == WorkBegins(t) \/ WorkEnds(t) \/ EventStep(t)

LayerNext == HostStep \/ (\E t \in Streams : DeviceStep(t))

LayerSpec == LayerInit /\ [][LayerNext]_layerVars

----------------------------------------------------------------------------
(* A kernel on the device reads its own layer's weights, whole, from the   *)
(* moment it begins until it ends: the copy for a later layer neither      *)
(* started over it nor is its own still under way, however far the host    *)
(* and the transfer stream have run ahead.                                 *)
ReadsOwnLayer ==
    busy["compute"] /\ Head(queue["compute"]).k = "run"
        => LET w == Head(queue["compute"])
           IN  Streamed(w.l) => w.slot \in Slots /\ content[w.slot] = w.l

(* A layer points into a slot exactly while the slot is its own: unstaging *)
(* gave every other layer its host pointers back, and a resident layer was *)
(* never moved.                                                            *)
PointersMatchSlots ==
    \A l \in LayerIdx :
        /\ ptr[l] # Mixed
        /\ ptr[l] \in Slots <=> \E s \in Slots : loaded[s] = l
        /\ ptr[l] \in Slots => loaded[ptr[l]] = l /\ Streamed(l)

(* The events never make the two streams wait for each other: while work   *)
(* is queued, one of them can go on.                                       *)
CanGoOn(t) ==
    /\ queue[t] # << >>
    /\ LET w == Head(queue[t]) IN w.k = "wait" => fired[w.e] >= w.n
StreamsDrain == (\E t \in Streams : queue[t] # << >>) => \E t \in Streams : CanGoOn(t)

(* Whichever calls to the device fail, no stream waits for an event that   *)
(* nobody will record: a wait is only ever for a record that was issued    *)
(* before it (vv_layer_prefetch_begin skips a slot without one). And while *)
(* none has failed, a layer runs on its own weights, and the pointers of a *)
(* layer name the slot that holds it or none. After a failed copy, wait or *)
(* record the code gives neither: the layer loop drops the status and runs *)
(* the layer (README, Findings).                                           *)
RunsOwnWeights == StreamsDrain /\ (faults = 0 => ReadsOwnLayer /\ PointersMatchSlots)
-----------------------------------------------------------------------------
(* What makes RunsOwnWeights inductive.                                    *)

Xfer == queue["xfer"]
Compute == queue["compute"]
Idx(q) == 1..Len(q)
Touches(w, s) == w.k \in {"copy", "run"} /\ w.slot = s
Copies(w, s) == w.k = "copy" /\ w.slot = s
Records(w, e) == w.k = "record" /\ w.e = e
Waits(w, e) == w.k = "wait" /\ w.e = e
Ready(s) == <<"ready", s>>
Done(s) == <<"done", s>>

Work == [k : {"copy", "run"}, slot : Slots \cup {-1, Mixed}, l : LayerIdx \cup {HalfCopied}, t : Nat]
        \cup [k : {"wait", "record"}, e : Events, n : Nat, t : Nat]
LayerTypeOK ==
    /\ pool \in Pools
    /\ pass \in Nat /\ at \in {"begin", "wait", "ahead", "run", "done", "failed"} /\ layer \in LayerIdx
    /\ loaded \in [Slots -> LayerIdx \cup {-1}] /\ doneValid \in [Slots -> BOOLEAN]
    /\ ptr \in [LayerIdx -> Slots \cup {-1, Mixed}]
    /\ queue \in [Streams -> Seq(Work)] /\ busy \in [Streams -> BOOLEAN]
    /\ content \in [Slots -> LayerIdx \cup {-1, HalfCopied}]
    /\ issued \in [Events -> Nat] /\ fired \in [Events -> Nat] /\ clock \in Nat

(* A stream is in the order of the host's calls, of which each issues one  *)
(* copy at most; only the compute stream has kernels, and a busy stream is *)
(* at a copy or a kernel.                                                  *)
InOrder(q) ==
    /\ \A i, j \in Idx(q) : i < j => q[i].t <= q[j].t
    /\ \A i, j \in Idx(q) : i < j /\ q[i].k = "copy" /\ q[j].k \in {"copy", "run"} => q[i].t < q[j].t
IssuedBefore(q, n) == \A i \in Idx(q) : q[i].t < n
StreamsInOrder ==
    /\ \A t \in Streams : InOrder(queue[t]) /\ IssuedBefore(queue[t], clock)
    /\ \A i \in Idx(Xfer) : Xfer[i].k # "run"
    /\ \A t \in Streams : busy[t] => queue[t] # << >> /\ Head(queue[t]).k \in {"copy", "run"}

(* Records of an event are passed in order (f of n so far), the last one   *)
(* asked for is queued until it is passed, and what a wait still waits for *)
(* was issued before it, on the other stream.                              *)
RecordsInOrder(q, e, f, n) ==
    /\ f <= n
    /\ \A i \in Idx(q) : Records(q[i], e) => f < q[i].n /\ q[i].n <= n
    /\ \A i, j \in Idx(q) : i < j /\ Records(q[i], e) /\ Records(q[j], e) => q[i].n < q[j].n
    /\ f < n => \E i \in Idx(q) : Records(q[i], e) /\ q[i].n = n
WaitsMet(q, p, e, f) ==
    \A i \in Idx(q) : Waits(q[i], e) /\ f < q[i].n
        => \E j \in Idx(p) : Records(p[j], e) /\ p[j].n = q[i].n /\ p[j].t < q[i].t
NoRecord(q, e) == \A i \in Idx(q) : ~Records(q[i], e)
NoWait(q, e) == \A i \in Idx(q) : ~Waits(q[i], e)
EventsInOrder ==
    \A s \in Slots :
        /\ RecordsInOrder(Xfer, Ready(s), fired[Ready(s)], issued[Ready(s)])
        /\ RecordsInOrder(Compute, Done(s), fired[Done(s)], issued[Done(s)])
        /\ WaitsMet(Xfer, Compute, Done(s), fired[Done(s)])
        /\ WaitsMet(Compute, Xfer, Ready(s), fired[Ready(s)])
        /\ NoRecord(Xfer, Done(s)) /\ NoWait(Xfer, Ready(s))
        /\ NoRecord(Compute, Ready(s)) /\ NoWait(Compute, Done(s))

(* q[i] is behind a wait for a record that p[j] is before.                 *)
Behind(q, i, p, j, e) ==
    \E a \in Idx(q), b \in Idx(p) :
        a < i /\ j < b /\ Waits(q[a], e) /\ Records(p[b], e) /\ p[b].n <= q[a].n
(* A copy of the transfer stream and whatever the compute stream does with *)
(* the same slot are kept in the host's order by an event.                 *)
Guarded(c, x, s) ==
    \A i \in Idx(c), j \in Idx(x) :
        Touches(c[i], s) /\ Copies(x[j], s) =>
            \/ x[j].t < c[i].t /\ Behind(c, i, x, j, Ready(s))
            \/ c[i].t < x[j].t /\ Behind(x, j, c, i, Done(s))
SlotsGuarded == \A s \in Slots : Guarded(Compute, Xfer, s)

(* Slot s, with m in it, holds layer l once the copies that were issued    *)
(* before call n to the two streams, q and p, are through.                 *)
NoneBefore(q, s, n) == \A i \in Idx(q) : Copies(q[i], s) => q[i].t >= n
NoneSince(q, s, m, n) == \A i \in Idx(q) : Copies(q[i], s) => q[i].t >= n \/ q[i].t <= m
LastBefore(q, p, s, l, n) ==
    \E i \in Idx(q) : /\ Copies(q[i], s) /\ q[i].l = l /\ q[i].t < n
                      /\ NoneSince(q, s, q[i].t, n) /\ NoneSince(p, s, q[i].t, n)
Holds(q, p, m, s, l, n) == \/ m = l /\ NoneBefore(q, s, n) /\ NoneBefore(p, s, n)
                           \/ LastBefore(q, p, s, l, n) \/ LastBefore(p, q, s, l, n)
WillHold(s, l, n) == Holds(Xfer, Compute, content[s], s, l, n)
KernelsFed ==
    \A i \in Idx(Compute) : Compute[i].k = "run" /\ Streamed(Compute[i].l) =>
        Compute[i].slot \in Slots /\ WillHold(Compute[i].slot, Compute[i].l, Compute[i].t)

(* The host's side: the slots are what it takes them for, or will be.      *)
Untouched(q, s) == \A i \in Idx(q) : ~Touches(q[i], s)
LoadedComes ==
    \A s \in Slots :
        /\ loaded[s] = -1 => ~doneValid[s] /\ Untouched(Xfer, s) /\ Untouched(Compute, s)
        /\ loaded[s] # -1 => /\ pool_slot(loaded[s]) = s /\ Streamed(loaded[s]) /\ ptr[loaded[s]] = s
                             /\ WillHold(s, loaded[s], clock)
Recorded(q, s) ==
    \A j \in Idx(q) : Copies(q[j], s) => \E b \in Idx(q) : j < b /\ Records(q[b], Ready(s))
CopiesRecorded == \A s \in Slots : Recorded(Xfer, s)
(* What was prefetched and not waited for is the layer that runs next.     *)
WaitComes(s) ==
    \/ at = "wait" /\ s = pool_slot(layer) /\ loaded[s] = layer
    \/ at \in {"run", "done"} /\ layer + 1 < Layers /\ s = pool_slot(layer + 1) /\ loaded[s] = layer + 1
Awaited(c, x, s) ==
    \A j \in Idx(x) : Copies(x[j], s) => Behind(c, Len(c) + 1, x, j, Ready(s))
CopiesAwaited == \A s \in Slots : WaitComes(s) \/ Awaited(Compute, Xfer, s)
(* done_valid is true only behind the last reader, but while this layer's  *)
(* kernel is not followed by its record yet.                               *)
InUse(s) == at = "done" /\ Streamed(layer) /\ s = pool_slot(layer)
ReadersRecorded(q, s) ==
    \A i \in Idx(q) : Touches(q[i], s) => \E a \in Idx(q) : i < a /\ Records(q[a], Done(s))
DoneRecorded == \A s \in Slots : doneValid[s] /\ ~InUse(s) => ReadersRecorded(Compute, s)
(* The layer that runs next is staged, and with one buffer nothing takes   *)
(* it from under it.                                                       *)
RunsStaged == at # "failed" /\ (at \in {"ahead", "run", "done"} /\ Streamed(layer) => loaded[pool_slot(layer)] = layer)
OneBuffer ==
    pool.bufs = 1 =>
        /\ at = "begin" => loaded[0] \in {-1, Layers - 1}
        /\ at = "wait" => loaded[0] \in {-1, Layers - 1, layer - 1} \/ (loaded[0] = layer /\ ~doneValid[0])
        /\ at = "ahead" /\ Streamed(layer) /\ layer + 1 < Layers => ~doneValid[0]
        /\ at = "ahead" /\ ~Streamed(layer) => loaded[0] \in {-1, Layers - 1}
        /\ at \in {"run", "done"} /\ ~Streamed(layer) =>
               loaded[0] \in {-1, Layers - 1} \/ (loaded[0] = layer + 1 /\ ~doneValid[0])

LayersInv ==
    /\ LayerTypeOK /\ StreamsInOrder /\ EventsInOrder /\ SlotsGuarded /\ KernelsFed
    /\ LoadedComes /\ PointersMatchSlots /\ CopiesRecorded /\ CopiesAwaited /\ DoneRecorded
    /\ RunsStaged /\ OneBuffer
(* What a failed call keeps too, and what it does not.                     *)
Ordered == LayerTypeOK /\ StreamsInOrder /\ EventsInOrder
LayersKept == faults \in Nat /\ Ordered /\ (faults = 0 => LayersInv)

=============================================================================
