---------------------------- MODULE PartsProofs ----------------------------
(***************************************************************************)
(* Proofs about the parts of the library that work on their own.           *)
(*                                                                         *)
(* The tile ring of the kernels, for every number of warps, of stages and  *)
(* of tiles; the ring of a microphone, for every size of it; the streaming *)
(* of layers, for every number of them and every pace of the device; the   *)
(* resampler, for every pair of rates and every way to cut its input; who  *)
(* owns what in an engine, for every number of clones and every failure;   *)
(* the sessions of a slot, for every way to open them and every failure.   *)
(***************************************************************************)
EXTENDS TileRing, MicCapture, LayerStream, Resampler, ContextLife, StreamBackend, SequenceTheorems, WellFoundedInduction, TLAPS

(* Two tiles less than a ring apart that share a slot are the same tile.   *)
LEMMA Stages ==
    ASSUME NEW S \in Nat \ {0}, NEW a \in Nat
    PROVE  a = S * (a \div S) + (a % S) /\ a \div S \in Int /\ a % S \in 0..(S - 1)
  OBVIOUS

LEMMA OneStage ==
    ASSUME NEW S \in Nat \ {0}, NEW k \in Int, k >= 1
    PROVE  S * k >= S
  OBVIOUS

LEMMA LaterSlot ==
    ASSUME NEW S \in Nat \ {0}, NEW a \in Nat, NEW b \in Nat, a % S = b % S,
           b <= a, a < b + S
    PROVE  a = b
<1> DEFINE p == a \div S
           q == b \div S
<1>1. p \in Int /\ q \in Int /\ a = S * p + (a % S) /\ b = S * q + (b % S)
  BY Stages
<1> HIDE DEF p, q
<1>2. S * (p - q) = a - b /\ S * (q - p) = b - a
  BY <1>1
<1>3. ~(p > q)
  <2>1. p > q => S * (p - q) >= S
    BY <1>1, OneStage
  <2>2. QED
    BY <1>2, <2>1
<1>4. ~(q > p)
  <2>1. q > p => S * (q - p) >= S
    BY <1>1, OneStage
  <2>2. QED
    BY <1>2, <2>1
<1>5. p = q
  BY <1>1, <1>3, <1>4
<1>6. QED
  BY <1>1, <1>5

LEMMA SlotsApart ==
    ASSUME NEW S \in Nat \ {0}, NEW a \in Nat, NEW b \in Nat, a # b,
           a < b + S, b < a + S
    PROVE  a % S # b % S
<1> SUFFICES ASSUME a % S = b % S PROVE FALSE
  OBVIOUS
<1>1. CASE b <= a
  BY <1>1, LaterSlot
<1>2. CASE a <= b
  <2>1. b = a
    BY <1>2, LaterSlot
  <2>2. QED
    BY <2>1
<1>3. QED
  BY <1>1, <1>2

(* The slot after a slot, around the ring.                                 *)
LEMMA NextSlot ==
    ASSUME NEW S \in Nat \ {0}, NEW a \in Nat
    PROVE  ((a % S) + 1) % S = (a + 1) % S
<1> DEFINE p == a \div S
           r == a % S
           q == (a + 1) \div S
           m == (a + 1) % S
<1>1. p \in Int /\ q \in Int /\ r \in 0..(S - 1) /\ m \in 0..(S - 1)
      /\ a = S * p + r /\ a + 1 = S * q + m
  BY Stages
<1> HIDE DEF p, q, r, m
<1>2. S * (p - q) = m - r - 1 /\ S * (q - p) = r + 1 - m /\ S * (q - p - 1) = r + 1 - m - S
  BY <1>1
<1>3. ~(p > q)
  <2>1. p > q => S * (p - q) >= S
    BY <1>1, OneStage
  <2>2. QED
    BY <1>1, <1>2, <2>1
<1>4. ~(q > p + 1)
  <2>1. q > p + 1 => S * (q - p - 1) >= S
    BY <1>1, OneStage
  <2>2. QED
    BY <1>1, <1>2, <2>1
<1>5. (q = p /\ m = r + 1) \/ (q = p + 1 /\ m = r + 1 - S)
  <2>1. q = p \/ q = p + 1
    BY <1>1, <1>3, <1>4
  <2>2. q = p => S * (p - q) = 0
    BY <1>1
  <2>3. q = p + 1 => S * (q - p - 1) = 0
    BY <1>1
  <2>4. QED
    BY <1>1, <1>2, <2>1, <2>2, <2>3
<1>6. (r + 1) % S = m
  <2>1. CASE m = r + 1
    BY <1>1, <2>1
  <2>2. CASE m = r + 1 - S
    <3>1. m = 0 /\ r + 1 = S
      BY <1>1, <2>2
    <3>2. S % S = 0
      OBVIOUS
    <3>3. QED
      BY <3>1, <3>2
  <2>3. QED
    BY <1>5, <2>1, <2>2
<1>7. QED
  BY <1>6 DEF r, m

LEMMA SameSlot ==
    ASSUME NEW S \in Nat \ {0}, NEW a \in Nat
    PROVE  (a + S) % S = a % S
<1> DEFINE p == a \div S
           r == a % S
           q == (a + S) \div S
           m == (a + S) % S
<1>1. p \in Int /\ q \in Int /\ r \in 0..(S - 1) /\ m \in 0..(S - 1)
      /\ a = S * p + r /\ a + S = S * q + m
  BY Stages
<1> HIDE DEF p, q, r, m
<1>2. S * (p + 1 - q) = m - r /\ S * (q - p - 1) = r - m
  BY <1>1
<1>3. ~(p + 1 > q)
  <2>1. p + 1 > q => S * (p + 1 - q) >= S
    BY <1>1, OneStage
  <2>2. QED
    BY <1>1, <1>2, <2>1
<1>4. ~(q > p + 1)
  <2>1. q > p + 1 => S * (q - p - 1) >= S
    BY <1>1, OneStage
  <2>2. QED
    BY <1>1, <1>2, <2>1
<1>5. q - p - 1 = 0
  BY <1>1, <1>3, <1>4
<1>6. m = r
  BY <1>1, <1>2, <1>5
<1>7. QED
  BY <1>6 DEF r, m

(* What each kernel does after a step.                                     *)
LEMMA AsyncSteps ==
    ASSUME ring.kind = "async"
    PROVE  /\ Follows("wait") = "sync" /\ Follows("sync") = "load"
           /\ Follows("load") = "read" /\ Follows("read") = "wait" /\ Last = "read"
<1>1. Steps = <<"wait", "sync", "load", "read">>
  BY DEF Steps
<1>2. /\ (CHOOSE i \in DOMAIN Steps : Steps[i] = "wait") = 1
      /\ (CHOOSE i \in DOMAIN Steps : Steps[i] = "sync") = 2
      /\ (CHOOSE i \in DOMAIN Steps : Steps[i] = "load") = 3
      /\ (CHOOSE i \in DOMAIN Steps : Steps[i] = "read") = 4
  BY <1>1
<1>3. QED
  BY <1>1, <1>2 DEF Follows, Last

LEMMA KvSteps ==
    ASSUME ring.kind = "kv"
    PROVE  /\ Follows("load") = "wait" /\ Follows("wait") = "sync"
           /\ Follows("sync") = "read" /\ Follows("read") = "sync2"
           /\ Follows("sync2") = "load" /\ Last = "sync2"
<1>1. Steps = <<"load", "wait", "sync", "read", "sync2">>
  BY DEF Steps
<1>2. /\ (CHOOSE i \in DOMAIN Steps : Steps[i] = "load") = 1
      /\ (CHOOSE i \in DOMAIN Steps : Steps[i] = "wait") = 2
      /\ (CHOOSE i \in DOMAIN Steps : Steps[i] = "sync") = 3
      /\ (CHOOSE i \in DOMAIN Steps : Steps[i] = "read") = 4
      /\ (CHOOSE i \in DOMAIN Steps : Steps[i] = "sync2") = 5
  BY <1>1
<1>3. QED
  BY <1>1, <1>2 DEF Follows, Last

LEMMA DoubleSteps ==
    ASSUME ring.kind = "double"
    PROVE  /\ Follows("read") = "load" /\ Follows("load") = "sync"
           /\ Follows("sync") = "read" /\ Last = "sync"
<1>1. Steps = <<"read", "load", "sync">>
  BY DEF Steps
<1>2. /\ (CHOOSE i \in DOMAIN Steps : Steps[i] = "read") = 1
      /\ (CHOOSE i \in DOMAIN Steps : Steps[i] = "load") = 2
      /\ (CHOOSE i \in DOMAIN Steps : Steps[i] = "sync") = 3
  BY <1>1
<1>3. QED
  BY <1>1, <1>2 DEF Follows, Last

LEMMA SingleSteps ==
    ASSUME ring.kind = "single"
    PROVE  /\ Follows("load") = "sync" /\ Follows("sync") = "read"
           /\ Follows("read") = "sync2" /\ Follows("sync2") = "load"
           /\ Last = "sync2"
<1>1. Steps = <<"load", "sync", "read", "sync2">>
  BY DEF Steps
<1>2. /\ (CHOOSE i \in DOMAIN Steps : Steps[i] = "load") = 1
      /\ (CHOOSE i \in DOMAIN Steps : Steps[i] = "sync") = 2
      /\ (CHOOSE i \in DOMAIN Steps : Steps[i] = "read") = 3
      /\ (CHOOSE i \in DOMAIN Steps : Steps[i] = "sync2") = 4
  BY <1>1
<1>3. QED
  BY <1>1, <1>2 DEF Follows, Last

(* The ring of a block.                                                    *)
LEMMA RingIs ==
    ASSUME KernelRings, ring \in Rings
    PROVE  /\ ring.kind \in {"async", "kv", "double", "single"}
           /\ ring.stages \in Nat \ {0} /\ ring.tiles \in Nat
           /\ ring.kind \in {"async", "kv"} => ring.stages >= 2
           /\ ring.kind = "double" => ring.stages = 2
           /\ ring.kind = "single" => ring.stages = 1
  BY DEF KernelRings

(* The tiles a warp has issued and may still need fit its slots.           *)
LEMMA WindowFits ==
    ASSUME KernelRings, RingTypeOK, NEW w \in Warps
    PROVE  /\ kt[w] \in Int /\ Oldest(w) \in Int /\ Issued(w) \in Int
           /\ Landed(w) \in Int /\ Barriers(w) \in Int
           /\ Issued(w) <= Oldest(w) + ring.stages
           /\ Oldest(w) <= kt[w] /\ kt[w] <= Landed(w)
<1>1. /\ ring.kind \in {"async", "kv", "double", "single"} /\ ring.stages \in Nat
      /\ kt[w] \in Int /\ pc[w] \in StepSet
      /\ ring.kind = "single" => ring.stages = 1
  BY RingIs DEF RingTypeOK
<1>2. QED
  BY <1>1 DEF Oldest, Issued, Landed, Barriers, Loaded, AddIf

(* A warp that reads a tile: every warp is past the barrier that came after*)
(* its copy, and none has come to the copy that follows it in the slot.    *)
LEMMA Reads == KernelRings /\ RingInv => ReadsOwnTile
<1> SUFFICES ASSUME KernelRings, RingInv, NEW w \in Warps, pc[w] = "read", Running(w),
                    NEW p \in Warps
             PROVE  slot[SlotOf(kt[w])][p] = kt[w]
  BY DEF ReadsOwnTile
<1>t. /\ ring.kind \in {"async", "kv", "double", "single"} /\ ring.stages \in Nat
      /\ ring.tiles \in Nat /\ (ring.kind \in {"async", "kv"} => ring.stages >= 2)
      /\ ring.kind = "double" => ring.stages = 2
      /\ ring.kind = "single" => ring.stages = 1
      /\ kt[w] \in Int /\ pc[w] \in StepSet /\ kt[p] \in Int /\ pc[p] \in StepSet
      /\ kt[w] >= 0
  BY RingIs DEF RingInv, RingTypeOK
<1>1. Barriers(w) = Barriers(p)
  BY DEF RingInv, InStep
<1>2. kt[w] \in 0..(ring.tiles - 1)
  BY <1>t DEF Running
<1>3. Oldest(p) <= kt[w] /\ kt[w] < Issued(p) /\ (Asynchronous => kt[w] < Landed(p))
  <2>1. CASE ring.kind = "async"
    BY <1>t, <1>1, <2>1 DEF Barriers, Oldest, Issued, Landed, Loaded, AddIf, StepSet
  <2>2. CASE ring.kind = "kv"
    BY <1>t, <1>1, <2>2 DEF Barriers, Oldest, Issued, Landed, Loaded, AddIf, StepSet
  <2>3. CASE ring.kind = "double"
    BY <1>t, <1>1, <2>3 DEF Barriers, Oldest, Issued, Loaded, AddIf, StepSet, Asynchronous
  <2>4. CASE ring.kind = "single"
    BY <1>t, <1>1, <2>4 DEF Barriers, Oldest, Issued, Loaded, AddIf, StepSet, Asynchronous
  <2>5. QED
    BY <1>t, <2>1, <2>2, <2>3, <2>4
<1>4. <<p, kt[w]>> \notin flight
  <2>1. Landed(p) \in Int
    BY WindowFits DEF RingInv
  <2>2. QED
    BY <1>t, <1>2, <1>3, <2>1 DEF RingInv, InFlight
<1>5. QED
  BY <1>2, <1>3, <1>4 DEF RingInv, Held

(* What going on to the next step does to a warp's counts.                 *)
LEMMA Moves ==
    ASSUME KernelRings, RingTypeOK, NEW w \in Warps, ring' = ring,
           pc'[w] = Follows(pc[w]),
           kt'[w] = IF pc[w] = Last THEN kt[w] + 1 ELSE kt[w]
    PROVE  /\ pc'[w] \in StepSet /\ kt'[w] \in Int
           /\ kt'[w] >= IF ring.kind = "double" /\ pc'[w] = "sync" THEN -1 ELSE 0
           /\ Barriers(w)' = AddIf(Barriers(w), pc[w] \in {"sync", "sync2"})
           /\ Oldest(w)' \in Int /\ Oldest(w) <= Oldest(w)'
           /\ Issued(w)' = AddIf(Issued(w), pc[w] = "load")
           /\ Asynchronous => Landed(w)' = AddIf(Landed(w), pc[w] = "wait")
<1>t. /\ ring.kind \in {"async", "kv", "double", "single"} /\ ring.stages \in Nat
      /\ kt[w] \in Int /\ pc[w] \in StepSet
      /\ kt[w] >= IF ring.kind = "double" /\ pc[w] = "sync" THEN -1 ELSE 0
  BY RingIs DEF RingTypeOK
<1> USE DEF Barriers, Oldest, Issued, Landed, Loaded, AddIf, StepSet, Asynchronous
<1>1. CASE ring.kind = "async"
  <2>1. CASE pc[w] = "wait"
    <3>1. pc'[w] = "sync" /\ kt'[w] = kt[w]
      BY <1>1, <2>1, AsyncSteps
    <3>2. QED
      BY <1>t, <1>1, <2>1, <3>1
  <2>2. CASE pc[w] = "sync"
    <3>1. pc'[w] = "load" /\ kt'[w] = kt[w]
      BY <1>1, <2>2, AsyncSteps
    <3>2. QED
      BY <1>t, <1>1, <2>2, <3>1
  <2>3. CASE pc[w] = "load"
    <3>1. pc'[w] = "read" /\ kt'[w] = kt[w]
      BY <1>1, <2>3, AsyncSteps
    <3>2. QED
      BY <1>t, <1>1, <2>3, <3>1
  <2>4. CASE pc[w] = "read"
    <3>1. pc'[w] = "wait" /\ kt'[w] = kt[w] + 1
      BY <1>1, <2>4, AsyncSteps
    <3>2. QED
      BY <1>t, <1>1, <2>4, <3>1
  <2>5. QED
    BY <1>t, <1>1, <2>1, <2>2, <2>3, <2>4
<1>2. CASE ring.kind = "kv"
  <2>1. CASE pc[w] = "load"
    <3>1. pc'[w] = "wait" /\ kt'[w] = kt[w]
      BY <1>2, <2>1, KvSteps
    <3>2. QED
      BY <1>t, <1>2, <2>1, <3>1
  <2>2. CASE pc[w] = "wait"
    <3>1. pc'[w] = "sync" /\ kt'[w] = kt[w]
      BY <1>2, <2>2, KvSteps
    <3>2. QED
      BY <1>t, <1>2, <2>2, <3>1
  <2>3. CASE pc[w] = "sync"
    <3>1. pc'[w] = "read" /\ kt'[w] = kt[w]
      BY <1>2, <2>3, KvSteps
    <3>2. QED
      BY <1>t, <1>2, <2>3, <3>1
  <2>4. CASE pc[w] = "read"
    <3>1. pc'[w] = "sync2" /\ kt'[w] = kt[w]
      BY <1>2, <2>4, KvSteps
    <3>2. QED
      BY <1>t, <1>2, <2>4, <3>1
  <2>5. CASE pc[w] = "sync2"
    <3>1. pc'[w] = "load" /\ kt'[w] = kt[w] + 1
      BY <1>2, <2>5, KvSteps
    <3>2. QED
      BY <1>t, <1>2, <2>5, <3>1
  <2>6. QED
    BY <1>t, <1>2, <2>1, <2>2, <2>3, <2>4, <2>5
<1>3. CASE ring.kind = "double"
  <2>1. CASE pc[w] = "read"
    <3>1. pc'[w] = "load" /\ kt'[w] = kt[w]
      BY <1>3, <2>1, DoubleSteps
    <3>2. QED
      BY <1>t, <1>3, <2>1, <3>1
  <2>2. CASE pc[w] = "load"
    <3>1. pc'[w] = "sync" /\ kt'[w] = kt[w]
      BY <1>3, <2>2, DoubleSteps
    <3>2. QED
      BY <1>t, <1>3, <2>2, <3>1
  <2>3. CASE pc[w] = "sync"
    <3>1. pc'[w] = "read" /\ kt'[w] = kt[w] + 1
      BY <1>3, <2>3, DoubleSteps
    <3>2. QED
      BY <1>t, <1>3, <2>3, <3>1
  <2>4. QED
    BY <1>t, <1>3, <2>1, <2>2, <2>3
<1>4. CASE ring.kind = "single"
  <2>1. CASE pc[w] = "load"
    <3>1. pc'[w] = "sync" /\ kt'[w] = kt[w]
      BY <1>4, <2>1, SingleSteps
    <3>2. QED
      BY <1>t, <1>4, <2>1, <3>1
  <2>2. CASE pc[w] = "sync"
    <3>1. pc'[w] = "read" /\ kt'[w] = kt[w]
      BY <1>4, <2>2, SingleSteps
    <3>2. QED
      BY <1>t, <1>4, <2>2, <3>1
  <2>3. CASE pc[w] = "read"
    <3>1. pc'[w] = "sync2" /\ kt'[w] = kt[w]
      BY <1>4, <2>3, SingleSteps
    <3>2. QED
      BY <1>t, <1>4, <2>3, <3>1
  <2>4. CASE pc[w] = "sync2"
    <3>1. pc'[w] = "load" /\ kt'[w] = kt[w] + 1
      BY <1>4, <2>4, SingleSteps
    <3>2. QED
      BY <1>t, <1>4, <2>4, <3>1
  <2>5. QED
    BY <1>t, <1>4, <2>1, <2>2, <2>3, <2>4
<1>5. QED
  BY <1>t, <1>1, <1>2, <1>3, <1>4

(* No warp's window changes but at its young end, and nothing is copied.   *)
LEMMA QuietStep ==
    ASSUME KernelRings, RingInv, ring' = ring, slot' = slot, flight' = flight,
           \A w \in Warps : /\ Oldest(w)' \in Int /\ Oldest(w) <= Oldest(w)'
                            /\ Issued(w)' = Issued(w),
           \A w \in Warps, t \in 0..ring.tiles - 1 : <<w, t>> \in flight => Landed(w)' <= t
    PROVE  InFlight' /\ Held'
<1>t. \A w \in Warps : Oldest(w) \in Int /\ Issued(w) \in Int
  BY WindowFits DEF RingInv
<1>r. ring.tiles \in Nat
  BY RingIs DEF RingInv, RingTypeOK
<1>1. InFlight'
  BY <1>t, <1>r DEF RingInv, InFlight, Asynchronous
<1>2. Held'
  <2> SUFFICES ASSUME NEW w \in Warps, NEW t \in 0..(ring.tiles - 1),
                      Oldest(w)' <= t, t < Issued(w)'
               PROVE  <<w, t>> \in flight \/ slot[SlotOf(t)][w] = t
    BY DEF Held, SlotOf
  <2>1. Oldest(w) <= t /\ t < Issued(w)
    BY <1>t, <1>r
  <2>2. QED
    BY <2>1 DEF RingInv, Held
<1>3. QED
  BY <1>1, <1>2

(* A warp goes on by itself: the others are as they were, and no barrier   *)
(* was passed.                                                             *)
LEMMA OneMoves ==
    ASSUME KernelRings, RingInv, NEW w \in Warps, ring' = ring, GoOn(w),
           pc[w] \in {"wait", "load", "read"}
    PROVE  /\ pc' \in [Warps -> StepSet'] /\ kt' \in [Warps -> Int]
           /\ \A u \in Warps : kt'[u] >= IF ring'.kind = "double" /\ pc'[u] = "sync" THEN -1 ELSE 0
           /\ InStep'
           /\ \A u \in Warps : Oldest(u)' \in Int /\ Oldest(u) <= Oldest(u)'
           /\ \A u \in Warps : Issued(u)' = IF u = w /\ pc[w] = "load" THEN Issued(w) + 1 ELSE Issued(u)
           /\ Asynchronous =>
                \A u \in Warps : Landed(u)' = IF u = w /\ pc[w] = "wait" THEN Landed(w) + 1 ELSE Landed(u)
<1>t. /\ RingTypeOK /\ pc \in [Warps -> StepSet] /\ kt \in [Warps -> Int]
      /\ \A u \in Warps : kt[u] >= IF ring.kind = "double" /\ pc[u] = "sync" THEN -1 ELSE 0
  BY DEF RingInv, RingTypeOK
<1>s. StepSet' = StepSet
  BY DEF StepSet
<1>i. \A u \in Warps : /\ Oldest(u) \in Int /\ Issued(u) \in Int
                       /\ Landed(u) \in Int /\ Barriers(u) \in Int
  BY <1>t, WindowFits
<1>1. \A u \in Warps : u # w => pc'[u] = pc[u] /\ kt'[u] = kt[u]
  BY <1>t DEF GoOn
<1>2. pc'[w] = Follows(pc[w]) /\ kt'[w] = IF pc[w] = Last THEN kt[w] + 1 ELSE kt[w]
  BY <1>t DEF GoOn
<1>3. /\ pc'[w] \in StepSet /\ kt'[w] \in Int
      /\ kt'[w] >= IF ring.kind = "double" /\ pc'[w] = "sync" THEN -1 ELSE 0
      /\ Barriers(w)' = Barriers(w)
      /\ Oldest(w)' \in Int /\ Oldest(w) <= Oldest(w)'
      /\ Issued(w)' = IF pc[w] = "load" THEN Issued(w) + 1 ELSE Issued(w)
      /\ Asynchronous => Landed(w)' = IF pc[w] = "wait" THEN Landed(w) + 1 ELSE Landed(w)
  BY <1>t, <1>i, <1>2, Moves DEF AddIf
<1>4. \A u \in Warps : u # w => /\ Barriers(u)' = Barriers(u) /\ Oldest(u)' = Oldest(u)
                                /\ Issued(u)' = Issued(u) /\ Landed(u)' = Landed(u)
  BY <1>1 DEF Barriers, Oldest, Issued, Landed, Loaded
<1>5. DOMAIN pc' = Warps /\ DOMAIN kt' = Warps /\ pc' = [u \in Warps |-> pc'[u]] /\ kt' = [u \in Warps |-> kt'[u]]
  BY <1>t DEF GoOn
<1>6. pc' \in [Warps -> StepSet'] /\ kt' \in [Warps -> Int]
  BY <1>t, <1>s, <1>1, <1>3, <1>5
<1>7. \A u \in Warps : kt'[u] >= IF ring'.kind = "double" /\ pc'[u] = "sync" THEN -1 ELSE 0
  BY <1>t, <1>1, <1>3
<1>8. InStep'
  BY <1>3, <1>4 DEF RingInv, InStep
<1>9. QED
  BY <1>i, <1>3, <1>4, <1>6, <1>7, <1>8

LEMMA WaitKeeps ==
    ASSUME KernelRings, RingInv, NEW w \in Warps, Wait(w)
    PROVE  RingInv'
<1> USE DEF Wait
<1>r. ring.stages \in Nat \ {0} /\ ring.tiles \in Nat /\ kt[w] \in Int /\ pc[w] \in StepSet
  BY RingIs DEF RingInv, RingTypeOK
<1>i. \A u \in Warps : Landed(u) \in Int /\ Issued(u) \in Int
  BY WindowFits DEF RingInv
<1>1. RingTypeOK' /\ InStep'
  BY OneMoves DEF RingInv, RingTypeOK
<1>2. \A u \in Warps, t \in 0..ring.tiles - 1 : <<u, t>> \in flight => Landed(u)' <= t
  <2> SUFFICES ASSUME NEW u \in Warps, NEW t \in 0..(ring.tiles - 1), <<u, t>> \in flight
               PROVE  Landed(u)' <= t
    OBVIOUS
  <2>1. Asynchronous /\ Landed(u) <= t
    BY DEF RingInv, InFlight
  <2>2. CASE u # w
    BY <2>1, <2>2, OneMoves
  <2>3. CASE u = w
    <3>1. t >= kt[w] + 1
      BY <1>r, <2>3 DEF Committed
    <3>2. Landed(w) = kt[w]
      BY <1>r DEF Landed, AddIf
    <3>3. Landed(w)' = Landed(w) + 1
      BY <2>1, OneMoves
    <3>4. QED
      BY <1>r, <2>3, <3>1, <3>2, <3>3
  <2>4. QED
    BY <2>2, <2>3
<1>3. InFlight' /\ Held'
  BY <1>2, OneMoves, QuietStep
<1>4. QED
  BY <1>1, <1>3 DEF RingInv

LEMMA ReadKeeps ==
    ASSUME KernelRings, RingInv, NEW w \in Warps, Read(w)
    PROVE  RingInv'
<1> USE DEF Read
<1>1. RingTypeOK' /\ InStep'
  BY OneMoves DEF RingInv, RingTypeOK
<1>2. \A u \in Warps, t \in 0..ring.tiles - 1 : <<u, t>> \in flight => Landed(u)' <= t
  BY OneMoves DEF RingInv, InFlight
<1>3. InFlight' /\ Held'
  BY <1>2, OneMoves, QuietStep
<1>4. QED
  BY <1>1, <1>3 DEF RingInv

LEMMA SyncKeeps ==
    ASSUME KernelRings, RingInv, Sync
    PROVE  RingInv'
<1>a. /\ ring' = ring /\ slot' = slot /\ flight' = flight
      /\ \A u \in Warps : pc[u] \in {"sync", "sync2"}
      /\ pc' = [u \in Warps |-> Follows(pc[u])]
      /\ kt' = [u \in Warps |-> IF pc[u] = Last THEN kt[u] + 1 ELSE kt[u]]
  BY DEF Sync
<1>t. RingTypeOK
  BY DEF RingInv
<1>s. StepSet' = StepSet
  BY <1>a DEF StepSet
<1>i. \A u \in Warps : /\ Oldest(u) \in Int /\ Issued(u) \in Int
                       /\ Landed(u) \in Int /\ Barriers(u) \in Int
  BY <1>t, WindowFits
<1>1. \A u \in Warps : /\ pc'[u] = Follows(pc[u])
                       /\ kt'[u] = IF pc[u] = Last THEN kt[u] + 1 ELSE kt[u]
                       /\ pc[u] \in {"sync", "sync2"}
  BY <1>a
<1>2. \A u \in Warps : /\ pc'[u] \in StepSet /\ kt'[u] \in Int
                       /\ kt'[u] >= IF ring.kind = "double" /\ pc'[u] = "sync" THEN -1 ELSE 0
                       /\ Barriers(u)' = Barriers(u) + 1
                       /\ Oldest(u)' \in Int /\ Oldest(u) <= Oldest(u)'
                       /\ Issued(u)' = Issued(u)
                       /\ Asynchronous => Landed(u)' = Landed(u)
  <2> TAKE u \in Warps
  <2>1. pc[u] # "load" /\ pc[u] # "wait"
    BY <1>1
  <2>2. QED
    BY <1>a, <1>t, <1>i, <1>1, <2>1, Moves DEF AddIf
<1>3. pc' \in [Warps -> StepSet'] /\ kt' \in [Warps -> Int]
  <2>1. pc' = [u \in Warps |-> pc'[u]] /\ kt' = [u \in Warps |-> kt'[u]]
    BY <1>a
  <2>2. QED
    BY <1>a, <1>s, <1>2, <2>1
<1>4. RingTypeOK'
  BY <1>a, <1>t, <1>2, <1>3 DEF RingTypeOK
<1>5. InStep'
  BY <1>a, <1>2 DEF RingInv, InStep
<1>6. \A u \in Warps, t \in 0..ring.tiles - 1 : <<u, t>> \in flight => Landed(u)' <= t
  BY <1>a, <1>2 DEF RingInv, InFlight
<1>7. InFlight' /\ Held'
  BY <1>a, <1>2, <1>6, QuietStep
<1>8. QED
  BY <1>4, <1>5, <1>7 DEF RingInv

(* A copy that comes to lie in its slot: the other tiles of the window lie *)
(* in other slots.                                                         *)
WroteSlot(w, t) ==
  /\ slot' \in [0..ring.stages - 1 -> [Warps -> Int]]
  /\ slot'[SlotOf(t)][w] = t
  /\ \A u \in Warps, v \in 0..ring.tiles - 1 :
       u # w \/ (v # t /\ v < t + ring.stages /\ t < v + ring.stages)
         => slot'[SlotOf(v)][u] = slot[SlotOf(v)][u]

LEMMA SlotWritten ==
    ASSUME KernelRings, RingTypeOK, NEW w \in Warps, NEW t \in 0..(ring.tiles - 1),
           slot' = [slot EXCEPT ![SlotOf(t)][w] = t]
    PROVE  WroteSlot(w, t)
<1>r. ring.stages \in Nat \ {0} /\ ring.tiles \in Nat
  BY RingIs DEF RingTypeOK
<1>1. slot \in [0..ring.stages - 1 -> [Warps -> Int]]
  BY DEF RingTypeOK
<1>2. \A v \in 0..ring.tiles - 1 : SlotOf(v) \in 0..ring.stages - 1
  BY <1>r, Stages DEF SlotOf
<1>3. slot' \in [0..ring.stages - 1 -> [Warps -> Int]] /\ slot'[SlotOf(t)][w] = t
  BY <1>r, <1>1, <1>2
<1>4. ASSUME NEW u \in Warps, NEW v \in 0..(ring.tiles - 1),
             u # w \/ (v # t /\ v < t + ring.stages /\ t < v + ring.stages)
      PROVE  slot'[SlotOf(v)][u] = slot[SlotOf(v)][u]
  <2>1. u # w \/ SlotOf(v) # SlotOf(t)
    <3>1. v # t /\ v < t + ring.stages /\ t < v + ring.stages => v % ring.stages # t % ring.stages
      BY <1>r, SlotsApart
    <3>2. QED
      BY <1>4, <3>1 DEF SlotOf
  <2> HIDE DEF SlotOf
  <2>2. SlotOf(v) \in 0..ring.stages - 1 /\ SlotOf(t) \in 0..ring.stages - 1
    BY <1>2
  <2>3. QED
    BY <1>1, <2>1, <2>2
<1>5. QED
  BY <1>3, <1>4 DEF WroteSlot

LEMMA LandKeeps ==
    ASSUME KernelRings, RingInv, NEW w \in Warps, Land(w)
    PROVE  RingInv'
<1>r. RingTypeOK /\ ring.stages \in Nat \ {0} /\ ring.tiles \in Nat
  BY RingIs DEF RingInv, RingTypeOK
<1>0. /\ ring' = ring /\ pc' = pc /\ kt' = kt
      /\ flight \subseteq Warps \X (0..ring.tiles - 1)
  BY <1>r DEF Land, RingTypeOK
<1>1. PICK t \in 0..(ring.tiles - 1) :
             /\ <<w, t>> \in flight /\ flight' = flight \ {<<w, t>>}
             /\ slot' = [slot EXCEPT ![SlotOf(t)][w] = t]
  <2>1. PICK t \in {f[2] : f \in {g \in flight : g[1] = w}} :
               slot' = [slot EXCEPT ![SlotOf(t)][w] = t] /\ flight' = flight \ {<<w, t>>}
    BY DEF Land
  <2>2. PICK f \in flight : f[1] = w /\ t = f[2]
    OBVIOUS
  <2>3. t \in 0..(ring.tiles - 1) /\ <<w, t>> \in flight
    BY <1>0, <2>2
  <2>4. QED
    BY <2>1, <2>3
<1>w. WroteSlot(w, t)
  BY <1>r, <1>1, SlotWritten
<1>2. \A u \in Warps : /\ Oldest(u)' = Oldest(u) /\ Issued(u)' = Issued(u)
                       /\ Landed(u)' = Landed(u) /\ Barriers(u)' = Barriers(u)
  BY <1>0 DEF Oldest, Issued, Landed, Barriers, Loaded
<1>i. \A u \in Warps : /\ Oldest(u) \in Int /\ Issued(u) \in Int /\ Landed(u) \in Int
                       /\ Issued(u) <= Oldest(u) + ring.stages /\ Oldest(u) <= Landed(u)
  <2> TAKE u \in Warps
  <2>1. /\ kt[u] \in Int /\ Oldest(u) \in Int /\ Issued(u) \in Int /\ Landed(u) \in Int
        /\ Issued(u) <= Oldest(u) + ring.stages /\ Oldest(u) <= kt[u] /\ kt[u] <= Landed(u)
    BY <1>r, WindowFits
  <2>2. QED
    BY <2>1
<1>3. RingTypeOK'
  <2>1. StepSet' = StepSet
    BY <1>0 DEF StepSet
  <2>2. QED
    BY <1>r, <1>0, <1>1, <1>w, <2>1 DEF RingTypeOK, WroteSlot
<1>4. InStep'
  BY <1>2 DEF RingInv, InStep
<1>5. InFlight'
  BY <1>0, <1>1, <1>2 DEF RingInv, InFlight, Asynchronous
<1>6. Held'
  <2> SUFFICES ASSUME NEW u \in Warps, NEW v \in 0..(ring.tiles - 1),
                      Oldest(u) <= v, v < Issued(u)
               PROVE  <<u, v>> \in flight' \/ slot'[SlotOf(v)][u] = v
    BY <1>0, <1>2 DEF Held, SlotOf
  <2>1. <<u, v>> \in flight \/ slot[SlotOf(v)][u] = v
    BY DEF RingInv, Held
  <2>2. CASE u = w /\ v = t
    BY <1>w, <2>2 DEF WroteSlot
  <2>3. CASE u # w
    BY <1>1, <1>w, <2>1, <2>3 DEF WroteSlot
  <2>4. CASE u = w /\ v # t
    <3>1. Landed(w) <= t /\ t < Issued(w)
      BY <1>1 DEF RingInv, InFlight
    <3>2. v < t + ring.stages /\ t < v + ring.stages
      BY <1>r, <1>i, <2>4, <3>1
    <3>3. slot'[SlotOf(v)][u] = slot[SlotOf(v)][u]
      BY <1>w, <2>4, <3>2 DEF WroteSlot
    <3>4. QED
      BY <1>1, <2>1, <2>4, <3>3
  <2>5. QED
    BY <2>2, <2>3, <2>4
<1>7. QED
  BY <1>3, <1>4, <1>5, <1>6 DEF RingInv

LEMMA LoadKeeps ==
    ASSUME KernelRings, RingInv, NEW w \in Warps, Load(w)
    PROVE  RingInv'
<1> DEFINE t == Copied(w)
<1>r. /\ RingTypeOK /\ ring.stages \in Nat \ {0} /\ ring.tiles \in Nat
      /\ ring.kind \in {"async", "kv", "double", "single"}
      /\ Asynchronous => ring.stages >= 2
      /\ ring.kind = "double" => ring.stages = 2
      /\ ring.kind = "single" => ring.stages = 1
      /\ kt[w] \in Int /\ kt[w] >= IF ring.kind = "double" /\ pc[w] = "sync" THEN -1 ELSE 0
      /\ flight \subseteq Warps \X (0..ring.tiles - 1)
  BY RingIs DEF RingInv, RingTypeOK, Asynchronous
<1>0. ring' = ring /\ pc[w] = "load" /\ GoOn(w)
  BY DEF Load
<1>1. \/ t >= ring.tiles /\ slot' = slot /\ flight' = flight
      \/ ~(t >= ring.tiles) /\ Asynchronous /\ slot' = slot /\ flight' = flight \cup {<<w, t>>}
      \/ ~(t >= ring.tiles) /\ ~Asynchronous /\ flight' = flight
         /\ slot' = [slot EXCEPT ![SlotOf(t)][w] = t]
  BY DEF Load
<1>2. t = Issued(w) /\ t \in Nat /\ (Asynchronous => Landed(w) <= t)
  <2>1. CASE ring.kind = "async"
    BY <1>r, <1>0, <2>1 DEF Copied, Issued, Loaded, Landed, AddIf, Asynchronous
  <2>2. CASE ring.kind = "kv"
    BY <1>r, <1>0, <2>2 DEF Copied, Issued, Loaded, Landed, AddIf, Asynchronous
  <2>3. CASE ring.kind = "double"
    BY <1>r, <1>0, <2>3 DEF Copied, Issued, Loaded, AddIf, Asynchronous
  <2>4. CASE ring.kind = "single"
    BY <1>r, <1>0, <2>4 DEF Copied, Issued, Loaded, AddIf, Asynchronous
  <2>5. QED
    BY <1>r, <2>1, <2>2, <2>3, <2>4
<1> HIDE DEF t
<1>3. /\ pc' \in [Warps -> StepSet'] /\ kt' \in [Warps -> Int]
      /\ \A u \in Warps : kt'[u] >= IF ring'.kind = "double" /\ pc'[u] = "sync" THEN -1 ELSE 0
      /\ InStep'
      /\ \A u \in Warps : Oldest(u)' \in Int /\ Oldest(u) <= Oldest(u)'
      /\ \A u \in Warps : Issued(u)' = IF u = w THEN Issued(w) + 1 ELSE Issued(u)
      /\ Asynchronous => \A u \in Warps : Landed(u)' = Landed(u)
  BY <1>0, OneMoves
<1>i. \A u \in Warps : Oldest(u) \in Int /\ Issued(u) \in Int /\ Landed(u) \in Int
  BY <1>r, WindowFits
<1>w. ~(t >= ring.tiles) /\ ~Asynchronous => WroteSlot(w, t)
  <2>1. ~(t >= ring.tiles) => t \in 0..(ring.tiles - 1)
    BY <1>r, <1>2
  <2>2. QED
    BY <1>r, <1>1, <2>1, SlotWritten
<1>4. RingTypeOK'
  <2>1. slot' \in [0..ring.stages - 1 -> [Warps -> Int]]
    BY <1>r, <1>1, <1>w DEF RingTypeOK, WroteSlot
  <2>2. flight' \subseteq Warps \X (0..ring.tiles - 1)
    BY <1>r, <1>1, <1>2
  <2>3. QED
    BY <1>r, <1>0, <1>3, <2>1, <2>2 DEF RingTypeOK
<1>5. InFlight'
  <2> SUFFICES ASSUME NEW u \in Warps, NEW v \in 0..(ring.tiles - 1), <<u, v>> \in flight'
               PROVE  Asynchronous /\ Landed(u)' <= v /\ v < Issued(u)'
    BY <1>0 DEF InFlight, Asynchronous
  <2>1. CASE <<u, v>> \in flight
    <3>1. Asynchronous /\ Landed(u) <= v /\ v < Issued(u)
      BY <2>1 DEF RingInv, InFlight
    <3>2. QED
      BY <1>i, <1>r, <1>3, <3>1
  <2>2. CASE <<u, v>> \notin flight
    <3>1. Asynchronous /\ u = w /\ v = t
      BY <1>1, <2>2
    <3>2. QED
      BY <1>i, <1>r, <1>2, <1>3, <3>1
  <2>3. QED
    BY <2>1, <2>2
<1>6. Held'
  <2> SUFFICES ASSUME NEW u \in Warps, NEW v \in 0..(ring.tiles - 1),
                      Oldest(u)' <= v, v < Issued(u)'
               PROVE  <<u, v>> \in flight' \/ slot'[SlotOf(v)][u] = v
    BY <1>0 DEF Held, SlotOf
  <2>1. CASE u = w /\ v = t
    <3>1. ~(t >= ring.tiles)
      BY <1>r, <2>1
    <3>2. QED
      BY <1>1, <1>w, <2>1, <3>1 DEF WroteSlot
  <2>2. CASE u # w \/ v # t
    <3>1. Oldest(u) <= v /\ v < Issued(u)
      BY <1>i, <1>r, <1>2, <1>3, <2>2
    <3>2. <<u, v>> \in flight \/ slot[SlotOf(v)][u] = v
      BY <3>1 DEF RingInv, Held
    <3>3. Issued(w)' <= Oldest(w)' + ring.stages
      <4>1. (Issued(w) <= Oldest(w) + ring.stages)'
        BY <1>4, <1>0, WindowFits, PTL
      <4>2. QED
        BY <1>0, <4>1
    <3>4. u # w \/ (v # t /\ v < t + ring.stages /\ t < v + ring.stages)
      BY <1>i, <1>r, <1>2, <1>3, <2>2, <3>1, <3>3
    <3>5. QED
      BY <1>1, <1>w, <3>2, <3>4 DEF WroteSlot
  <2>3. QED
    BY <2>1, <2>2
<1>7. QED
  BY <1>3, <1>4, <1>5, <1>6 DEF RingInv

LEMMA RingStarts ==
    ASSUME KernelRings, RingInit
    PROVE  RingInv
<1>r. /\ ring \in Rings /\ ring.stages \in Nat \ {0} /\ ring.tiles \in Nat
      /\ ring.kind \in {"async", "kv", "double", "single"}
      /\ ring.kind \in {"async", "kv"} => ring.stages >= 2
      /\ ring.kind = "double" => ring.stages = 2
      /\ ring.kind = "single" => ring.stages = 1
  BY RingIs DEF RingInit
<1>f. /\ ring.kind = "async" => Steps[1] = "wait"
      /\ ring.kind \in {"kv", "single"} => Steps[1] = "load"
  BY <1>r DEF Steps
<1>1. \A w \in Warps : /\ ring.kind = "async" => pc[w] = "wait"
                       /\ ring.kind = "double" => pc[w] = "sync"
                       /\ ring.kind \in {"kv", "single"} => pc[w] = "load"
                       /\ kt[w] = IF ring.kind = "double" THEN -1 ELSE 0
  BY <1>r, <1>f DEF RingInit
<1>2. \A w \in Warps : /\ Oldest(w) = IF ring.kind \in {"async", "double"} THEN -1 ELSE 0
                       /\ Issued(w) = IF ring.kind = "double" THEN 1 ELSE ring.stages - 1
                       /\ Landed(w) = 0 /\ Barriers(w) = IF ring.kind = "double" THEN -1 ELSE 0
  <2> TAKE w \in Warps
  <2>1. CASE ring.kind = "async"
    BY <1>r, <1>1, <2>1 DEF Oldest, Issued, Landed, Barriers, Loaded, AddIf
  <2>2. CASE ring.kind = "kv"
    BY <1>r, <1>1, <2>2 DEF Oldest, Issued, Landed, Barriers, Loaded, AddIf
  <2>3. CASE ring.kind = "double"
    BY <1>r, <1>1, <2>3 DEF Oldest, Issued, Landed, Barriers, Loaded, AddIf
  <2>4. CASE ring.kind = "single"
    <3>1. kt[w] = 0 /\ pc[w] = "load" /\ ring.stages = 1
      BY <1>r, <1>1, <2>4
    <3>2. QED
      BY <2>4, <3>1 DEF Oldest, Issued, Landed, Barriers, Loaded, AddIf
  <2>5. QED
    BY <1>r, <2>1, <2>2, <2>3, <2>4
<1>3. RingTypeOK
  <2>1. pc \in [Warps -> StepSet]
    <3>1. \A w \in Warps : pc[w] \in StepSet
      BY <1>r, <1>1 DEF StepSet
    <3>2. pc = [w \in Warps |-> pc[w]]
      BY DEF RingInit
    <3>3. QED
      BY <3>1, <3>2
  <2>2. kt \in [Warps -> Int] /\ slot \in [0..ring.stages - 1 -> [Warps -> Int]]
    BY DEF RingInit
  <2>3. \A w \in Warps : kt[w] >= IF ring.kind = "double" /\ pc[w] = "sync" THEN -1 ELSE 0
    <3> TAKE w \in Warps
    <3>1. ring.kind = "double" => kt[w] = -1 /\ pc[w] = "sync"
      BY <1>1
    <3>2. ring.kind # "double" => kt[w] = 0
      BY <1>1
    <3>3. QED
      BY <3>1, <3>2
  <2>4. flight \subseteq Warps \X (0..ring.tiles - 1)
    BY <1>r DEF RingInit, Prologue
  <2>5. QED
    BY <1>r, <2>1, <2>2, <2>3, <2>4 DEF RingTypeOK
<1>4. InStep
  BY <1>2 DEF InStep
<1>5. InFlight
  <2> SUFFICES ASSUME NEW w \in Warps, NEW t \in 0..(ring.tiles - 1), <<w, t>> \in flight
               PROVE  Asynchronous /\ Landed(w) <= t /\ t < Issued(w)
    BY DEF InFlight
  <2>1. Asynchronous /\ t \in 0..(ring.stages - 2)
    BY DEF RingInit, Prologue
  <2>2. QED
    BY <1>r, <1>2, <2>1 DEF Asynchronous
<1>6. Held
  <2> SUFFICES ASSUME NEW w \in Warps, NEW t \in 0..(ring.tiles - 1),
                      Oldest(w) <= t, t < Issued(w)
               PROVE  <<w, t>> \in flight \/ slot[SlotOf(t)][w] = t
    BY DEF Held
  <2>1. CASE Asynchronous
    <3>1. t \in Prologue
      BY <1>r, <1>2, <2>1 DEF Asynchronous, Prologue
    <3>2. QED
      BY <2>1, <3>1 DEF RingInit
  <2>2. CASE ring.kind = "double"
    <3>1. t = 0
      BY <1>r, <1>2, <2>2
    <3>2. SlotOf(0) = 0
      BY <1>r, <2>2 DEF SlotOf
    <3>3. slot[0][w] = 0
      BY <1>r, <2>2 DEF RingInit
    <3>4. QED
      BY <3>1, <3>2, <3>3
  <2>3. CASE ring.kind = "single"
    BY <1>r, <1>2, <2>3
  <2>4. QED
    BY <1>r, <2>1, <2>2, <2>3 DEF Asynchronous
<1>7. QED
  BY <1>3, <1>4, <1>5, <1>6 DEF RingInv

(* Whatever the number of warps, of stages and of tiles, a warp that       *)
(* multiplies a tile finds all of it in its slot for as long as it reads:  *)
(* cp.async.wait_group and the one or two __syncthreads of a round are     *)
(* enough, in each of the four schedules of the GEMM and attention kernels.*)
THEOREM RingReadsOwnTile == RingSpec => []ReadsOwnTile
<1> USE RingAssumption
<1>1. RingInit => RingInv
  BY RingStarts
<1>2. RingInv /\ [RingNext]_ringVars => RingInv'
  <2> SUFFICES ASSUME RingInv, [RingNext]_ringVars PROVE RingInv'
    OBVIOUS
  <2>1. CASE Sync
    BY <2>1, SyncKeeps
  <2>2. CASE \E w \in Warps : Wait(w)
    BY <2>2, WaitKeeps
  <2>3. CASE \E w \in Warps : Load(w)
    BY <2>3, LoadKeeps
  <2>4. CASE \E w \in Warps : Land(w)
    BY <2>4, LandKeeps
  <2>5. CASE \E w \in Warps : Read(w)
    BY <2>5, ReadKeeps
  <2>6. CASE UNCHANGED ringVars
    BY <2>6 DEF ringVars, RingInv, RingTypeOK, StepSet, InStep, InFlight, Held, SlotOf,
                Barriers, Oldest, Issued, Landed, Loaded, Asynchronous
  <2>7. QED
    BY <2>1, <2>2, <2>3, <2>4, <2>5, <2>6 DEF RingNext
<1>3. RingInv => ReadsOwnTile
  BY Reads
<1>4. QED
  BY <1>1, <1>2, <1>3, PTL DEF RingSpec
-----------------------------------------------------------------------------
(* The microphone.                                                         *)

LEMMA SomeRead ==
    ASSUME NEW s \in Seq(Nat)
    PROVE  Len(s) \in Nat /\ (s # <<>> => Len(s) > 0)
  OBVIOUS

(* The counts are numbers, and so are the positions of a step.             *)
LEMMA MicCounts ==
    ASSUME MicRing, MicTypeOK, MicLeft
    PROVE  /\ Published \in Nat /\ Taken \in Nat /\ Cap \in Nat \ {0}
           /\ mic.head \in 0..(Cap - 1) /\ mic.tail \in 0..(Cap - 1)
           /\ mic.ring \in [0..Cap - 1 -> Nat]
           /\ mic.captured \in Nat /\ mic.overruns \in Nat /\ capture.left \in Nat
           /\ capture.nh \in 0..(Cap - 1) /\ capture.t \in 0..(Cap - 1) /\ caller.t \in 0..(Cap - 1)
           /\ caller.read \in Seq(Nat) /\ Len(caller.read) \in Nat
<1>1. /\ Cap \in Nat \ {0}
      /\ mic.head \in 0..(Cap - 1) /\ mic.tail \in 0..(Cap - 1)
      /\ mic.ring \in [0..Cap - 1 -> Nat]
      /\ mic.captured \in Nat /\ mic.overruns \in Nat /\ capture.left \in Nat
      /\ capture.nh \in 0..(Cap - 1) /\ capture.t \in 0..(Cap - 1) /\ caller.t \in 0..(Cap - 1)
      /\ caller.read \in Seq(Nat)
  BY DEF MicRing, MicTypeOK, MicRec, CaptureRec, CallerRec
<1>2. Published \in Nat
  <2>1. capture.left <= mic.captured
    BY DEF MicLeft
  <2>2. QED
    BY <1>1, <2>1, SMTT(30) DEF Published
<1>3. Len(caller.read) \in Nat /\ (caller.read # <<>> => Len(caller.read) > 0)
  BY <1>1, SomeRead
<1>4. Taken \in Nat
  BY <1>3 DEF MicLeft, Taken
<1>5. QED
  BY <1>1, <1>2, <1>3, <1>4

(* A step that touches neither the ring nor the counts.                    *)
LEMMA RingStays ==
    ASSUME MicInOrder,
           mic'.head = mic.head, mic'.tail = mic.tail, mic'.ring = mic.ring,
           mic'.overruns = mic.overruns, Published' = Published,
           caller'.read = caller.read, Taken' = Taken,
           capture'.pc \in {"store", "publish"} => capture'.pc = capture.pc /\ capture'.nh = capture.nh,
           caller'.pc \in {"head", "take", "advance"} => caller'.pc = caller.pc /\ caller'.t = caller.t,
           caller'.pc = "at end" => caller.pc = "at end"
    PROVE  MicInOrder'
  BY DEF MicInOrder

LEMMA SourceKeeps ==
    ASSUME MicRing, MicInv, Source
    PROVE  MicInv'
<1> USE DEF Source, Ends
<1>1. MicTypeOK'
  BY DEF MicInv, MicTypeOK, MicRec, CaptureRec, CallerRec
<1>2. MicLeft'
  BY DEF MicInv, MicTypeOK, MicRec, CaptureRec, CallerRec, MicLeft
<1>3. MicThreads'
  BY DEF MicInv, MicTypeOK, MicRec, CaptureRec, CallerRec, MicThreads
<1>4. MicInOrder'
  BY RingStays DEF MicInv, MicTypeOK, CaptureRec, Published, Taken
<1>5. QED
  BY <1>1, <1>3, <1>4, <1>2 DEF MicInv

LEMMA ChildEndsKeeps ==
    ASSUME MicRing, MicInv, ChildEnds
    PROVE  MicInv'
<1> USE DEF ChildEnds
<1>1. MicTypeOK'
  BY DEF MicInv, MicTypeOK, MicRec, CaptureRec, CallerRec
<1>2. MicLeft'
  BY DEF MicInv, MicTypeOK, MicRec, CaptureRec, CallerRec, MicLeft
<1>3. MicThreads'
  BY DEF MicInv, MicTypeOK, MicRec, CaptureRec, CallerRec, MicThreads
<1>4. MicInOrder'
  BY RingStays DEF MicInv, MicTypeOK, MicRec, Published, Taken
<1>5. QED
  BY <1>1, <1>3, <1>4, <1>2 DEF MicInv

LEMMA DropReadKeeps ==
    ASSUME MicRing, MicInv, DropRead
    PROVE  MicInv'
<1> USE DEF DropRead
<1>1. MicTypeOK'
  <2>1. mic.tail \in 0..(Cap - 1) /\ capture \in CaptureRec
    BY MicCounts DEF MicInv, MicTypeOK
  <2>2. capture' \in CaptureRec
    BY <2>1 DEF CaptureRec
  <2>3. QED
    BY <2>2 DEF MicInv, MicTypeOK
<1>2. MicLeft'
  BY DEF MicInv, MicTypeOK, MicRec, CaptureRec, CallerRec, MicLeft
<1>3. MicThreads'
  BY DEF MicInv, MicTypeOK, MicRec, CaptureRec, CallerRec, MicThreads
<1>4. MicInOrder'
  BY RingStays DEF MicInv, MicTypeOK, CaptureRec, Published, Taken
<1>5. QED
  BY <1>1, <1>3, <1>4, <1>2 DEF MicInv

LEMMA EofKeeps ==
    ASSUME MicRing, MicInv, Eof
    PROVE  MicInv'
<1> USE DEF Eof
<1>1. MicTypeOK'
  BY DEF MicInv, MicTypeOK, MicRec, CaptureRec, CallerRec
<1>2. MicLeft'
  BY DEF MicInv, MicTypeOK, MicRec, CaptureRec, CallerRec, MicLeft
<1>3. MicThreads'
  BY DEF MicInv, MicTypeOK, MicRec, CaptureRec, CallerRec, MicThreads
<1>4. MicInOrder'
  BY RingStays DEF MicInv, MicTypeOK, MicRec, CaptureRec, Published, Taken
<1>5. QED
  BY <1>1, <1>3, <1>4, <1>2 DEF MicInv

LEMMA EofAskedKeeps ==
    ASSUME MicRing, MicInv, vv_mic_eof
    PROVE  MicInv'
<1> USE DEF vv_mic_eof
<1>1. MicTypeOK'
  <2>1. PICK p \in {"empty", "read"} : caller' = [caller EXCEPT !.pc = p]
    OBVIOUS
  <2>2. caller' \in CallerRec
    BY <2>1 DEF MicInv, MicTypeOK, CallerRec
  <2>3. QED
    BY <2>2 DEF MicInv, MicTypeOK
<1>2. MicLeft'
  BY DEF MicInv, MicTypeOK, MicRec, CaptureRec, CallerRec, MicLeft
<1>3. MicThreads'
  BY DEF MicInv, MicTypeOK, MicRec, CaptureRec, CallerRec, MicThreads
<1>4. MicInOrder'
  BY RingStays DEF MicInv, MicTypeOK, CallerRec, Published, Taken
<1>5. QED
  BY <1>1, <1>3, <1>4, <1>2 DEF MicInv

LEMMA CloseKeeps ==
    ASSUME MicRing, MicInv, Close
    PROVE  MicInv'
<1> USE DEF Close, Terminated
<1>1. MicTypeOK'
  BY DEF MicInv, MicTypeOK, MicRec, CaptureRec, CallerRec
<1>2. MicLeft'
  BY DEF MicInv, MicTypeOK, MicRec, CaptureRec, CallerRec, MicLeft
<1>3. MicThreads'
  BY DEF MicInv, MicTypeOK, MicRec, CaptureRec, CallerRec, MicThreads
<1>4. MicInOrder'
  BY RingStays DEF MicInv, MicTypeOK, MicRec, CallerRec, Published, Taken
<1>5. QED
  BY <1>1, <1>3, <1>4, <1>2 DEF MicInv

LEMMA JoinKeeps ==
    ASSUME MicRing, MicInv, Join
    PROVE  MicInv'
<1> USE DEF Join
<1>1. MicTypeOK'
  BY ZenonT(40) DEF MicInv, MicTypeOK, MicRec, CaptureRec, CallerRec
<1>2. MicLeft'
  BY DEF MicInv, MicTypeOK, MicRec, CaptureRec, CallerRec, MicLeft
<1>3. MicThreads'
  BY DEF MicInv, MicTypeOK, MicRec, CaptureRec, CallerRec, MicThreads
<1>4. MicInOrder'
  BY RingStays DEF MicInv, MicTypeOK, MicRec, CallerRec, Published, Taken
<1>5. QED
  BY <1>1, <1>3, <1>4, <1>2 DEF MicInv

LEMMA DeliverKeeps ==
    ASSUME MicRing, MicInv, Deliver
    PROVE  MicInv'
<1>1. CASE \E n \in 1..MicChunk : mic.captured + n <= MicTotal /\ Writes(n)
  <2>1. PICK n \in 1..MicChunk : Writes(n)
    BY <1>1
  <2>2. /\ capture.pc = "source" /\ caller' = caller
        /\ capture' = [capture EXCEPT !.pc = "next", !.left = n]
        /\ mic' = [mic EXCEPT !.captured = mic.captured + n]
    BY <2>1 DEF Deliver, Writes
  <2>3. n \in Nat /\ mic.captured \in Nat /\ capture.left = 0
    BY <2>2, MicCounts DEF MicRing, MicInv, MicLeft
  <2>4. mic.captured + n \in Nat /\ n <= mic.captured + n
    BY <2>3
  <2>5. MicTypeOK' /\ mic'.captured = mic.captured + n /\ capture'.left = n /\ capture'.pc = "next"
    BY <2>2, <2>3, <2>4 DEF MicInv, MicTypeOK, MicRec, CaptureRec
  <2>6. /\ mic'.head = mic.head /\ mic'.tail = mic.tail /\ mic'.ring = mic.ring
        /\ mic'.overruns = mic.overruns /\ mic'.eof = mic.eof /\ mic'.held = mic.held
        /\ mic'.child = mic.child
    BY <2>2 DEF MicInv, MicTypeOK, MicRec
  <2>7. MicLeft'
    BY <2>2, <2>4, <2>5 DEF MicInv, MicLeft
  <2>8. MicThreads'
    BY <2>2, <2>5, <2>6 DEF MicInv, MicThreads
  <2>9. Published' = Published /\ Taken' = Taken
    BY <2>2, <2>3, <2>5 DEF Published, Taken
  <2>10. MicInOrder'
    BY <2>2, <2>5, <2>6, <2>9, RingStays DEF MicInv
  <2>11. QED
    BY <2>5, <2>7, <2>8, <2>10 DEF MicInv
<1>2. CASE Ends
  <2> USE DEF Deliver, Ends
  <2>1. MicTypeOK'
    <3>1. capture' \in CaptureRec
      BY <1>2 DEF MicInv, MicTypeOK, CaptureRec
    <3>2. QED
      BY <1>2, <3>1 DEF MicInv, MicTypeOK
  <2>2. MicLeft'
    BY <1>2 DEF MicInv, MicTypeOK, MicRec, CaptureRec, CallerRec, MicLeft
  <2>3. MicThreads'
    BY <1>2 DEF MicInv, MicTypeOK, MicRec, CaptureRec, CallerRec, MicThreads
  <2>4. MicInOrder'
    BY <1>2, RingStays DEF MicInv, MicTypeOK, CaptureRec, Published, Taken
  <2>5. QED
    BY <2>1, <2>3, <2>4, <2>2 DEF MicInv
<1>3. CASE capture' = [capture EXCEPT !.pc = "loop"] /\ UNCHANGED mic
  <2> USE DEF Deliver
  <2>1. MicTypeOK'
    <3>1. capture' \in CaptureRec
      BY <1>3 DEF MicInv, MicTypeOK, CaptureRec
    <3>2. QED
      BY <1>3, <3>1 DEF MicInv, MicTypeOK
  <2>2. MicLeft'
    BY <1>3 DEF MicInv, MicTypeOK, MicRec, CaptureRec, CallerRec, MicLeft
  <2>3. MicThreads'
    BY <1>3 DEF MicInv, MicTypeOK, MicRec, CaptureRec, CallerRec, MicThreads
  <2>4. MicInOrder'
    BY <1>3, RingStays DEF MicInv, MicTypeOK, CaptureRec, Published, Taken
  <2>5. QED
    BY <2>1, <2>3, <2>4, <2>2 DEF MicInv
<1>4. QED
  BY <1>1, <1>2, <1>3 DEF Deliver

LEMMA CompareKeeps ==
    ASSUME MicRing, MicInv, Compare
    PROVE  MicInv'
<1> DEFINE nh == (mic.head + 1) % Cap
<1>t. /\ MicTypeOK /\ MicLeft /\ MicThreads /\ MicInOrder
      /\ mic.head \in 0..(Cap - 1) /\ mic.tail \in 0..(Cap - 1) /\ capture.left \in Nat
      /\ Published \in Nat /\ Taken \in Nat /\ Cap \in Nat \ {0}
  BY MicCounts DEF MicInv
<1>0. mic' = mic /\ caller' = caller /\ capture.pc = "next"
  BY DEF Compare
<1>1. CASE capture.left = 0
  <2>0. capture' = [capture EXCEPT !.pc = "loop"]
    BY <1>1 DEF Compare
  <2>1. MicTypeOK' /\ capture'.left = 0 /\ capture'.pc = "loop"
    BY <1>t, <1>0, <1>1, <2>0 DEF MicTypeOK, CaptureRec
  <2>2. MicLeft'
    BY <1>t, <1>0, <1>1, <2>1 DEF MicLeft
  <2>3. MicThreads'
    BY <1>t, <1>0, <2>1 DEF MicThreads
  <2>4. MicInOrder'
    BY <1>t, <1>0, <1>1, <2>1, RingStays DEF Published, Taken
  <2>5. QED
    BY <2>1, <2>2, <2>3, <2>4 DEF MicInv
<1>2. CASE capture.left # 0
  <2>r. nh \in 0..(Cap - 1)
    BY <1>t, Stages
  <2> HIDE DEF nh
  <2>0. \/ nh = mic.tail /\ capture' = [capture EXCEPT !.nh = nh, !.pc = "full"]
        \/ nh # mic.tail /\ capture' = [capture EXCEPT !.nh = nh, !.pc = "store"]
    BY <1>2 DEF Compare, Full, nh
  <2>1. /\ capture' \in CaptureRec /\ capture'.left = capture.left /\ capture'.nh = nh
        /\ capture'.pc \in {"full", "store"} /\ (capture'.pc = "store" => nh # mic.tail)
    BY <1>t, <2>r, <2>0 DEF MicTypeOK, CaptureRec
  <2>2. MicTypeOK' /\ MicLeft'
    BY <1>t, <1>0, <1>2, <2>1 DEF MicTypeOK, MicLeft
  <2>3. MicThreads'
    BY <1>t, <1>0, <2>1 DEF MicThreads
  <2>p. Published' = Published /\ Taken' = Taken
    BY <1>0, <2>1 DEF Published, Taken
  <2>4. mic.overruns = 0 /\ capture'.pc = "store" => nh = (Published + 1) % Cap /\ Published + 1 < Taken + Cap
    <3> SUFFICES ASSUME mic.overruns = 0, capture'.pc = "store"
                 PROVE  nh = (Published + 1) % Cap /\ Published + 1 < Taken + Cap
      OBVIOUS
    <3>1. mic.head = Published % Cap /\ mic.tail = Taken % Cap /\ Taken <= Published /\ Published < Taken + Cap
      BY <1>t DEF MicInOrder
    <3>2. nh = (Published + 1) % Cap
      BY <1>t, <3>1, NextSlot, ZenonT(40) DEF nh
    <3>3. (Taken + Cap) % Cap = Taken % Cap
      BY <1>t, SameSlot
    <3>4. Published + 1 # Taken + Cap
      BY <2>1, <3>1, <3>2, <3>3
    <3>5. QED
      BY <1>t, <3>1, <3>2, <3>4
  <2>5. MicInOrder'
    BY <1>t, <1>0, <2>1, <2>p, <2>4 DEF MicInOrder
  <2>6. QED
    BY <2>2, <2>3, <2>5 DEF MicInv
<1>3. QED
  BY <1>1, <1>2

LEMMA DropWriteKeeps ==
    ASSUME MicRing, MicInv, DropWrite
    PROVE  MicInv'
<1> DEFINE nt == (capture.t + 1) % Cap
<1>t. /\ MicTypeOK /\ MicLeft /\ MicThreads
      /\ capture.t \in 0..(Cap - 1) /\ Cap \in Nat \ {0} /\ mic.overruns \in Nat
  BY MicCounts DEF MicInv
<1>r. nt \in 0..(Cap - 1) /\ mic.overruns + 1 \in Nat /\ mic.overruns + 1 # 0
  BY <1>t, Stages, SMTT(30)
<1> HIDE DEF nt
<1>0. /\ capture.pc = "drop" /\ caller' = caller
      /\ mic' = [mic EXCEPT !.tail = nt, !.overruns = mic.overruns + 1]
      /\ capture' = [capture EXCEPT !.pc = "store"]
  BY DEF DropWrite, nt
<1>1. mic' \in MicRec /\ mic'.captured = mic.captured /\ mic'.overruns # 0
  BY <1>t, <1>r, <1>0 DEF MicTypeOK, MicRec
<1>2. mic'.eof = mic.eof /\ mic'.held = mic.held /\ mic'.child = mic.child
  BY <1>t, <1>0 DEF MicTypeOK, MicRec
<1>3. capture' \in CaptureRec /\ capture'.left = capture.left /\ capture'.pc = "store"
  BY <1>t, <1>0 DEF MicTypeOK, CaptureRec
<1>4. MicTypeOK' /\ MicLeft'
  BY <1>t, <1>0, <1>1, <1>3 DEF MicTypeOK, MicLeft
<1>5. MicThreads'
  BY <1>t, <1>0, <1>2, <1>3 DEF MicThreads
<1>6. MicInOrder'
  BY <1>1 DEF MicInOrder
<1>7. QED
  BY <1>4, <1>5, <1>6 DEF MicInv

LEMMA StoreKeeps ==
    ASSUME MicRing, MicInv, Store
    PROVE  MicInv'
<1> DEFINE P == Published
           T == Taken
<1>t. /\ MicTypeOK /\ MicLeft /\ MicThreads /\ MicInOrder
      /\ mic.head \in 0..(Cap - 1) /\ mic.ring \in [0..Cap - 1 -> Nat]
      /\ P \in Nat /\ T \in Nat /\ Cap \in Nat \ {0}
  BY MicCounts DEF MicInv
<1>r. P + 1 \in Nat
  BY <1>t
<1>0. /\ capture.pc = "store" /\ caller' = caller
      /\ mic' = [mic EXCEPT !.ring = [mic.ring EXCEPT ![mic.head] = P + 1]]
      /\ capture' = [capture EXCEPT !.pc = "publish"]
  BY <1>t DEF Store, Stored, Sample, Published, MicTypeOK, MicRec
<1> HIDE DEF P, T
<1>1. /\ mic' \in MicRec /\ mic'.ring = [mic.ring EXCEPT ![mic.head] = P + 1]
      /\ mic'.captured = mic.captured /\ mic'.overruns = mic.overruns
      /\ mic'.head = mic.head /\ mic'.tail = mic.tail
  BY <1>t, <1>r, <1>0 DEF MicTypeOK, MicRec
<1>2. mic'.eof = mic.eof /\ mic'.held = mic.held /\ mic'.child = mic.child
  BY <1>t, <1>0 DEF MicTypeOK, MicRec
<1>3. /\ capture' \in CaptureRec /\ capture'.left = capture.left /\ capture'.pc = "publish"
      /\ capture'.nh = capture.nh
  BY <1>t, <1>0 DEF MicTypeOK, CaptureRec
<1>4. MicTypeOK' /\ MicLeft'
  BY <1>t, <1>0, <1>1, <1>3 DEF MicTypeOK, MicLeft
<1>5. MicThreads'
  BY <1>t, <1>0, <1>2, <1>3 DEF MicThreads
<1>p. Published' = P /\ Taken' = T /\ Published = P /\ Taken = T
  BY <1>0, <1>1, <1>3 DEF Published, Taken, P, T
<1>6. MicInOrder'
  <2> SUFFICES ASSUME mic.overruns = 0
               PROVE  MicInOrder'
    BY <1>1 DEF MicInOrder
  <2>1. /\ mic.head = P % Cap /\ mic.tail = T % Cap /\ T <= P /\ P < T + Cap
        /\ capture.nh = (P + 1) % Cap /\ P + 1 < T + Cap
        /\ \A i \in T..P - 1 : mic.ring[i % Cap] = i + 1
    BY <1>t, <1>0, <1>p DEF MicInOrder
  <2>2. mic'.ring[mic.head] = P + 1
    BY <1>t, <1>1
  <2>3. \A i \in T..P - 1 : mic'.ring[i % Cap] = i + 1
    <3> TAKE i \in T..P - 1
    <3>1. i \in Nat /\ i # P /\ i < P + Cap /\ P < i + Cap
      BY <1>t, <2>1
    <3>2. i % Cap # P % Cap
      BY <1>t, <3>1, SlotsApart
    <3>3. i % Cap \in 0..(Cap - 1)
      BY <1>t, <3>1, Stages
    <3>4. mic'.ring[i % Cap] = mic.ring[i % Cap]
      BY <1>t, <1>1, <2>1, <3>2, <3>3
    <3>5. QED
      BY <2>1, <3>4
  <2>4. QED
    BY <1>t, <1>0, <1>1, <1>3, <1>p, <2>1, <2>2, <2>3 DEF MicInOrder
<1>7. QED
  BY <1>4, <1>5, <1>6 DEF MicInv

LEMMA PublishKeeps ==
    ASSUME MicRing, MicInv, Publish
    PROVE  MicInv'
<1> DEFINE P == Published
           T == Taken
<1>t. /\ MicTypeOK /\ MicLeft /\ MicThreads /\ MicInOrder
      /\ mic.head \in 0..(Cap - 1) /\ capture.nh \in 0..(Cap - 1)
      /\ mic.captured \in Nat /\ capture.left \in Nat
      /\ P \in Nat /\ T \in Nat /\ Cap \in Nat \ {0}
  BY MicCounts DEF MicInv
<1>0. /\ capture.pc = "publish" /\ caller' = caller
      /\ mic' = [mic EXCEPT !.head = capture.nh]
      /\ capture' = [capture EXCEPT !.pc = "next", !.left = capture.left - 1]
  BY DEF Publish
<1>r. capture.left > 0 /\ capture.left <= mic.captured
  BY <1>t, <1>0 DEF MicLeft
<1>l. capture.left - 1 \in Nat /\ capture.left - 1 <= mic.captured
  BY <1>t, <1>r
<1>1. /\ mic' \in MicRec /\ mic'.ring = mic.ring
      /\ mic'.captured = mic.captured /\ mic'.overruns = mic.overruns
      /\ mic'.head = capture.nh /\ mic'.tail = mic.tail
  BY <1>t, <1>0 DEF MicTypeOK, MicRec
<1>2. mic'.eof = mic.eof /\ mic'.held = mic.held /\ mic'.child = mic.child
  BY <1>t, <1>0 DEF MicTypeOK, MicRec
<1>3. capture' \in CaptureRec /\ capture'.left = capture.left - 1 /\ capture'.pc = "next"
  BY <1>t, <1>l, <1>0 DEF MicTypeOK, CaptureRec
<1>4. MicTypeOK' /\ MicLeft'
  BY <1>t, <1>l, <1>0, <1>1, <1>3 DEF MicTypeOK, MicLeft
<1>5. MicThreads'
  BY <1>t, <1>0, <1>2, <1>3 DEF MicThreads
<1>p. Published' = P + 1 /\ Taken' = T /\ Published = P /\ Taken = T
  BY <1>t, <1>0, <1>1, <1>3 DEF Published, Taken
<1> HIDE DEF P, T
<1>6. MicInOrder'
  <2> SUFFICES ASSUME mic.overruns = 0
               PROVE  MicInOrder'
    BY <1>1 DEF MicInOrder
  <2>1. /\ mic.head = P % Cap /\ mic.tail = T % Cap /\ T <= P
        /\ capture.nh = (P + 1) % Cap /\ P + 1 < T + Cap
        /\ mic.ring[mic.head] = P + 1
        /\ \A i \in T..P - 1 : mic.ring[i % Cap] = i + 1
    BY <1>t, <1>0, <1>p DEF MicInOrder
  <2>2. \A i \in T..(P + 1) - 1 : mic'.ring[i % Cap] = i + 1
    <3> TAKE i \in T..(P + 1) - 1
    <3>1. i = P \/ i \in T..P - 1
      BY <1>t
    <3>2. QED
      BY <1>1, <2>1, <3>1
  <2>3. T <= P + 1
    BY <1>t, <2>1
  <2>4. caller.pc \in {"take", "advance"} => T < P + 1
    BY <1>t, <2>1
  <2>5. caller.pc = "at end" => FALSE
    BY <1>t, <1>0 DEF MicThreads
  <2>6. QED
    BY <1>t, <1>0, <1>1, <1>3, <1>p, <2>1, <2>2, <2>3, <2>4, <2>5 DEF MicInOrder
<1>7. QED
  BY <1>4, <1>5, <1>6 DEF MicInv

LEMMA LoopReadKeeps ==
    ASSUME MicRing, MicInv, LoopRead
    PROVE  MicInv'
<1>t. MicTypeOK /\ MicLeft /\ MicThreads /\ MicInOrder /\ mic.tail \in 0..(Cap - 1)
  BY MicCounts DEF MicInv
<1>0. /\ caller.pc = "read" /\ mic' = mic /\ capture' = capture
      /\ caller' = [caller EXCEPT !.pc = "head", !.t = mic.tail]
  BY DEF LoopRead
<1>1. caller' \in CallerRec /\ caller'.pc = "head" /\ caller'.t = mic.tail /\ caller'.read = caller.read
  BY <1>t, <1>0 DEF MicTypeOK, CallerRec
<1>2. MicTypeOK' /\ MicLeft'
  BY <1>t, <1>0, <1>1 DEF MicTypeOK, MicLeft
<1>3. MicThreads'
  BY <1>t, <1>0, <1>1 DEF MicThreads
<1>4. Published' = Published /\ Taken' = Taken
  BY <1>0, <1>1 DEF Published, Taken
<1>5. MicInOrder'
  BY <1>t, <1>0, <1>1, <1>4 DEF MicInOrder
<1>6. QED
  BY <1>2, <1>3, <1>5 DEF MicInv

LEMMA LoopHeadKeeps ==
    ASSUME MicRing, MicInv, LoopHead
    PROVE  MicInv'
<1>t. /\ MicTypeOK /\ MicLeft /\ MicThreads /\ MicInOrder /\ mic.tail \in 0..(Cap - 1)
      /\ Published \in Nat /\ Taken \in Nat
  BY MicCounts DEF MicInv
<1>0. caller.pc = "head" /\ mic' = mic /\ capture' = capture
  BY DEF LoopHead
<1>1. /\ caller' \in CallerRec /\ caller'.pc \in {"take", "ask"} /\ caller'.read = caller.read
      /\ caller'.pc = "take" => caller.t # mic.head /\ caller'.t = mic.tail
  <2>1. CASE caller.t # mic.head /\ caller' = [caller EXCEPT !.pc = "take", !.t = mic.tail]
    BY <1>t, <2>1 DEF MicTypeOK, CallerRec
  <2>2. CASE caller' = [caller EXCEPT !.pc = "ask"]
    BY <1>t, <2>2 DEF MicTypeOK, CallerRec
  <2>3. QED
    BY <2>1, <2>2 DEF LoopHead
<1>2. MicTypeOK' /\ MicLeft'
  BY <1>t, <1>0, <1>1 DEF MicTypeOK, MicLeft
<1>3. MicThreads'
  BY <1>t, <1>0, <1>1 DEF MicThreads
<1>4. Published' = Published /\ Taken' = Taken
  BY <1>0, <1>1 DEF Published, Taken
<1>5. MicInOrder'
  <2>1. mic.overruns = 0 /\ caller'.pc = "take" => Taken < Published
    <3>1. mic.overruns = 0 => /\ caller.t = mic.tail /\ mic.head = Published % Cap
                              /\ mic.tail = Taken % Cap /\ Taken <= Published
      BY <1>t, <1>0 DEF MicInOrder
    <3>2. mic.overruns = 0 /\ caller'.pc = "take" => Published # Taken
      BY <1>1, <3>1
    <3>3. QED
      BY <1>t, <3>1, <3>2
  <2>2. QED
    BY <1>t, <1>0, <1>1, <1>4, <2>1 DEF MicInOrder
<1>6. QED
  BY <1>2, <1>3, <1>5 DEF MicInv

LEMMA Appended ==
    ASSUME NEW r \in Seq(Nat), NEW x \in Nat
    PROVE  Append(r, x) \in Seq(Nat) /\ Len(Append(r, x)) = Len(r) + 1 /\ Append(r, x) # <<>>
<1>1. Append(r, x) \in Seq(Nat) /\ Len(Append(r, x)) = Len(r) + 1 /\ Len(r) \in Nat
  OBVIOUS
<1>2. Len(Append(r, x)) # 0
  BY <1>1
<1>3. Len(<<>>) = 0
  OBVIOUS
<1>4. QED
  BY <1>1, <1>2, <1>3

LEMMA TakeKeeps ==
    ASSUME MicRing, MicInv, Take
    PROVE  MicInv'
<1> DEFINE P == Published
           T == Taken
           x == mic.ring[caller.t]
           r == caller.read
<1>t. /\ MicTypeOK /\ MicLeft /\ MicThreads /\ MicInOrder
      /\ mic.tail \in 0..(Cap - 1) /\ caller.t \in 0..(Cap - 1) /\ mic.ring \in [0..Cap - 1 -> Nat]
      /\ r \in Seq(Nat) /\ Len(r) \in Nat /\ P \in Nat /\ T \in Nat /\ Cap \in Nat \ {0}
  BY MicCounts DEF MicInv
<1>x. x \in Nat
  BY <1>t
<1>0. /\ caller.pc = "take" /\ mic' = mic /\ capture' = capture
      /\ caller' = [caller EXCEPT !.pc = "advance", !.read = Append(r, x), !.t = mic.tail]
  BY DEF Take
<1>a. Append(r, x) \in Seq(Nat) /\ Len(Append(r, x)) = Len(r) + 1 /\ Append(r, x) # <<>>
  <2> HIDE DEF r, x
  <2>1. QED
    BY <1>t, <1>x, Appended
<1>1. caller' \in CallerRec /\ caller'.pc = "advance" /\ caller'.t = mic.tail /\ caller'.read = Append(r, x)
  <2> HIDE DEF x, r
  <2>1. QED
    BY <1>t, <1>a, <1>0 DEF MicTypeOK, CallerRec
<1>2. MicTypeOK'
  BY <1>t, <1>0, <1>1 DEF MicTypeOK
<1>l. MicLeft'
  <2> HIDE DEF x, r
  <2>1. QED
    BY <1>t, <1>a, <1>0, <1>1 DEF MicLeft
<1>3. MicThreads'
  BY <1>t, <1>0, <1>1 DEF MicThreads
<1>4. Published' = P /\ Taken' = T /\ Published = P /\ Taken = T /\ T = Len(r)
  BY <1>t, <1>a, <1>0, <1>1 DEF Published, Taken
<1>5. MicInOrder'
  <2> SUFFICES ASSUME mic.overruns = 0
               PROVE  MicInOrder'
    BY <1>0 DEF MicInOrder
  <2>1. /\ caller.t = T % Cap /\ T < P /\ \A i \in T..P - 1 : mic.ring[i % Cap] = i + 1
        /\ \A i \in 1..Len(r) : r[i] = i
    BY <1>t, <1>0 DEF MicInOrder
  <2>2. x = Len(r) + 1
    <3>1. T \in T..P - 1
      BY <1>t, <2>1
    <3>2. QED
      BY <1>4, <2>1, <3>1
  <2>3. \A i \in 1..Len(Append(r, x)) : Append(r, x)[i] = i
    <3> HIDE DEF x, r
    <3> SUFFICES ASSUME NEW i \in 1..(Len(r) + 1) PROVE Append(r, x)[i] = i
      BY <1>a
    <3>1. CASE i = Len(r) + 1
      BY <1>t, <1>x, <2>2, <3>1
    <3>2. CASE i # Len(r) + 1
      <4>1. i \in 1..Len(r)
        BY <1>t, <3>2
      <4>2. QED
        BY <1>t, <1>x, <2>1, <4>1
    <3>3. QED
      BY <3>1, <3>2
  <2> HIDE DEF P, T, x, r
  <2>4. QED
    BY <1>t, <1>0, <1>1, <1>4, <2>1, <2>3 DEF MicInOrder
<1>6. QED
  BY <1>2, <1>l, <1>3, <1>5 DEF MicInv

LEMMA AdvanceKeeps ==
    ASSUME MicRing, MicInv, Advance
    PROVE  MicInv'
<1> DEFINE P == Published
           T == Taken
           nt == (caller.t + 1) % Cap
<1>t. /\ MicTypeOK /\ MicLeft /\ MicThreads /\ MicInOrder
      /\ caller.t \in 0..(Cap - 1) /\ Len(caller.read) \in Nat
      /\ P \in Nat /\ T \in Nat /\ Cap \in Nat \ {0}
  BY MicCounts DEF MicInv
<1>n. nt \in 0..(Cap - 1)
  <2>1. caller.t + 1 \in Nat
    BY <1>t
  <2>2. QED
    BY <1>t, <2>1, Stages
<1>0. /\ caller.pc = "advance" /\ capture' = capture
      /\ mic' = [mic EXCEPT !.tail = nt]
      /\ caller' = [caller EXCEPT !.pc = "read"]
  BY DEF Advance
<1> HIDE DEF nt
<1>1. /\ mic' \in MicRec /\ mic'.ring = mic.ring
      /\ mic'.captured = mic.captured /\ mic'.overruns = mic.overruns
      /\ mic'.head = mic.head /\ mic'.tail = nt
  BY <1>t, <1>n, <1>0 DEF MicTypeOK, MicRec
<1>2. mic'.eof = mic.eof /\ mic'.held = mic.held /\ mic'.child = mic.child
  BY <1>t, <1>0 DEF MicTypeOK, MicRec
<1>3. caller' \in CallerRec /\ caller'.pc = "read" /\ caller'.read = caller.read
  BY <1>t, <1>0 DEF MicTypeOK, CallerRec
<1>4. MicTypeOK' /\ MicLeft'
  BY <1>t, <1>0, <1>1, <1>3 DEF MicTypeOK, MicLeft
<1>5. MicThreads'
  BY <1>t, <1>0, <1>2, <1>3 DEF MicThreads
<1>p. Published' = P /\ Taken' = T + 1 /\ Published = P /\ Taken = T
  BY <1>t, <1>0, <1>1, <1>3 DEF Published, Taken
<1> HIDE DEF P, T
<1>6. MicInOrder'
  <2> SUFFICES ASSUME mic.overruns = 0
               PROVE  MicInOrder'
    BY <1>1 DEF MicInOrder
  <2>1. /\ mic.head = P % Cap /\ caller.t = T % Cap /\ T < P /\ P < T + Cap
        /\ capture.pc \in {"store", "publish"} => capture.nh = (P + 1) % Cap /\ P + 1 < T + Cap
        /\ \A i \in T..P - 1 : mic.ring[i % Cap] = i + 1
        /\ capture.pc = "publish" => mic.ring[mic.head] = P + 1
        /\ \A i \in 1..Len(caller.read) : caller.read[i] = i
    BY <1>t, <1>0, <1>p DEF MicInOrder
  <2>2. nt = (T + 1) % Cap
    <3>1. T \in Nat /\ Cap \in Nat \ {0}
      BY <1>t, MicAssumption
    <3>2. ((T % Cap) + 1) % Cap = (T + 1) % Cap
      BY <3>1, NextSlot
    <3>3. QED
      BY <2>1, <3>2 DEF nt
  <2>3. T + 1 <= P /\ P < T + 1 + Cap /\ (P + 1 < T + Cap => P + 1 < T + 1 + Cap)
    BY <1>t, <2>1
  <2>4. \A i \in (T + 1)..P - 1 : mic.ring[i % Cap] = i + 1
    <3> TAKE i \in (T + 1)..P - 1
    <3>1. i \in T..P - 1
      BY <1>t
    <3>2. QED
      BY <2>1, <3>1
  <2>5. QED
    BY <1>t, <1>0, <1>1, <1>3, <1>p, <2>1, <2>2, <2>3, <2>4 DEF MicInOrder
<1>7. QED
  BY <1>4, <1>5, <1>6 DEF MicInv

LEMMA EofEmptyKeeps ==
    ASSUME MicRing, MicInv, vv_mic_eof_empty
    PROVE  MicInv'
<1>t. /\ MicTypeOK /\ MicLeft /\ MicThreads /\ MicInOrder
      /\ Published \in Nat /\ Taken \in Nat /\ Cap \in Nat \ {0}
  BY MicCounts DEF MicInv
<1>0. caller.pc = "empty" /\ mic' = mic /\ capture' = capture
  BY DEF vv_mic_eof_empty
<1>1. /\ caller' \in CallerRec /\ caller'.pc \in {"at end", "read"} /\ caller'.read = caller.read
      /\ caller'.pc = "at end" => mic.tail = mic.head
  <2>1. PICK p \in {"at end", "read"} : /\ caller' = [caller EXCEPT !.pc = p]
                                        /\ p = "at end" => mic.tail = mic.head
    BY DEF vv_mic_eof_empty
  <2>2. QED
    BY <1>t, <2>1 DEF MicTypeOK, CallerRec
<1>2. MicTypeOK' /\ MicLeft'
  BY <1>t, <1>0, <1>1 DEF MicTypeOK, MicLeft
<1>3. MicThreads'
  BY <1>t, <1>0, <1>1 DEF MicThreads
<1>4. Published' = Published /\ Taken' = Taken
  BY <1>0, <1>1 DEF Published, Taken
<1>5. MicInOrder'
  <2>1. mic.overruns = 0 /\ caller'.pc = "at end" => Taken = Published
    <3> SUFFICES ASSUME mic.overruns = 0, caller'.pc = "at end" PROVE Taken = Published
      OBVIOUS
    <3>1. /\ mic.head = Published % Cap /\ mic.tail = Taken % Cap
          /\ Taken <= Published /\ Published < Taken + Cap
      BY <1>t DEF MicInOrder
    <3>2. Published % Cap = Taken % Cap
      BY <1>1, <3>1
    <3>3. QED
      BY <1>t, <3>1, <3>2, LaterSlot
  <2>2. QED
    BY <1>t, <1>0, <1>1, <1>4, <2>1 DEF MicInOrder
<1>6. QED
  BY <1>2, <1>3, <1>5 DEF MicInv

(* A capture that starts: nothing captured, nothing read.                  *)
LEMMA StartedKeeps ==
    ASSUME MicRing, MicInv, caller.pc = "closed", NEW m \in MicRec, Started(m),
           m.head = 0, m.tail = 0, m.overruns = 0, m.captured = 0, ~m.eof, m.held,
           m.child \in {"none", "records"}
    PROVE  MicInv'
<1>t. /\ MicTypeOK /\ MicLeft /\ MicThreads /\ Cap \in Nat \ {0}
  BY MicCounts DEF MicInv
<1>0. capture.pc = "none" /\ capture.left = 0 /\ caller.read = <<>>
  <2>1. capture.pc = "none"
    BY <1>t DEF MicThreads
  <2>2. QED
    BY <1>t, <2>1 DEF MicLeft
<1>1. mic' = m
  BY DEF Started
<1>2. capture' \in CaptureRec /\ capture'.pc = "start" /\ capture'.left = 0
  BY <1>t, <1>0 DEF MicTypeOK, CaptureRec, Started
<1>3. caller' \in CallerRec /\ caller'.pc = "read" /\ caller'.read = <<>>
  BY <1>t, <1>0 DEF MicTypeOK, CallerRec, Started
<1>4. MicTypeOK' /\ MicLeft'
  BY <1>1, <1>2, <1>3 DEF MicTypeOK, MicLeft
<1>5. MicThreads'
  BY <1>1, <1>2, <1>3 DEF MicThreads
<1>6. Published' = 0 /\ Taken' = 0 /\ Len(<<>>) = 0 /\ 0 % Cap = 0
  BY <1>t, <1>1, <1>2, <1>3 DEF Published, Taken
<1>7. MicInOrder'
  BY <1>t, <1>1, <1>2, <1>3, <1>6 DEF MicInOrder
<1>8. QED
  BY <1>4, <1>5, <1>7 DEF MicInv

LEMMA FreshIs ==
    ASSUME MicRing
    PROVE  /\ Fresh \in MicRec /\ Fresh.head = 0 /\ Fresh.tail = 0
           /\ Fresh.overruns = 0 /\ Fresh.captured = 0
           /\ ~Fresh.eof /\ Fresh.held /\ Fresh.child = "none"
<1>1. 0 \in 0..Cap - 1 /\ [i \in 0..Cap - 1 |-> 0] \in [0..Cap - 1 -> Nat] /\ 0 \in Nat
  BY DEF MicRing
<1>2. TRUE \in BOOLEAN /\ FALSE \in BOOLEAN
  OBVIOUS
<1>3. /\ "none" \in {"none", "alsa", "pipe", "file"}
      /\ "none" \in {"none", "records", "ended", "reaped"} /\ "none" \in {"none", "open", "closed", "closed twice"}
  OBVIOUS
<1>4. Fresh \in MicRec
  BY <1>1, <1>2, <1>3, Zenon DEF Fresh, MicRec
<1>5. QED
  BY <1>4 DEF Fresh

LEMMA OpenKeeps ==
    ASSUME MicRing, MicInv, Open
    PROVE  MicInv'
<1>t. /\ MicTypeOK /\ MicLeft /\ MicThreads /\ MicInOrder /\ caller.pc = "closed"
  BY DEF MicInv, Open
<1>2. CASE caller' = [caller EXCEPT !.pc = "refused"] /\ UNCHANGED <<mic, capture>>
  <2>1. caller' \in CallerRec /\ caller'.pc = "refused" /\ caller'.read = caller.read
    BY <1>t, <1>2 DEF MicTypeOK, CallerRec
  <2>2. MicTypeOK' /\ MicLeft'
    BY <1>t, <1>2, <2>1 DEF MicTypeOK, MicLeft
  <2>3. MicThreads'
    BY <1>t, <1>2, <2>1 DEF MicThreads
  <2>4. MicInOrder'
    BY <1>t, <1>2, <2>1, RingStays DEF Published, Taken
  <2>5. QED
    BY <2>2, <2>3, <2>4 DEF MicInv
<1>3. CASE Started([Fresh EXCEPT !.kind = "alsa", !.handle = "open"])
  <2> DEFINE m == [Fresh EXCEPT !.kind = "alsa", !.handle = "open"]
  <2>1. m \in MicRec /\ m.head = 0 /\ m.tail = 0 /\ m.overruns = 0 /\ m.captured = 0
    BY FreshIs DEF MicRec
  <2>2. ~m.eof /\ m.held /\ m.child \in {"none", "records"}
    BY FreshIs DEF MicRec
  <2>3. Started(m)
    BY <1>3
  <2> HIDE DEF m
  <2>4. QED
    BY <1>t, <2>1, <2>2, <2>3, StartedKeeps
<1>4. CASE \E h \in {"none", "closed"} : Started([Fresh EXCEPT !.kind = "pipe", !.child = "records", !.handle = h])
  <2>0. PICK h \in {"none", "closed"} : Started([Fresh EXCEPT !.kind = "pipe", !.child = "records", !.handle = h])
    BY <1>4
  <2> DEFINE m == [Fresh EXCEPT !.kind = "pipe", !.child = "records", !.handle = h]
  <2>1. m \in MicRec /\ m.head = 0 /\ m.tail = 0 /\ m.overruns = 0 /\ m.captured = 0
    BY FreshIs DEF MicRec
  <2>2. ~m.eof /\ m.held /\ m.child \in {"none", "records"}
    BY FreshIs DEF MicRec
  <2>3. Started(m)
    BY <2>0
  <2> HIDE DEF m
  <2>4. QED
    BY <1>t, <2>1, <2>2, <2>3, StartedKeeps
<1>5. CASE Started([Fresh EXCEPT !.kind = "file"])
  <2> DEFINE m == [Fresh EXCEPT !.kind = "file"]
  <2>1. m \in MicRec /\ m.head = 0 /\ m.tail = 0 /\ m.overruns = 0 /\ m.captured = 0
    BY FreshIs DEF MicRec
  <2>2. ~m.eof /\ m.held /\ m.child \in {"none", "records"}
    BY FreshIs DEF MicRec
  <2>3. Started(m)
    BY <1>5
  <2> HIDE DEF m
  <2>4. QED
    BY <1>t, <2>1, <2>2, <2>3, StartedKeeps
<1>6. QED
  BY <1>2, <1>3, <1>4, <1>5 DEF Open

LEMMA MicStarts ==
    ASSUME MicRing, MicInit
    PROVE  MicInv
<1>1. mic = [Fresh EXCEPT !.held = FALSE]
  BY DEF MicInit
<1>2. mic \in MicRec /\ mic.head = 0 /\ mic.tail = 0 /\ mic.captured = 0 /\ mic.overruns = 0
  <2>1. mic \in MicRec
    BY <1>1, FreshIs, Zenon DEF MicRec
  <2>2. QED
    BY <1>1, <2>1, FreshIs DEF MicRec
<1>3. ~mic.eof
  BY <1>1, FreshIs DEF MicRec
<1>4. /\ Cap \in Nat \ {0} /\ capture = [pc |-> "none", left |-> 0, nh |-> 0, t |-> 0]
      /\ caller = [pc |-> "closed", t |-> 0, read |-> <<>>]
  BY DEF MicInit, MicRing
<1>5. MicTypeOK /\ MicLeft
  BY <1>2, <1>4 DEF MicTypeOK, MicLeft, CaptureRec, CallerRec
<1>6. MicThreads
  BY <1>3, <1>4 DEF MicThreads
<1>7. Published = 0 /\ Taken = 0 /\ Len(<<>>) = 0 /\ 0 % Cap = 0
  BY <1>2, <1>4 DEF Published, Taken
<1>8. MicInOrder
  BY <1>2, <1>4, <1>7 DEF MicInOrder
<1>9. QED
  BY <1>5, <1>6, <1>8 DEF MicInv

LEMMA MicReads == MicRing /\ MicInv => MicLossless
<1> SUFFICES ASSUME MicRing, MicInv PROVE MicLossless
  OBVIOUS
<1>t. MicLeft /\ MicThreads /\ MicInOrder /\ caller.read \in Seq(Nat) /\ mic.captured \in Nat
  BY MicCounts DEF MicInv
<1>1. ASSUME mic.overruns = 0
      PROVE  caller.read = [i \in 1..Len(caller.read) |-> i]
  <2>1. \A i \in 1..Len(caller.read) : caller.read[i] = i
    BY <1>t, <1>1 DEF MicInOrder
  <2>2. caller.read = [i \in 1..Len(caller.read) |-> caller.read[i]]
    BY <1>t
  <2>3. QED
    BY <2>1, <2>2
<1>2. ASSUME mic.overruns = 0, caller.pc = "at end"
      PROVE  Len(caller.read) = mic.captured
  <2>1. Taken = Published
    BY <1>t, <1>2 DEF MicInOrder
  <2>2. capture.pc = "ended"
    BY <1>t, <1>2 DEF MicThreads
  <2>3. capture.left = 0
    BY <1>t, <2>2 DEF MicLeft
  <2>4. Taken = Len(caller.read)
    BY <1>2 DEF Taken
  <2>5. Published = mic.captured
    BY <1>t, <2>3 DEF Published
  <2>6. QED
    BY <2>1, <2>4, <2>5
<1>3. /\ capture.pc \notin {"none", "ended"} => mic.held /\ mic.child # "reaped"
      /\ caller.pc = "join" /\ capture.pc = "source" => mic.child # "records"
  BY <1>t DEF MicThreads
<1>4. QED
  BY <1>1, <1>2, <1>3 DEF MicLossless

(* The microphone ring loses nothing that was not counted as an overrun,   *)
(* whatever its size and however the capture thread and the caller take    *)
(* turns.                                                                  *)
THEOREM MicNeverLoses == MicSpec => []MicLossless
<1> USE MicAssumption
<1>1. MicInit => MicInv
  BY MicStarts
<1>2. MicInv /\ [MicNext]_micVars => MicInv'
  <2> SUFFICES ASSUME MicInv, [MicNext]_micVars PROVE MicInv'
    OBVIOUS
  <2>1. CASE Open \/ Source \/ Deliver \/ ChildEnds
    BY <2>1, OpenKeeps, SourceKeeps, DeliverKeeps, ChildEndsKeeps
  <2>2. CASE Compare \/ DropRead \/ DropWrite \/ Store \/ Publish \/ Eof
    BY <2>2, CompareKeeps, DropReadKeeps, DropWriteKeeps, StoreKeeps, PublishKeeps, EofKeeps
  <2>3. CASE LoopRead \/ LoopHead \/ Take \/ Advance
    BY <2>3, LoopReadKeeps, LoopHeadKeeps, TakeKeeps, AdvanceKeeps
  <2>4. CASE vv_mic_eof \/ vv_mic_eof_empty \/ Close \/ Join
    BY <2>4, EofAskedKeeps, EofEmptyKeeps, CloseKeeps, JoinKeeps
  <2>5. CASE UNCHANGED micVars
    <3>1. MicTypeOK' /\ MicLeft'
      BY <2>5 DEF micVars, MicInv, MicTypeOK, MicLeft
    <3>2. MicThreads'
      BY <2>5 DEF micVars, MicInv, MicThreads
    <3>3. MicInOrder'
      BY <2>5 DEF micVars, MicInv, MicInOrder, Published, Taken
    <3>4. QED
      BY <3>1, <3>2, <3>3 DEF MicInv
  <2>6. QED
    BY <2>1, <2>2, <2>3, <2>4, <2>5 DEF MicNext
<1>3. MicInv => MicLossless
  BY MicReads
<1>4. QED
  BY <1>1, <1>2, <1>3, PTL DEF MicSpec
-----------------------------------------------------------------------------
(* The queues of the streams. Popped: the head is gone; Grown: something   *)
(* was issued.                                                             *)
Popped(q, r) ==
    /\ Len(q) \in Nat /\ Len(r) \in Nat /\ Len(q) = Len(r) + 1
    /\ \A i \in 1..Len(r) : r[i] = q[i + 1]
Grown(q, r) ==
    /\ Len(q) \in Nat /\ Len(r) \in Nat /\ Len(q) <= Len(r)
    /\ \A i \in 1..Len(q) : r[i] = q[i]
Stamped(q) ==
    /\ Len(q) \in Nat
    /\ \A i \in 1..Len(q) : q[i].t \in Nat /\ (q[i].k \in {"wait", "record"} => q[i].n \in Nat)

LEMMA WorkFields ==
    ASSUME NEW w \in Work
    PROVE  /\ w.t \in Nat /\ w.k \in {"copy", "run", "wait", "record"}
           /\ w.k \in {"copy", "run"} => w.slot \in Slots \cup {-1, Mixed} /\ w.l \in LayerIdx \cup {HalfCopied}
           /\ w.k \in {"wait", "record"} => w.e \in Events /\ w.n \in Nat
  BY DEF Work

LEMMA QueueStamped ==
    ASSUME NEW q \in Seq(Work)
    PROVE  Stamped(q) /\ \A i \in Idx(q) : q[i] \in Work
<1>1. Len(q) \in Nat /\ \A i \in 1..Len(q) : q[i] \in Work
  OBVIOUS
<1>2. QED
  BY <1>1, WorkFields DEF Stamped, Idx

LEMMA TailPopped ==
    ASSUME NEW q \in Seq(Work), q # << >>
    PROVE  Popped(q, Tail(q)) /\ Tail(q) \in Seq(Work) /\ Head(q) = q[1] /\ 1 \in Idx(q)
  BY DEF Popped, Idx

LEMMA JoinGrown ==
    ASSUME NEW q \in Seq(Work), NEW w \in Seq(Work)
    PROVE  /\ q \o w \in Seq(Work) /\ Grown(q, q \o w) /\ Len(q \o w) = Len(q) + Len(w)
           /\ \A i \in Idx(q \o w) : i > Len(q) => i - Len(q) \in Idx(w) /\ (q \o w)[i] = w[i - Len(q)]
  BY DEF Grown, Idx

-----------------------------------------------------------------------------
(* A stream goes on.                                                       *)

LEMMA PopOrder ==
    ASSUME NEW q, NEW r, Popped(q, r), Stamped(q), InOrder(q)
    PROVE  InOrder(r)
<1>1. \A i \in Idx(r) : i + 1 \in Idx(q) /\ r[i] = q[i + 1]
  BY DEF Popped, Idx
<1>2. \A i, j \in Idx(r) : i < j => i + 1 < j + 1
  BY DEF Popped, Idx
<1>3. QED
  BY <1>1, <1>2 DEF InOrder

LEMMA PopBefore ==
    ASSUME NEW q, NEW r, NEW n, Popped(q, r), IssuedBefore(q, n)
    PROVE  IssuedBefore(r, n)
  BY DEF Popped, IssuedBefore, Idx

PassedNow(w, e, f) == IF Records(w, e) THEN w.n ELSE f

LEMMA PopRecords ==
    ASSUME NEW q, NEW r, NEW e, NEW f \in Nat, NEW n \in Nat, Popped(q, r), Stamped(q),
           RecordsInOrder(q, e, f, n)
    PROVE  RecordsInOrder(r, e, PassedNow(q[1], e, f), n)
<1> DEFINE g == PassedNow(q[1], e, f)
<1>1. 1 \in Idx(q) /\ \A i \in Idx(r) : i + 1 \in Idx(q) /\ r[i] = q[i + 1] /\ 1 < i + 1
  BY DEF Popped, Idx
<1>2. \A i \in Idx(q) : Records(q[i], e) => q[i].n \in Nat /\ f < q[i].n /\ q[i].n <= n
  BY DEF Stamped, RecordsInOrder, Records, Idx
<1>3. \A i, j \in Idx(q) : i < j /\ Records(q[i], e) /\ Records(q[j], e) => q[i].n < q[j].n
  BY DEF RecordsInOrder
<1>4. g \in Nat /\ g <= n
  BY <1>1, <1>2 DEF PassedNow, RecordsInOrder
<1>5. \A i \in Idx(r) : Records(r[i], e) => g < r[i].n /\ r[i].n <= n
  BY <1>1, <1>2, <1>3 DEF PassedNow
<1>6. \A i, j \in Idx(r) : i < j /\ Records(r[i], e) /\ Records(r[j], e) => r[i].n < r[j].n
  <2>1. \A i, j \in Idx(r) : i < j => i + 1 < j + 1
    BY DEF Popped, Idx
  <2>2. QED
    BY <1>1, <1>3, <2>1
<1>7. ASSUME g < n PROVE \E i \in Idx(r) : Records(r[i], e) /\ r[i].n = n
  <2>1. f < n
    BY <1>1, <1>2, <1>7 DEF PassedNow
  <2>2. PICK i \in Idx(q) : Records(q[i], e) /\ q[i].n = n
    BY <2>1 DEF RecordsInOrder
  <2>3. i # 1
    BY <2>2, <1>7 DEF PassedNow
  <2>4. i - 1 \in Idx(r) /\ r[i - 1] = q[i]
    BY <2>3 DEF Popped, Idx
  <2>5. QED
    BY <2>2, <2>4
<1>8. QED
  BY <1>4, <1>5, <1>6, <1>7 DEF RecordsInOrder

LEMMA PopWaits ==
    ASSUME NEW q, NEW r, NEW p, NEW e, NEW f, Popped(q, r), WaitsMet(q, p, e, f)
    PROVE  WaitsMet(r, p, e, f)
  BY DEF Popped, WaitsMet, Idx

LEMMA PopMet ==
    ASSUME NEW q, NEW r, NEW p, NEW e, NEW f \in Nat, NEW n \in Nat, Popped(p, r), Stamped(q), Stamped(p),
           RecordsInOrder(p, e, f, n), WaitsMet(q, p, e, f)
    PROVE  WaitsMet(q, r, e, PassedNow(p[1], e, f))
<1> DEFINE g == PassedNow(p[1], e, f)
<1>1. 1 \in Idx(p)
  BY DEF Popped, Idx
<1>2. g \in Nat /\ f <= g
  BY <1>1 DEF PassedNow, RecordsInOrder, Stamped, Records, Idx
<1>3. SUFFICES ASSUME NEW i \in Idx(q), Waits(q[i], e), g < q[i].n
               PROVE  \E j \in Idx(r) : Records(r[j], e) /\ r[j].n = q[i].n /\ r[j].t < q[i].t
  BY DEF WaitsMet
<1>4. q[i].n \in Nat
  BY <1>3 DEF Stamped, Waits, Idx
<1>5. PICK j \in Idx(p) : Records(p[j], e) /\ p[j].n = q[i].n /\ p[j].t < q[i].t
  BY <1>2, <1>3, <1>4 DEF WaitsMet
<1>6. j # 1
  BY <1>3, <1>4, <1>5 DEF PassedNow
<1>7. j - 1 \in Idx(r) /\ r[j - 1] = p[j]
  BY <1>6 DEF Popped, Idx
<1>8. QED
  BY <1>5, <1>7

LEMMA PopNoEvents ==
    ASSUME NEW q, NEW r, NEW e, Popped(q, r)
    PROVE  /\ NoRecord(q, e) => NoRecord(r, e)
           /\ NoWait(q, e) => NoWait(r, e)
  BY DEF Popped, NoRecord, NoWait, Idx

LEMMA PopRecorder ==
    ASSUME NEW q, NEW p, NEW r, NEW i, NEW j \in Idx(r), NEW e, Popped(p, r), Behind(q, i, p, j + 1, e)
    PROVE  Behind(q, i, r, j, e)
<1>1. PICK a \in Idx(q), b \in Idx(p) :
           a < i /\ j + 1 < b /\ Waits(q[a], e) /\ Records(p[b], e) /\ p[b].n <= q[a].n
  BY DEF Behind
<1>2. b - 1 \in Idx(r) /\ r[b - 1] = p[b] /\ j < b - 1
  BY <1>1 DEF Popped, Idx
<1>3. QED
  BY <1>1, <1>2 DEF Behind

LEMMA PopWaiter ==
    ASSUME NEW q, NEW p, NEW r, NEW i \in Nat, NEW j, NEW e, NEW f \in Nat, NEW n,
           Popped(q, r), Stamped(q), Stamped(p), RecordsInOrder(p, e, f, n),
           Waits(q[1], e) => f >= q[1].n, Behind(q, i + 1, p, j, e)
    PROVE  Behind(r, i, p, j, e)
<1>1. PICK a \in Idx(q), b \in Idx(p) :
           a < i + 1 /\ j < b /\ Waits(q[a], e) /\ Records(p[b], e) /\ p[b].n <= q[a].n
  BY DEF Behind
<1>2. f < p[b].n /\ p[b].n \in Nat /\ q[a].n \in Nat
  BY <1>1 DEF RecordsInOrder, Stamped, Records, Waits, Idx
<1>3. a # 1
  BY <1>1, <1>2
<1>4. a - 1 \in Idx(r) /\ r[a - 1] = q[a] /\ a - 1 < i
  BY <1>1, <1>3 DEF Popped, Idx
<1>5. QED
  BY <1>1, <1>4 DEF Behind

LEMMA PopGuardedX ==
    ASSUME NEW c, NEW x, NEW r, NEW s, NEW f \in Nat, NEW n, Popped(x, r), Stamped(c), Stamped(x),
           RecordsInOrder(c, Done(s), f, n), Waits(x[1], Done(s)) => f >= x[1].n, Guarded(c, x, s)
    PROVE  Guarded(c, r, s)
<1> SUFFICES ASSUME NEW i \in Idx(c), NEW j \in Idx(r), Touches(c[i], s), Copies(r[j], s)
             PROVE  \/ r[j].t < c[i].t /\ Behind(c, i, r, j, Ready(s))
                    \/ c[i].t < r[j].t /\ Behind(r, j, c, i, Done(s))
  BY DEF Guarded
<1>1. j + 1 \in Idx(x) /\ r[j] = x[j + 1] /\ j \in Nat
  BY DEF Popped, Idx
<1>2. \/ r[j].t < c[i].t /\ Behind(c, i, x, j + 1, Ready(s))
      \/ c[i].t < r[j].t /\ Behind(x, j + 1, c, i, Done(s))
  BY <1>1 DEF Guarded
<1>3. Behind(c, i, x, j + 1, Ready(s)) => Behind(c, i, r, j, Ready(s))
  BY PopRecorder
<1>4. Behind(x, j + 1, c, i, Done(s)) => Behind(r, j, c, i, Done(s))
  BY <1>1, PopWaiter
<1>5. QED
  BY <1>2, <1>3, <1>4

LEMMA PopGuardedC ==
    ASSUME NEW c, NEW x, NEW r, NEW s, NEW f \in Nat, NEW n, Popped(c, r), Stamped(c), Stamped(x),
           RecordsInOrder(x, Ready(s), f, n), Waits(c[1], Ready(s)) => f >= c[1].n, Guarded(c, x, s)
    PROVE  Guarded(r, x, s)
<1> SUFFICES ASSUME NEW i \in Idx(r), NEW j \in Idx(x), Touches(r[i], s), Copies(x[j], s)
             PROVE  \/ x[j].t < r[i].t /\ Behind(r, i, x, j, Ready(s))
                    \/ r[i].t < x[j].t /\ Behind(x, j, r, i, Done(s))
  BY DEF Guarded
<1>1. i + 1 \in Idx(c) /\ r[i] = c[i + 1] /\ i \in Nat
  BY DEF Popped, Idx
<1>2. \/ x[j].t < r[i].t /\ Behind(c, i + 1, x, j, Ready(s))
      \/ r[i].t < x[j].t /\ Behind(x, j, c, i + 1, Done(s))
  BY <1>1 DEF Guarded
<1>3. Behind(x, j, c, i + 1, Done(s)) => Behind(x, j, r, i, Done(s))
  BY PopRecorder
<1>4. Behind(c, i + 1, x, j, Ready(s)) => Behind(r, i, x, j, Ready(s))
  BY <1>1, PopWaiter
<1>5. QED
  BY <1>2, <1>3, <1>4

LEMMA PopRecorded ==
    ASSUME NEW q, NEW r, NEW s, Popped(q, r)
    PROVE  /\ Recorded(q, s) => Recorded(r, s)
           /\ ReadersRecorded(q, s) => ReadersRecorded(r, s)
           /\ Untouched(q, s) => Untouched(r, s)
<1>1. \A i \in Idx(r) : i + 1 \in Idx(q) /\ r[i] = q[i + 1]
  BY DEF Popped, Idx
<1>2. \A i \in Idx(r), a \in Idx(q) : i + 1 < a => a - 1 \in Idx(r) /\ r[a - 1] = q[a] /\ i < a - 1
  BY DEF Popped, Idx
<1>3. ASSUME Recorded(q, s) PROVE Recorded(r, s)
  BY <1>1, <1>2, <1>3 DEF Recorded
<1>4. ASSUME ReadersRecorded(q, s) PROVE ReadersRecorded(r, s)
  BY <1>1, <1>2, <1>4 DEF ReadersRecorded
<1>5. Untouched(q, s) => Untouched(r, s)
  BY <1>1 DEF Untouched
<1>6. QED
  BY <1>3, <1>4, <1>5

LEMMA PopAwaitedX ==
    ASSUME NEW c, NEW x, NEW r, NEW s, Popped(x, r), Awaited(c, x, s)
    PROVE  Awaited(c, r, s)
<1>1. \A j \in Idx(r) : j + 1 \in Idx(x) /\ r[j] = x[j + 1]
  BY DEF Popped, Idx
<1>2. QED
  BY <1>1, PopRecorder DEF Awaited

LEMMA PopAwaitedC ==
    ASSUME NEW c, NEW x, NEW r, NEW s, NEW f \in Nat, NEW n, Popped(c, r), Stamped(c), Stamped(x),
           RecordsInOrder(x, Ready(s), f, n), Waits(c[1], Ready(s)) => f >= c[1].n, Awaited(c, x, s)
    PROVE  Awaited(r, x, s)
<1>1. Len(r) + 1 \in Nat /\ Len(c) + 1 = (Len(r) + 1) + 1
  BY DEF Popped
<1>2. SUFFICES ASSUME NEW j \in Idx(x), Copies(x[j], s) PROVE Behind(r, Len(r) + 1, x, j, Ready(s))
  BY DEF Awaited
<1>3. Behind(c, (Len(r) + 1) + 1, x, j, Ready(s))
  BY <1>1, <1>2 DEF Awaited
<1>4. QED
  BY <1>1, <1>3, PopWaiter

LEMMA HoldsEither ==
    ASSUME NEW q, NEW p, NEW m, NEW s, NEW l, NEW n
    PROVE  Holds(q, p, m, s, l, n) <=> Holds(p, q, m, s, l, n)
  BY DEF Holds

(* The head of q is through: m2 is what the slot holds then.               *)
LEMMA PopHolds ==
    ASSUME NEW q, NEW r, NEW p, NEW m, NEW m2, NEW s, NEW l, NEW n \in Nat,
           Popped(q, r), Stamped(q), Stamped(p), InOrder(q), Holds(q, p, m, s, l, n),
           m2 = IF Copies(q[1], s) THEN q[1].l ELSE m,
           Copies(q[1], s) => q[1].t < n /\ \A i \in Idx(p) : Copies(p[i], s) => q[1].t < p[i].t
    PROVE  Holds(r, p, m2, s, l, n)
<1>1. 1 \in Idx(q) /\ \A i \in Idx(r) : i + 1 \in Idx(q) /\ r[i] = q[i + 1] /\ 1 < i + 1
  BY DEF Popped, Idx
<1>2. \A i \in Idx(q) : i = 1 \/ (i - 1 \in Idx(r) /\ r[i - 1] = q[i])
  BY DEF Popped, Idx
<1>t. /\ \A i \in Idx(q) : q[i].t \in Nat
      /\ \A i \in Idx(p) : p[i].t \in Nat
  BY DEF Stamped, Idx
<1>3. \A k : /\ NoneBefore(q, s, k) => NoneBefore(r, s, k)
             /\ \A h : NoneSince(q, s, h, k) => NoneSince(r, s, h, k)
  BY <1>1 DEF NoneBefore, NoneSince
<1>4. CASE m = l /\ NoneBefore(q, s, n) /\ NoneBefore(p, s, n)
  <2>1. ~Copies(q[1], s)
    BY <1>1, <1>4, <1>t DEF NoneBefore
  <2>2. QED
    BY <1>3, <1>4, <2>1 DEF Holds
<1>5. CASE LastBefore(p, q, s, l, n)
  <2>1. LastBefore(p, r, s, l, n)
    BY <1>3, <1>5 DEF LastBefore
  <2>2. QED
    BY <2>1 DEF Holds
<1>6. CASE LastBefore(q, p, s, l, n)
  <2>1. PICK i \in Idx(q) : /\ Copies(q[i], s) /\ q[i].l = l /\ q[i].t < n
                            /\ NoneSince(q, s, q[i].t, n) /\ NoneSince(p, s, q[i].t, n)
    BY <1>6 DEF LastBefore
  <2>2. CASE i # 1
    <3>1. i - 1 \in Idx(r) /\ r[i - 1] = q[i]
      BY <1>2, <2>2
    <3>2. LastBefore(r, p, s, l, n)
      BY <2>1, <3>1, <1>3 DEF LastBefore
    <3>3. QED
      BY <3>2 DEF Holds
  <2>3. CASE i = 1
    <3>1. \A j \in Idx(r) : Copies(r[j], s) => r[j].t > q[1].t
      BY <1>1, <1>t, <2>1, <2>3 DEF InOrder, Copies
    <3>2. NoneBefore(r, s, n)
      BY <1>1, <1>3, <1>t, <2>1, <2>3, <3>1 DEF NoneBefore, NoneSince
    <3>3. NoneBefore(p, s, n)
      BY <1>t, <2>1, <2>3 DEF NoneBefore, NoneSince
    <3>4. QED
      BY <2>1, <2>3, <3>2, <3>3 DEF Holds
  <2>4. QED
    BY <2>2, <2>3
<1>7. QED
  BY <1>4, <1>5, <1>6 DEF Holds

LEMMA BeginHolds ==
    ASSUME NEW q, NEW p, NEW m, NEW m2, NEW s, NEW l, NEW n \in Nat, 1 \in Idx(q), Stamped(q),
           Holds(q, p, m, s, l, n), m2 # m => Copies(q[1], s) /\ q[1].t < n
    PROVE  Holds(q, p, m2, s, l, n)
<1>1. q[1].t \in Nat
  BY DEF Stamped, Idx
<1>2. m2 # m => ~NoneBefore(q, s, n)
  BY <1>1 DEF NoneBefore
<1>3. QED
  BY <1>2 DEF Holds
-----------------------------------------------------------------------------
HostRests == UNCHANGED <<pool, pass, at, layer, loaded, doneValid, ptr, issued, clock>>
Pops(t) ==
    /\ Popped(queue[t], queue'[t]) /\ queue' \in [Streams -> Seq(Work)] /\ HostRests
    /\ busy' \in [Streams -> BOOLEAN] /\ ~busy'[t]
    /\ \A u \in Streams : u # t => queue'[u] = queue[u] /\ busy'[u] = busy[u]
    /\ LET w == queue[t][1]
       IN  /\ w.k = "wait" => fired[w.e] >= w.n
           /\ fired' = IF w.k = "record" THEN [fired EXCEPT ![w.e] = w.n] ELSE fired
           /\ content' = IF w.k = "copy" THEN [content EXCEPT ![w.slot] = w.l] ELSE content

LEMMA DevicePops ==
    ASSUME LayerTypeOK, StreamsInOrder, NEW t \in Streams, WorkEnds(t) \/ EventStep(t)
    PROVE  Pops(t)
<1>1. queue[t] # << >> /\ queue[t] \in Seq(Work)
  BY DEF LayerTypeOK, StreamsInOrder, WorkEnds, EventStep
<1>2. Popped(queue[t], Tail(queue[t])) /\ Tail(queue[t]) \in Seq(Work) /\ Head(queue[t]) = queue[t][1]
  BY <1>1, TailPopped
<1>3. queue' = [queue EXCEPT ![t] = Tail(queue[t])]
  BY DEF WorkEnds, EventStep, Pop
<1>4. /\ queue'[t] = Tail(queue[t]) /\ queue' \in [Streams -> Seq(Work)]
      /\ \A u \in Streams : u # t => queue'[u] = queue[u]
  BY <1>2, <1>3 DEF LayerTypeOK
<1>5. HostRests
  BY DEF HostRests, WorkEnds, EventStep, hostVars
<1> DEFINE w == queue[t][1]
<1>6. CASE WorkEnds(t)
  <2>1. w.k \in {"copy", "run"}
    BY <1>2, <1>6 DEF StreamsInOrder, WorkEnds
  <2>2. busy' \in [Streams -> BOOLEAN] /\ ~busy'[t] /\ \A u \in Streams : u # t => busy'[u] = busy[u]
    BY <1>6, Zenon DEF LayerTypeOK, WorkEnds
  <2>3. fired' = fired /\ content' = IF w.k = "copy" THEN [content EXCEPT ![w.slot] = w.l] ELSE content
    BY <1>2, <1>6 DEF WorkEnds
  <2>4. QED
    BY <1>2, <1>4, <1>5, <2>1, <2>2, <2>3 DEF Pops
<1>7. CASE EventStep(t)
  <2>1. w.k \in {"record", "wait"} /\ (w.k = "wait" => fired[w.e] >= w.n)
    BY <1>2, <1>7 DEF EventStep
  <2>2. ~busy[t]
    BY <1>2, <2>1 DEF StreamsInOrder
  <2>3. busy' = busy
    BY <1>7 DEF EventStep
  <2>4. busy' \in [Streams -> BOOLEAN] /\ ~busy'[t] /\ \A u \in Streams : u # t => busy'[u] = busy[u]
    BY <2>2, <2>3, Zenon DEF LayerTypeOK
  <2>5. fired' = (IF w.k = "record" THEN [fired EXCEPT ![w.e] = w.n] ELSE fired) /\ content' = content
    BY <1>2, <1>7, <2>1 DEF EventStep
  <2>6. QED
    BY <1>2, <1>4, <1>5, <2>1, <2>4, <2>5 DEF Pops
<1>8. QED
  BY <1>6, <1>7

LEMMA Queues ==
    ASSUME LayerTypeOK, NEW t \in Streams
    PROVE  queue[t] \in Seq(Work) /\ Stamped(queue[t]) /\ \A i \in Idx(queue[t]) : queue[t][i] \in Work
  BY QueueStamped DEF LayerTypeOK

LEMMA PopHead ==
    ASSUME LayerTypeOK, NEW t \in Streams, Pops(t)
    PROVE  1 \in Idx(queue[t]) /\ queue[t][1] \in Work
<1>1. 1 \in Idx(queue[t])
  BY DEF Pops, Popped, Idx
<1>2. QED
  BY <1>1, Queues

LEMMA PopTypes ==
    ASSUME LayerTypeOK, NEW t \in Streams, Pops(t)
    PROVE  LayerTypeOK'
<1> DEFINE w == queue[t][1]
<1>1. /\ w.k \in {"copy", "run"} => w.slot \in Slots \cup {-1, Mixed} /\ w.l \in LayerIdx \cup {HalfCopied}
      /\ w.k \in {"wait", "record"} => w.e \in Events /\ w.n \in Nat
  BY PopHead, WorkFields
<1>2. fired' \in [Events -> Nat] /\ content' \in [Slots -> LayerIdx \cup {-1, HalfCopied}]
  BY <1>1 DEF LayerTypeOK, Pops
<1>3. HostRests
  BY DEF Pops
<1>4. queue' \in [Streams -> Seq(Work)] /\ busy' \in [Streams -> BOOLEAN]
  BY DEF Pops
<1>5. /\ pool' = pool /\ pass' = pass /\ at' = at /\ layer' = layer /\ loaded' = loaded
      /\ doneValid' = doneValid /\ ptr' = ptr /\ issued' = issued /\ clock' = clock
  BY <1>3 DEF HostRests
<1>6. QED
  BY <1>2, <1>4, <1>5 DEF LayerTypeOK, Pools

LEMMA PopPasses ==
    ASSUME LayerTypeOK, NEW t \in Streams, Pops(t), NEW e \in Events
    PROVE  /\ fired'[e] = PassedNow(queue[t][1], e, fired[e]) /\ fired[e] \in Nat /\ issued[e] \in Nat
           /\ Waits(queue[t][1], e) => fired[e] >= queue[t][1].n
  BY DEF Pops, LayerTypeOK, PassedNow, Records, Waits

LEMMA PopStreams ==
    ASSUME LayerTypeOK, StreamsInOrder, NEW t \in Streams, Pops(t)
    PROVE  StreamsInOrder'
<1>1. \A u \in Streams : InOrder(queue[u]) /\ IssuedBefore(queue[u], clock)
  BY DEF StreamsInOrder
<1>2. Popped(queue[t], queue'[t]) /\ Stamped(queue[t])
  BY Queues DEF Pops
<1>3. InOrder(queue'[t]) /\ IssuedBefore(queue'[t], clock)
  BY <1>1, <1>2, PopOrder, PopBefore
<1>4. \A u \in Streams : u # t => queue'[u] = queue[u] /\ busy'[u] = busy[u]
  BY DEF Pops
<1>5. \A u \in Streams : InOrder(queue'[u]) /\ IssuedBefore(queue'[u], clock)
  BY <1>1, <1>3, <1>4
<1>6. clock' = clock
  BY DEF Pops, HostRests
<1>7. \A i \in Idx(Xfer') : Xfer'[i].k # "run"
  <2>1. \A i \in Idx(Xfer) : Xfer[i].k # "run"
    BY DEF StreamsInOrder
  <2>2. CASE t = "xfer"
    BY <2>1, <2>2, <1>2 DEF Xfer, Popped, Idx
  <2>3. CASE t # "xfer"
    BY <2>1, <2>3, <1>4 DEF Xfer, Streams
  <2>4. QED
    BY <2>2, <2>3
<1>8. \A u \in Streams : busy'[u] => queue'[u] # << >> /\ Head(queue'[u]).k \in {"copy", "run"}
  <2>1. ~busy'[t]
    BY DEF Pops
  <2>2. \A u \in Streams : busy[u] => queue[u] # << >> /\ Head(queue[u]).k \in {"copy", "run"}
    BY DEF StreamsInOrder
  <2>3. QED
    BY <1>4, <2>1, <2>2
<1>9. QED
  BY <1>5, <1>6, <1>7, <1>8 DEF StreamsInOrder

LEMMA SlotEvents ==
    ASSUME NEW s \in Slots
    PROVE  Ready(s) \in Events /\ Done(s) \in Events
  BY DEF Ready, Done, Events

LEMMA PopEvents ==
    ASSUME LayerTypeOK, EventsInOrder, NEW t \in Streams, Pops(t)
    PROVE  EventsInOrder'
<1>1. Stamped(Xfer) /\ Stamped(Compute)
  BY Queues DEF Xfer, Compute, Streams
<1>2. issued' = issued
  BY DEF Pops, HostRests
<1>3. SUFFICES ASSUME NEW s \in Slots
               PROVE  /\ RecordsInOrder(Xfer', Ready(s), fired'[Ready(s)], issued[Ready(s)])
                      /\ RecordsInOrder(Compute', Done(s), fired'[Done(s)], issued[Done(s)])
                      /\ WaitsMet(Xfer', Compute', Done(s), fired'[Done(s)])
                      /\ WaitsMet(Compute', Xfer', Ready(s), fired'[Ready(s)])
                      /\ NoRecord(Xfer', Done(s)) /\ NoWait(Xfer', Ready(s))
                      /\ NoRecord(Compute', Ready(s)) /\ NoWait(Compute', Done(s))
  BY <1>2 DEF EventsInOrder
<1> DEFINE R == Ready(s)
           D == Done(s)
<1>4. R \in Events /\ D \in Events
  BY SlotEvents
<1>5. /\ RecordsInOrder(Xfer, R, fired[R], issued[R])
      /\ RecordsInOrder(Compute, D, fired[D], issued[D])
      /\ WaitsMet(Xfer, Compute, D, fired[D])
      /\ WaitsMet(Compute, Xfer, R, fired[R])
      /\ NoRecord(Xfer, D) /\ NoWait(Xfer, R)
      /\ NoRecord(Compute, R) /\ NoWait(Compute, D)
  BY DEF EventsInOrder
<1>6. /\ fired'[R] = PassedNow(queue[t][1], R, fired[R]) /\ fired[R] \in Nat /\ issued[R] \in Nat
      /\ fired'[D] = PassedNow(queue[t][1], D, fired[D]) /\ fired[D] \in Nat /\ issued[D] \in Nat
  BY <1>4, PopPasses
<1>7. CASE t = "xfer"
  <2>1. Popped(Xfer, Xfer') /\ Compute' = Compute
    BY <1>7 DEF Pops, Xfer, Compute, Streams
  <2>2. queue[t][1] = Xfer[1] /\ 1 \in Idx(Xfer)
    BY <1>7, PopHead DEF Xfer
  <2>3. fired'[D] = fired[D]
    BY <1>5, <1>6, <2>2 DEF PassedNow, NoRecord
  <2>4. RecordsInOrder(Xfer', R, fired'[R], issued[R])
    BY <1>1, <1>5, <1>6, <2>1, <2>2, PopRecords
  <2>5. WaitsMet(Xfer', Compute, D, fired[D])
    BY <1>5, <2>1, PopWaits
  <2>6. WaitsMet(Compute, Xfer', R, fired'[R])
    BY <1>1, <1>5, <1>6, <2>1, <2>2, PopMet
  <2>7. NoRecord(Xfer', D) /\ NoWait(Xfer', R)
    BY <1>5, <2>1, PopNoEvents
  <2>8. QED
    BY <1>5, <2>1, <2>3, <2>4, <2>5, <2>6, <2>7
<1>8. CASE t = "compute"
  <2>1. Popped(Compute, Compute') /\ Xfer' = Xfer
    BY <1>8 DEF Pops, Xfer, Compute, Streams
  <2>2. queue[t][1] = Compute[1] /\ 1 \in Idx(Compute)
    BY <1>8, PopHead DEF Compute
  <2>3. fired'[R] = fired[R]
    BY <1>5, <1>6, <2>2 DEF PassedNow, NoRecord
  <2>4. RecordsInOrder(Compute', D, fired'[D], issued[D])
    BY <1>1, <1>5, <1>6, <2>1, <2>2, PopRecords
  <2>5. WaitsMet(Compute', Xfer, R, fired[R])
    BY <1>5, <2>1, PopWaits
  <2>6. WaitsMet(Xfer, Compute', D, fired'[D])
    BY <1>1, <1>5, <1>6, <2>1, <2>2, PopMet
  <2>7. NoRecord(Compute', R) /\ NoWait(Compute', D)
    BY <1>5, <2>1, PopNoEvents
  <2>8. QED
    BY <1>5, <2>1, <2>3, <2>4, <2>5, <2>6, <2>7
<1>9. QED
  BY <1>7, <1>8 DEF Streams

LEMMA PopSlots ==
    ASSUME LayerTypeOK, EventsInOrder, SlotsGuarded, NEW t \in Streams, Pops(t)
    PROVE  SlotsGuarded'
<1>1. Stamped(Xfer) /\ Stamped(Compute)
  BY Queues DEF Xfer, Compute, Streams
<1>2. SUFFICES ASSUME NEW s \in Slots PROVE Guarded(Compute', Xfer', s)
  BY DEF SlotsGuarded
<1> DEFINE R == Ready(s)
           D == Done(s)
<1>3. /\ Guarded(Compute, Xfer, s)
      /\ RecordsInOrder(Xfer, R, fired[R], issued[R])
      /\ RecordsInOrder(Compute, D, fired[D], issued[D])
  BY DEF EventsInOrder, SlotsGuarded
<1>4. /\ fired[R] \in Nat /\ (Waits(queue[t][1], R) => fired[R] >= queue[t][1].n)
      /\ fired[D] \in Nat /\ (Waits(queue[t][1], D) => fired[D] >= queue[t][1].n)
  BY SlotEvents, PopPasses
<1>5. CASE t = "xfer"
  <2>1. Popped(Xfer, Xfer') /\ Compute' = Compute /\ queue[t][1] = Xfer[1]
    BY <1>5 DEF Pops, Xfer, Compute, Streams
  <2>2. QED
    BY <1>1, <1>3, <1>4, <2>1, PopGuardedX
<1>6. CASE t = "compute"
  <2>1. Popped(Compute, Compute') /\ Xfer' = Xfer /\ queue[t][1] = Compute[1]
    BY <1>6 DEF Pops, Xfer, Compute, Streams
  <2>2. QED
    BY <1>1, <1>3, <1>4, <2>1, PopGuardedC
<1>7. QED
  BY <1>5, <1>6 DEF Streams

LEMMA PopHost ==
    ASSUME PointersMatchSlots, RunsStaged, OneBuffer, HostRests
    PROVE  PointersMatchSlots' /\ RunsStaged' /\ OneBuffer'
<1>1. /\ pool' = pool /\ pass' = pass /\ at' = at /\ layer' = layer /\ loaded' = loaded
      /\ doneValid' = doneValid /\ ptr' = ptr
  BY DEF HostRests
<1>2. PointersMatchSlots'
  BY <1>1 DEF PointersMatchSlots, Streamed
<1>3. RunsStaged'
  BY <1>1 DEF RunsStaged, Streamed, pool_slot
<1>4. OneBuffer'
  BY <1>1 DEF OneBuffer, Streamed
<1>5. QED
  BY <1>2, <1>3, <1>4

LEMMA PopQueues ==
    ASSUME LayerTypeOK, EventsInOrder, CopiesRecorded, CopiesAwaited, DoneRecorded, NEW t \in Streams, Pops(t)
    PROVE  CopiesRecorded' /\ CopiesAwaited' /\ DoneRecorded'
<1>1. Stamped(Xfer) /\ Stamped(Compute)
  BY Queues DEF Xfer, Compute, Streams
<1>2. SUFFICES ASSUME NEW s \in Slots
               PROVE  /\ Recorded(Xfer', s)
                      /\ WaitComes(s)' \/ Awaited(Compute', Xfer', s)
                      /\ doneValid'[s] /\ ~InUse(s)' => ReadersRecorded(Compute', s)
  BY DEF CopiesRecorded, CopiesAwaited, DoneRecorded
<1>3. HostRests
  BY DEF Pops
<1>4. /\ pool' = pool /\ at' = at /\ layer' = layer /\ loaded' = loaded /\ doneValid' = doneValid
  BY <1>3 DEF HostRests
<1>5. (WaitComes(s)' <=> WaitComes(s)) /\ (InUse(s)' <=> InUse(s))
  BY <1>4 DEF WaitComes, InUse, pool_slot, Streamed
<1>6. /\ Recorded(Xfer, s)
      /\ WaitComes(s) \/ Awaited(Compute, Xfer, s)
      /\ doneValid[s] /\ ~InUse(s) => ReadersRecorded(Compute, s)
  BY DEF CopiesRecorded, CopiesAwaited, DoneRecorded
<1>7. RecordsInOrder(Xfer, Ready(s), fired[Ready(s)], issued[Ready(s)])
  BY DEF EventsInOrder
<1>8. fired[Ready(s)] \in Nat /\ (Waits(queue[t][1], Ready(s)) => fired[Ready(s)] >= queue[t][1].n)
  BY SlotEvents, PopPasses
<1>9. CASE t = "xfer"
  <2>1. Popped(Xfer, Xfer') /\ Compute' = Compute
    BY <1>9 DEF Pops, Xfer, Compute, Streams
  <2>2. Recorded(Xfer', s)
    BY <1>6, <2>1, PopRecorded
  <2>3. Awaited(Compute, Xfer, s) => Awaited(Compute, Xfer', s)
    BY <2>1, PopAwaitedX
  <2>4. QED
    BY <1>4, <1>5, <1>6, <2>1, <2>2, <2>3
<1>10. CASE t = "compute"
  <2>1. Popped(Compute, Compute') /\ Xfer' = Xfer /\ queue[t][1] = Compute[1]
    BY <1>10 DEF Pops, Xfer, Compute, Streams
  <2>2. ReadersRecorded(Compute, s) => ReadersRecorded(Compute', s)
    BY <2>1, PopRecorded
  <2>3. Awaited(Compute, Xfer, s) => Awaited(Compute', Xfer, s)
    BY <1>1, <1>7, <1>8, <2>1, PopAwaitedC
  <2>4. QED
    BY <1>4, <1>5, <1>6, <2>1, <2>2, <2>3
<1>11. QED
  BY <1>9, <1>10 DEF Streams
-----------------------------------------------------------------------------
(* What is at the head of a stream was issued before whatever the other    *)
(* stream has for the same slot: it is behind no wait.                     *)
LEMMA HeadsFirst ==
    ASSUME LayerTypeOK, SlotsGuarded, NEW s \in Slots
    PROVE  /\ 1 \in Idx(Xfer) /\ Copies(Xfer[1], s) =>
                  \A i \in Idx(Compute) : Touches(Compute[i], s) => Xfer[1].t < Compute[i].t
           /\ 1 \in Idx(Compute) /\ Touches(Compute[1], s) =>
                  \A j \in Idx(Xfer) : Copies(Xfer[j], s) => Compute[1].t < Xfer[j].t
<1>1. Guarded(Compute, Xfer, s)
  BY DEF SlotsGuarded
<1>2. \A i : ~Behind(Compute, 1, Xfer, i, Ready(s)) /\ ~Behind(Xfer, 1, Compute, i, Done(s))
  BY Queues DEF Behind, Idx, Xfer, Compute, Streams, Stamped
<1>3. QED
  BY <1>1, <1>2 DEF Guarded

LEMMA CopyTouches ==
    ASSUME NEW w, NEW s, Copies(w, s)
    PROVE  Touches(w, s)
  BY DEF Copies, Touches

(* A copy a stream is at, and a kernel of the same slot: the copy is older.*)
LEMMA CopyBeforeKernel ==
    ASSUME LayerTypeOK, StreamsInOrder, SlotsGuarded, NEW s \in Slots, NEW t \in Streams,
           1 \in Idx(queue[t]), Copies(queue[t][1], s),
           NEW i \in Idx(Compute), Compute[i].k = "run", Compute[i].slot = s
    PROVE  queue[t][1].t < Compute[i].t
<1>1. CASE t = "xfer"
  BY <1>1, HeadsFirst DEF Xfer, Touches
<1>2. CASE t = "compute"
  <2>1. i # 1
    BY <1>2 DEF Copies, Compute
  <2>2. 1 < i
    BY <2>1, Queues DEF Idx, Compute, Stamped, Streams
  <2>3. InOrder(Compute)
    BY DEF StreamsInOrder, Compute, Streams
  <2>4. QED
    BY <1>2, <2>2, <2>3 DEF InOrder, Copies, Compute
<1>3. QED
  BY <1>1, <1>2 DEF Streams

(* Work of the device keeps what a slot will hold.                         *)
LEMMA PopWillHold ==
    ASSUME LayerTypeOK, StreamsInOrder, SlotsGuarded, NEW t \in Streams, Pops(t),
           NEW s \in Slots, NEW l, NEW n \in Nat, WillHold(s, l, n),
           Copies(queue[t][1], s) => queue[t][1].t < n
    PROVE  Holds(Xfer', Compute', content'[s], s, l, n)
<1>1. Stamped(Xfer) /\ Stamped(Compute) /\ InOrder(Xfer) /\ InOrder(Compute)
  BY Queues DEF Xfer, Compute, Streams, StreamsInOrder
<1>2. 1 \in Idx(queue[t])
  BY PopHead
<1>3. Holds(Xfer, Compute, content[s], s, l, n)
  BY DEF WillHold
<1>4. content'[s] = IF Copies(queue[t][1], s) THEN queue[t][1].l ELSE content[s]
  BY DEF Pops, LayerTypeOK, Copies
<1>5. CASE t = "xfer"
  <2>1. Popped(Xfer, Xfer') /\ Compute' = Compute /\ queue[t] = Xfer
    BY <1>5 DEF Pops, Xfer, Compute, Streams
  <2>2. Copies(Xfer[1], s) => Xfer[1].t < n /\ \A i \in Idx(Compute) : Copies(Compute[i], s) => Xfer[1].t < Compute[i].t
    BY <1>2, <2>1, HeadsFirst, CopyTouches
  <2>3. Holds(Xfer', Compute, content'[s], s, l, n)
    BY <1>1, <1>3, <1>4, <2>1, <2>2, PopHolds
  <2>4. QED
    BY <2>1, <2>3
<1>6. CASE t = "compute"
  <2>1. Popped(Compute, Compute') /\ Xfer' = Xfer /\ queue[t] = Compute
    BY <1>6 DEF Pops, Xfer, Compute, Streams
  <2>2. Copies(Compute[1], s) => Compute[1].t < n /\ \A i \in Idx(Xfer) : Copies(Xfer[i], s) => Compute[1].t < Xfer[i].t
    BY <1>2, <2>1, HeadsFirst, CopyTouches
  <2>3. Holds(Compute, Xfer, content[s], s, l, n)
    BY <1>3, HoldsEither
  <2>4. Holds(Compute', Xfer, content'[s], s, l, n)
    BY <1>1, <1>4, <2>1, <2>2, <2>3, PopHolds
  <2>5. QED
    BY <2>1, <2>4, HoldsEither
<1>7. QED
  BY <1>5, <1>6 DEF Streams

LEMMA PopKernels ==
    ASSUME LayerTypeOK, StreamsInOrder, SlotsGuarded, KernelsFed, NEW t \in Streams, Pops(t)
    PROVE  KernelsFed'
<1>1. SUFFICES ASSUME NEW i \in Idx(Compute'), Compute'[i].k = "run", Streamed(Compute[i].l)'
               PROVE  Compute'[i].slot \in Slots /\ WillHold(Compute[i].slot, Compute[i].l, Compute[i].t)'
  BY DEF KernelsFed
<1>2. PICK j \in Idx(Compute) : Compute'[i] = Compute[j]
  <2>1. CASE t = "xfer"
    BY <2>1 DEF Pops, Compute, Streams
  <2>2. CASE t = "compute"
    <3>1. Popped(Compute, Compute')
      BY <2>2 DEF Pops, Compute
    <3>2. i + 1 \in Idx(Compute) /\ Compute'[i] = Compute[i + 1]
      BY <3>1 DEF Popped, Idx
    <3>3. QED
      BY <3>2
  <2>3. QED
    BY <2>1, <2>2 DEF Streams
<1> DEFINE w == Compute[j]
<1>3. pool' = pool
  BY DEF Pops, HostRests
<1>4. Streamed(w.l)
  BY <1>1, <1>2, <1>3 DEF Streamed
<1>5. w.slot \in Slots /\ WillHold(w.slot, w.l, w.t) /\ w.t \in Nat
  BY <1>1, <1>2, <1>4, Queues, WorkFields DEF KernelsFed, Compute, Streams
<1>6. 1 \in Idx(queue[t])
  BY PopHead
<1>7. Copies(queue[t][1], w.slot) => queue[t][1].t < w.t
  BY <1>1, <1>2, <1>5, <1>6, CopyBeforeKernel
<1>8. Holds(Xfer', Compute', content'[w.slot], w.slot, w.l, w.t)
  BY <1>5, <1>7, PopWillHold
<1>9. QED
  BY <1>2, <1>5, <1>8 DEF WillHold

LEMMA PopLoaded ==
    ASSUME LayerTypeOK, StreamsInOrder, SlotsGuarded, LoadedComes, NEW t \in Streams, Pops(t)
    PROVE  LoadedComes'
<1>1. HostRests
  BY DEF Pops
<1>2. /\ pool' = pool /\ loaded' = loaded /\ doneValid' = doneValid /\ ptr' = ptr /\ clock' = clock
  BY <1>1 DEF HostRests
<1>3. ASSUME NEW s \in Slots, loaded[s] = -1
      PROVE  ~doneValid[s] /\ Untouched(Xfer', s) /\ Untouched(Compute', s)
  <2>1. ~doneValid[s] /\ Untouched(Xfer, s) /\ Untouched(Compute, s)
    BY <1>3 DEF LoadedComes
  <2>2. CASE t = "xfer"
    <3>1. Popped(Xfer, Xfer') /\ Compute' = Compute
      BY <2>2 DEF Pops, Xfer, Compute, Streams
    <3>2. QED
      BY <2>1, <3>1, PopRecorded
  <2>3. CASE t = "compute"
    <3>1. Popped(Compute, Compute') /\ Xfer' = Xfer
      BY <2>3 DEF Pops, Xfer, Compute, Streams
    <3>2. QED
      BY <2>1, <3>1, PopRecorded
  <2>4. QED
    BY <2>2, <2>3 DEF Streams
<1>4. ASSUME NEW s \in Slots, loaded[s] # -1
      PROVE  /\ pool_slot(loaded[s]) = s /\ Streamed(loaded[s]) /\ ptr[loaded[s]] = s
             /\ Holds(Xfer', Compute', content'[s], s, loaded[s], clock)
  <2>1. /\ pool_slot(loaded[s]) = s /\ Streamed(loaded[s]) /\ ptr[loaded[s]] = s
        /\ WillHold(s, loaded[s], clock)
    BY <1>4 DEF LoadedComes
  <2>2. queue[t][1].t < clock /\ clock \in Nat
    BY PopHead DEF StreamsInOrder, IssuedBefore, LayerTypeOK
  <2>3. QED
    BY <2>1, <2>2, PopWillHold
<1>5. QED
  BY <1>2, <1>3, <1>4 DEF LoadedComes, WillHold, pool_slot, Streamed

LEMMA PopKeeps ==
    ASSUME LayersInv, NEW t \in Streams, Pops(t)
    PROVE  LayersInv'
<1>1. LayerTypeOK' /\ StreamsInOrder' /\ EventsInOrder' /\ SlotsGuarded'
  BY PopTypes, PopStreams, PopEvents, PopSlots DEF LayersInv
<1>2. KernelsFed' /\ LoadedComes'
  BY PopKernels, PopLoaded DEF LayersInv
<1>3. PointersMatchSlots' /\ RunsStaged' /\ OneBuffer'
  BY PopHost DEF LayersInv, Pops
<1>4. CopiesRecorded' /\ CopiesAwaited' /\ DoneRecorded'
  BY PopQueues DEF LayersInv
<1>5. QED
  BY <1>1, <1>2, <1>3, <1>4 DEF LayersInv

(* A copy or a kernel begins: queues and host rest.                        *)
BeginsAt(t) ==
    /\ queue' = queue /\ fired' = fired /\ HostRests /\ 1 \in Idx(queue[t])
    /\ queue[t][1].k \in {"copy", "run"}
    /\ busy' = [busy EXCEPT ![t] = TRUE]
    /\ content' = IF queue[t][1].k = "copy" THEN [content EXCEPT ![queue[t][1].slot] = HalfCopied]
                                            ELSE content

LEMMA DeviceBegins ==
    ASSUME LayerTypeOK, NEW t \in Streams, WorkBegins(t)
    PROVE  BeginsAt(t) /\ queue[t] # << >> /\ Head(queue[t]) = queue[t][1]
<1>1. queue[t] # << >> /\ queue[t] \in Seq(Work)
  BY DEF LayerTypeOK, WorkBegins
<1>2. Head(queue[t]) = queue[t][1] /\ 1 \in Idx(queue[t])
  BY <1>1, TailPopped
<1>3. QED
  BY <1>1, <1>2 DEF BeginsAt, WorkBegins, HostRests, hostVars

LEMMA BeginWillHold ==
    ASSUME LayerTypeOK, NEW t \in Streams, BeginsAt(t),
           NEW s \in Slots, NEW l, NEW n \in Nat, WillHold(s, l, n),
           Copies(queue[t][1], s) => queue[t][1].t < n
    PROVE  Holds(Xfer', Compute', content'[s], s, l, n)
<1>1. Stamped(Xfer) /\ Stamped(Compute)
  BY Queues DEF Xfer, Compute, Streams
<1>2. Xfer' = Xfer /\ Compute' = Compute /\ 1 \in Idx(queue[t])
  BY DEF BeginsAt, Xfer, Compute
<1>3. Holds(Xfer, Compute, content[s], s, l, n)
  BY DEF WillHold
<1>4. content'[s] # content[s] => Copies(queue[t][1], s)
  BY DEF BeginsAt, LayerTypeOK, Copies
<1>5. CASE t = "xfer"
  <2>1. Holds(Xfer, Compute, content'[s], s, l, n)
    BY <1>1, <1>2, <1>3, <1>4, <1>5, BeginHolds DEF Xfer
  <2>2. QED
    BY <1>2, <2>1
<1>6. CASE t = "compute"
  <2>1. Holds(Compute, Xfer, content[s], s, l, n)
    BY <1>3, HoldsEither
  <2>2. Holds(Compute, Xfer, content'[s], s, l, n)
    BY <1>1, <1>2, <1>4, <1>6, <2>1, BeginHolds DEF Compute
  <2>3. QED
    BY <1>2, <2>2, HoldsEither
<1>7. QED
  BY <1>5, <1>6 DEF Streams

LEMMA BeginOrdered ==
    ASSUME Ordered, NEW t \in Streams, WorkBegins(t)
    PROVE  Ordered'
<1>1. LayerTypeOK /\ StreamsInOrder /\ EventsInOrder
  BY DEF Ordered
<1>2. BeginsAt(t) /\ queue[t] # << >> /\ Head(queue[t]) = queue[t][1]
  BY <1>1, DeviceBegins
<1>3. /\ queue' = queue /\ fired' = fired /\ HostRests /\ 1 \in Idx(queue[t])
      /\ queue[t][1].k \in {"copy", "run"} /\ Xfer' = Xfer /\ Compute' = Compute
  BY <1>2 DEF BeginsAt, Xfer, Compute
<1>4. /\ pool' = pool /\ pass' = pass /\ at' = at /\ layer' = layer /\ loaded' = loaded
      /\ doneValid' = doneValid /\ ptr' = ptr /\ issued' = issued /\ clock' = clock
  BY <1>3 DEF HostRests
<1>5. LayerTypeOK'
  <2>1. content' \in [Slots -> LayerIdx \cup {-1, HalfCopied}]
    BY <1>1, <1>2 DEF BeginsAt, LayerTypeOK
  <2>2. busy' \in [Streams -> BOOLEAN]
    BY <1>1, <1>2, Zenon DEF BeginsAt, LayerTypeOK
  <2>3. QED
    BY <1>1, <1>3, <1>4, <2>1, <2>2 DEF LayerTypeOK, Pools
<1>6. StreamsInOrder'
  <2>1. \A u \in Streams : u # t => busy'[u] = busy[u]
    BY <1>1, <1>2, Zenon DEF BeginsAt, LayerTypeOK
  <2>2. \A u \in Streams : busy'[u] => queue[u] # << >> /\ Head(queue[u]).k \in {"copy", "run"}
    BY <1>1, <1>2, <1>3, <2>1 DEF StreamsInOrder
  <2>3. QED
    BY <1>1, <1>3, <1>4, <2>2 DEF StreamsInOrder
<1>7. EventsInOrder'
  BY <1>1, <1>3, <1>4 DEF EventsInOrder
<1>8. QED
  BY <1>5, <1>6, <1>7 DEF Ordered

LEMMA BeginKeeps ==
    ASSUME LayersInv, NEW t \in Streams, WorkBegins(t)
    PROVE  LayersInv'
<1>1. /\ LayerTypeOK /\ StreamsInOrder /\ EventsInOrder /\ SlotsGuarded /\ KernelsFed
      /\ LoadedComes /\ PointersMatchSlots /\ CopiesRecorded /\ CopiesAwaited /\ DoneRecorded
      /\ RunsStaged /\ OneBuffer
  BY DEF LayersInv
<1>2. BeginsAt(t) /\ queue[t] # << >> /\ Head(queue[t]) = queue[t][1]
  BY <1>1, DeviceBegins
<1>3. /\ queue' = queue /\ fired' = fired /\ HostRests /\ 1 \in Idx(queue[t])
      /\ queue[t][1].k \in {"copy", "run"} /\ Xfer' = Xfer /\ Compute' = Compute
  BY <1>2 DEF BeginsAt, Xfer, Compute
<1>4. /\ pool' = pool /\ pass' = pass /\ at' = at /\ layer' = layer /\ loaded' = loaded
      /\ doneValid' = doneValid /\ ptr' = ptr /\ issued' = issued /\ clock' = clock
  BY <1>3 DEF HostRests
<1>5. LayerTypeOK' /\ StreamsInOrder' /\ EventsInOrder'
  BY <1>1, BeginOrdered DEF Ordered
<1>8. SlotsGuarded' /\ CopiesRecorded'
  BY <1>1, <1>3 DEF SlotsGuarded, CopiesRecorded
<1>9. PointersMatchSlots' /\ RunsStaged' /\ OneBuffer'
  BY <1>1, <1>3, PopHost
<1>10. CopiesAwaited' /\ DoneRecorded'
  BY <1>1, <1>3, <1>4 DEF CopiesAwaited, DoneRecorded, WaitComes, InUse, pool_slot, Streamed
<1>11. KernelsFed'
  <2>1. SUFFICES ASSUME NEW i \in Idx(Compute), Compute[i].k = "run", Streamed(Compute[i].l)
                 PROVE  /\ Compute[i].slot \in Slots
                        /\ Holds(Xfer', Compute', content'[Compute[i].slot], Compute[i].slot, Compute[i].l, Compute[i].t)
    BY <1>3, <1>4 DEF KernelsFed, WillHold, Streamed
  <2> DEFINE w == Compute[i]
  <2>2. w.slot \in Slots /\ WillHold(w.slot, w.l, w.t) /\ w.t \in Nat
    BY <1>1, <2>1, Queues, WorkFields DEF KernelsFed, Compute, Streams
  <2>3. Copies(queue[t][1], w.slot) => queue[t][1].t < w.t
    BY <1>1, <1>3, <2>1, <2>2, CopyBeforeKernel
  <2>4. QED
    BY <1>1, <1>2, <2>2, <2>3, BeginWillHold
<1>12. LoadedComes'
  <2>1. ASSUME NEW s \in Slots, loaded[s] # -1
        PROVE  Holds(Xfer', Compute', content'[s], s, loaded[s], clock)
    <3>1. WillHold(s, loaded[s], clock)
      BY <1>1, <2>1 DEF LoadedComes
    <3>2. queue[t][1].t < clock /\ clock \in Nat
      BY <1>1, <1>3 DEF StreamsInOrder, IssuedBefore, LayerTypeOK
    <3>3. QED
      BY <1>1, <1>2, <3>1, <3>2, BeginWillHold
  <2>2. QED
    BY <1>1, <1>3, <1>4, <2>1 DEF LoadedComes, WillHold, pool_slot, Streamed
<1>13. QED
  BY <1>5, <1>8, <1>9, <1>10, <1>11, <1>12 DEF LayersInv

LEMMA DeviceKeeps ==
    ASSUME LayersInv, NEW t \in Streams, DeviceStep(t)
    PROVE  LayersInv'
<1>1. CASE WorkBegins(t)
  BY <1>1, BeginKeeps
<1>2. CASE WorkEnds(t) \/ EventStep(t)
  <2>1. Pops(t)
    BY <1>2, DevicePops DEF LayersInv
  <2>2. QED
    BY <2>1, PopKeeps
<1>3. QED
  BY <1>1, <1>2 DEF DeviceStep

-----------------------------------------------------------------------------
LEMMA LayersReadOwn ==
    ASSUME LayersInv
    PROVE  ReadsOwnLayer
<1>1. LayerTypeOK /\ StreamsInOrder /\ SlotsGuarded /\ KernelsFed
  BY DEF LayersInv
<1> DEFINE w == Compute[1]
<1>2. SUFFICES ASSUME busy["compute"], w.k = "run", Streamed(w.l), 1 \in Idx(Compute)
               PROVE  w.slot \in Slots /\ content[w.slot] = w.l
  <2>1. busy["compute"] => Head(Compute) = w /\ 1 \in Idx(Compute)
    BY <1>1, Queues, TailPopped DEF StreamsInOrder, Compute, Streams
  <2>2. QED
    BY <2>1 DEF ReadsOwnLayer, Compute
<1> DEFINE s == w.slot
<1>3. s \in Slots /\ Holds(Xfer, Compute, content[s], s, w.l, w.t)
  BY <1>1, <1>2 DEF KernelsFed, WillHold
<1>4. \A j \in Idx(Xfer) : Copies(Xfer[j], s) => w.t < Xfer[j].t
  BY <1>1, <1>2, <1>3, HeadsFirst DEF Touches
<1>t. /\ \A j \in Idx(Xfer) : Xfer[j].t \in Nat
      /\ \A j \in Idx(Compute) : Compute[j].t \in Nat
  BY <1>1, Queues DEF Stamped, Idx, Xfer, Compute, Streams
<1>5. \A i \in Idx(Compute) : w.t <= Compute[i].t
  <2>1. InOrder(Compute) /\ Len(Compute) \in Nat
    BY <1>1, Queues DEF StreamsInOrder, Compute, Streams, Stamped
  <2>2. QED
    BY <1>2, <1>t, <2>1 DEF InOrder, Idx
<1>6. ~LastBefore(Xfer, Compute, s, w.l, w.t)
  BY <1>2, <1>4, <1>t DEF LastBefore
<1>7. ~LastBefore(Compute, Xfer, s, w.l, w.t)
  BY <1>2, <1>5, <1>t DEF LastBefore
<1>8. QED
  BY <1>3, <1>6, <1>7 DEF Holds

LEMMA LayersDrain ==
    ASSUME Ordered
    PROVE  StreamsDrain
<1>1. LayerTypeOK /\ StreamsInOrder /\ EventsInOrder
  BY DEF Ordered
<1>2. /\ Xfer # << >> => 1 \in Idx(Xfer) /\ Head(Xfer) = Xfer[1]
      /\ Compute # << >> => 1 \in Idx(Compute) /\ Head(Compute) = Compute[1]
  BY <1>1, Queues, TailPopped DEF Xfer, Compute, Streams
<1>t. /\ \A j \in Idx(Xfer) : Xfer[j].t \in Nat
      /\ \A j \in Idx(Compute) : Compute[j].t \in Nat
  BY <1>1, Queues DEF Stamped, Idx, Xfer, Compute, Streams
<1>l. Len(Xfer) \in Nat /\ Len(Compute) \in Nat
  BY <1>1, Queues DEF Stamped, Xfer, Compute, Streams
<1>3. /\ \A j \in Idx(Xfer) : 1 \in Idx(Xfer) /\ Xfer[1].t <= Xfer[j].t
      /\ \A j \in Idx(Compute) : 1 \in Idx(Compute) /\ Compute[1].t <= Compute[j].t
  BY <1>1, <1>t, <1>l DEF StreamsInOrder, InOrder, Xfer, Compute, Streams, Idx
<1>4. ASSUME Xfer # << >>, ~CanGoOn("xfer")
      PROVE  Compute # << >> /\ Compute[1].t < Xfer[1].t
  <2> DEFINE w == Xfer[1]
  <2>1. w.k = "wait" /\ ~(fired[w.e] >= w.n) /\ w \in Work
    BY <1>1, <1>2, <1>4, Queues DEF CanGoOn, Xfer, Streams
  <2>2. w.e \in Events /\ w.n \in Nat /\ fired[w.e] \in Nat
    BY <1>1, <2>1, WorkFields DEF LayerTypeOK
  <2>3. PICK s \in Slots : w.e = Ready(s) \/ w.e = Done(s)
    BY <2>2 DEF Events, Ready, Done
  <2>4. w.e = Done(s)
    BY <1>1, <1>2, <1>4, <2>1, <2>3 DEF EventsInOrder, NoWait, Waits
  <2>5. PICK j \in Idx(Compute) : Compute[j].t < w.t
    BY <1>1, <1>2, <1>4, <2>1, <2>2, <2>4 DEF EventsInOrder, WaitsMet, Waits
  <2>6. QED
    BY <1>2, <1>3, <1>4, <1>t, <2>5 DEF Idx
<1>5. ASSUME Compute # << >>, ~CanGoOn("compute")
      PROVE  Xfer # << >> /\ Xfer[1].t < Compute[1].t
  <2> DEFINE w == Compute[1]
  <2>1. w.k = "wait" /\ ~(fired[w.e] >= w.n) /\ w \in Work
    BY <1>1, <1>2, <1>5, Queues DEF CanGoOn, Compute, Streams
  <2>2. w.e \in Events /\ w.n \in Nat /\ fired[w.e] \in Nat
    BY <1>1, <2>1, WorkFields DEF LayerTypeOK
  <2>3. PICK s \in Slots : w.e = Ready(s) \/ w.e = Done(s)
    BY <2>2 DEF Events, Ready, Done
  <2>4. w.e = Ready(s)
    BY <1>1, <1>2, <1>5, <2>1, <2>3 DEF EventsInOrder, NoWait, Waits
  <2>5. PICK j \in Idx(Xfer) : Xfer[j].t < w.t
    BY <1>1, <1>2, <1>5, <2>1, <2>2, <2>4 DEF EventsInOrder, WaitsMet, Waits
  <2>6. QED
    BY <1>2, <1>3, <1>5, <1>t, <2>5 DEF Idx
<1>6. ASSUME ~CanGoOn("xfer"), ~CanGoOn("compute")
      PROVE  Xfer = << >> /\ Compute = << >>
  BY <1>2, <1>4, <1>5, <1>6, <1>t
<1>7. QED
  BY <1>6 DEF StreamsDrain, Streams, Xfer, Compute

(* The host issues work to a stream.                                       *)
LEMMA GrowIdx ==
    ASSUME NEW q, NEW r, Grown(q, r)
    PROVE  /\ \A i \in Idx(q) : i \in Idx(r) /\ r[i] = q[i] /\ i <= Len(q) /\ i \in Nat
           /\ \A i \in Idx(r) : i \in Idx(q) \/ i > Len(q)
           /\ \A i \in Idx(r) : i \in Nat
  BY DEF Grown, Idx

LEMMA GrowOrder ==
    ASSUME NEW q, NEW r, NEW n \in Nat, Grown(q, r), Stamped(r), InOrder(q), IssuedBefore(q, n),
           \A i \in Idx(r) : i > Len(q) => r[i].t = n,
           \A i, j \in Idx(r) : Len(q) < i /\ i < j /\ r[i].k = "copy" => r[j].k \notin {"copy", "run"}
    PROVE  InOrder(r) /\ IssuedBefore(r, n + 1)
<1>1. \A i \in Idx(r) : r[i].t \in Nat /\ i \in Nat
  BY DEF Stamped, Idx
<1>2. \A i \in Idx(r) : (i \in Idx(q) /\ r[i] = q[i] /\ q[i].t < n /\ i <= Len(q)) \/ (i > Len(q) /\ r[i].t = n)
  BY GrowIdx DEF IssuedBefore
<1>l. Len(q) \in Nat
  BY DEF Grown
<1>3. ASSUME NEW i \in Idx(r), NEW j \in Idx(r), i < j
      PROVE  r[i].t <= r[j].t
  <2>1. CASE j \in Idx(q)
    <3>1. i \in Idx(q)
      BY <1>3, <2>1 DEF Grown, Idx
    <3>2. QED
      BY <1>1, <1>3, <2>1, <3>1, GrowIdx DEF InOrder
  <2>2. CASE j \notin Idx(q)
    BY <1>1, <1>2, <2>2
  <2>3. QED
    BY <2>1, <2>2
<1>4. ASSUME NEW i \in Idx(r), NEW j \in Idx(r), i < j, r[i].k = "copy", r[j].k \in {"copy", "run"}
      PROVE  r[i].t < r[j].t
  <2>1. CASE j \in Idx(q)
    <3>1. i \in Idx(q)
      BY <1>4, <2>1 DEF Grown, Idx
    <3>2. QED
      BY <1>1, <1>4, <2>1, <3>1, GrowIdx DEF InOrder
  <2>2. CASE j \notin Idx(q)
    <3>1. i \in Idx(q)
      BY <1>2, <1>4
    <3>2. QED
      BY <1>1, <1>2, <2>2, <3>1, GrowIdx DEF IssuedBefore
  <2>3. QED
    BY <2>1, <2>2
<1>5. IssuedBefore(r, n + 1)
  BY <1>1, <1>2 DEF IssuedBefore
<1>6. QED
  BY <1>3, <1>4, <1>5 DEF InOrder

LEMMA GrowRecords ==
    ASSUME NEW q, NEW r, NEW e, NEW f, NEW n, Grown(q, r), RecordsInOrder(q, e, f, n),
           \A i \in Idx(r) : i > Len(q) => ~Records(r[i], e)
    PROVE  RecordsInOrder(r, e, f, n)
<1>1. \A i \in Idx(r) : Records(r[i], e) => i \in Idx(q) /\ r[i] = q[i]
  BY GrowIdx
<1>2. QED
  BY <1>1, GrowIdx DEF RecordsInOrder

LEMMA GrowRecord ==
    ASSUME NEW q, NEW r, NEW e, NEW f \in Nat, NEW n \in Nat, Grown(q, r), Stamped(r), RecordsInOrder(q, e, f, n),
           Len(r) > Len(q), Records(r[Len(r)], e), r[Len(r)].n = n + 1,
           \A i \in Idx(r) : i > Len(q) /\ i < Len(r) => ~Records(r[i], e)
    PROVE  RecordsInOrder(r, e, f, n + 1)
<1> DEFINE z == Len(r)
<1>1. z \in Idx(r) /\ z \in Nat /\ Len(q) \in Nat
  BY DEF Grown, Idx
<1>2. \A i \in Idx(r) : Records(r[i], e) => (i \in Idx(q) /\ r[i] = q[i]) \/ i = z
  <2>1. \A i \in Idx(r) : i \in Nat /\ i <= z
    BY <1>1 DEF Idx
  <2>2. QED
    BY <1>1, <2>1, GrowIdx
<1>3. \A i \in Idx(r) : Records(r[i], e) => r[i].n \in Nat
  BY DEF Stamped, Idx, Records
<1>4. \A i \in Idx(r) : Records(r[i], e) => f < r[i].n /\ r[i].n <= n + 1
  BY <1>2, <1>3 DEF RecordsInOrder
<1>5. ASSUME NEW i \in Idx(r), NEW j \in Idx(r), i < j, Records(r[i], e), Records(r[j], e)
      PROVE  r[i].n < r[j].n
  <2>1. i # z
    BY <1>1, <1>5 DEF Idx
  <2>2. i \in Idx(q) /\ r[i] = q[i]
    BY <1>2, <1>5, <2>1
  <2>3. CASE j = z
    BY <1>3, <1>5, <2>2, <2>3 DEF RecordsInOrder
  <2>4. CASE j \in Idx(q) /\ r[j] = q[j]
    BY <1>5, <2>2, <2>4 DEF RecordsInOrder
  <2>5. QED
    BY <1>2, <1>5, <2>3, <2>4
<1>6. QED
  BY <1>1, <1>4, <1>5 DEF RecordsInOrder

LEMMA GrowWaits ==
    ASSUME NEW q, NEW r, NEW p, NEW e, NEW f, Grown(q, r), WaitsMet(q, p, e, f),
           \A i \in Idx(r) : i > Len(q) /\ Waits(r[i], e) /\ f < r[i].n
               => \E j \in Idx(p) : Records(p[j], e) /\ p[j].n = r[i].n /\ p[j].t < r[i].t
    PROVE  WaitsMet(r, p, e, f)
  BY GrowIdx DEF WaitsMet

LEMMA GrowMet ==
    ASSUME NEW q, NEW r, NEW p, NEW e, NEW f, Grown(p, r), WaitsMet(q, p, e, f)
    PROVE  WaitsMet(q, r, e, f)
<1>1. \A j \in Idx(p) : j \in Idx(r) /\ r[j] = p[j]
  BY GrowIdx
<1>2. QED
  BY <1>1 DEF WaitsMet

LEMMA GrowBehind ==
    ASSUME NEW q, NEW r, NEW p, NEW i, NEW j, NEW e, Grown(q, r)
    PROVE  /\ Behind(q, i, p, j, e) => Behind(r, i, p, j, e)
           /\ Behind(p, i, q, j, e) => Behind(p, i, r, j, e)
<1>1. \A a \in Idx(q) : a \in Idx(r) /\ r[a] = q[a]
  BY GrowIdx
<1>2. QED
  BY <1>1 DEF Behind

LEMMA GrowGuardedX ==
    ASSUME NEW c, NEW x, NEW r, NEW s, Grown(x, r), Guarded(c, x, s),
           \A i \in Idx(c), j \in Idx(r) : j > Len(x) /\ Touches(c[i], s) /\ Copies(r[j], s)
               => c[i].t < r[j].t /\ Behind(r, j, c, i, Done(s))
    PROVE  Guarded(c, r, s)
<1> SUFFICES ASSUME NEW i \in Idx(c), NEW j \in Idx(r), Touches(c[i], s), Copies(r[j], s)
             PROVE  \/ r[j].t < c[i].t /\ Behind(c, i, r, j, Ready(s))
                    \/ c[i].t < r[j].t /\ Behind(r, j, c, i, Done(s))
  BY DEF Guarded
<1>1. CASE j \in Idx(x)
  <2>1. r[j] = x[j]
    BY <1>1, GrowIdx
  <2>2. \/ r[j].t < c[i].t /\ Behind(c, i, x, j, Ready(s))
        \/ c[i].t < r[j].t /\ Behind(x, j, c, i, Done(s))
    BY <1>1, <2>1 DEF Guarded
  <2>3. QED
    BY <2>2, GrowBehind
<1>2. CASE j > Len(x)
  BY <1>2
<1>3. QED
  BY <1>1, <1>2, GrowIdx

LEMMA GrowGuardedC ==
    ASSUME NEW c, NEW x, NEW r, NEW s, Grown(c, r), Guarded(c, x, s),
           \A i \in Idx(r), j \in Idx(x) : i > Len(c) /\ Touches(r[i], s) /\ Copies(x[j], s)
               => x[j].t < r[i].t /\ Behind(r, i, x, j, Ready(s))
    PROVE  Guarded(r, x, s)
<1> SUFFICES ASSUME NEW i \in Idx(r), NEW j \in Idx(x), Touches(r[i], s), Copies(x[j], s)
             PROVE  \/ x[j].t < r[i].t /\ Behind(r, i, x, j, Ready(s))
                    \/ r[i].t < x[j].t /\ Behind(x, j, r, i, Done(s))
  BY DEF Guarded
<1>1. CASE i \in Idx(c)
  <2>1. r[i] = c[i]
    BY <1>1, GrowIdx
  <2>2. \/ x[j].t < r[i].t /\ Behind(c, i, x, j, Ready(s))
        \/ r[i].t < x[j].t /\ Behind(x, j, c, i, Done(s))
    BY <1>1, <2>1 DEF Guarded
  <2>3. QED
    BY <2>2, GrowBehind
<1>2. CASE i > Len(c)
  BY <1>2
<1>3. QED
  BY <1>1, <1>2, GrowIdx

(* What a slot will hold: work issued at call n or later is too late to    *)
(* change it for work of call n; if nothing is copied into it, it will     *)
(* still hold the same at the next call; a copy issued last decides.       *)
LEMMA GrowHolds ==
    ASSUME NEW q, NEW r, NEW p, NEW m, NEW s, NEW l, NEW n, Grown(q, r), Holds(q, p, m, s, l, n),
           \A i \in Idx(r) : i > Len(q) /\ Copies(r[i], s) => r[i].t >= n
    PROVE  Holds(r, p, m, s, l, n)
<1>1. \A i \in Idx(q) : i \in Idx(r) /\ r[i] = q[i]
  BY GrowIdx
<1>2. \A i \in Idx(r) : Copies(r[i], s) => r[i].t >= n \/ (i \in Idx(q) /\ r[i] = q[i])
  BY GrowIdx
<1>3. NoneBefore(q, s, n) => NoneBefore(r, s, n)
  BY <1>2 DEF NoneBefore
<1>4. \A h : NoneSince(q, s, h, n) => NoneSince(r, s, h, n)
  BY <1>2 DEF NoneSince
<1>5. LastBefore(q, p, s, l, n) => LastBefore(r, p, s, l, n)
  BY <1>1, <1>4 DEF LastBefore
<1>6. LastBefore(p, q, s, l, n) => LastBefore(p, r, s, l, n)
  BY <1>4 DEF LastBefore
<1>7. QED
  BY <1>3, <1>5, <1>6 DEF Holds

LEMMA LaterHolds ==
    ASSUME NEW q, NEW p, NEW m, NEW s, NEW l, NEW n \in Nat, Stamped(q), Stamped(p),
           \A i \in Idx(q) : Copies(q[i], s) => q[i].t < n,
           \A i \in Idx(p) : Copies(p[i], s) => p[i].t < n,
           Holds(q, p, m, s, l, n)
    PROVE  Holds(q, p, m, s, l, n + 1)
<1>1. /\ \A i \in Idx(q) : q[i].t \in Nat
      /\ \A i \in Idx(p) : p[i].t \in Nat
  BY DEF Stamped, Idx
<1>2. /\ NoneBefore(q, s, n) => NoneBefore(q, s, n + 1)
      /\ NoneBefore(p, s, n) => NoneBefore(p, s, n + 1)
  BY <1>1 DEF NoneBefore
<1>3. \A h : /\ NoneSince(q, s, h, n) => NoneSince(q, s, h, n + 1)
             /\ NoneSince(p, s, h, n) => NoneSince(p, s, h, n + 1)
  BY <1>1 DEF NoneSince
<1>4. LastBefore(q, p, s, l, n) => LastBefore(q, p, s, l, n + 1)
  BY <1>1, <1>3 DEF LastBefore
<1>5. LastBefore(p, q, s, l, n) => LastBefore(p, q, s, l, n + 1)
  BY <1>1, <1>3 DEF LastBefore
<1>6. QED
  BY <1>2, <1>4, <1>5 DEF Holds

LEMMA CopyHolds ==
    ASSUME NEW q, NEW p, NEW m, NEW s, NEW l, NEW n \in Nat, Stamped(q), Stamped(p),
           IssuedBefore(q, n + 1), IssuedBefore(p, n + 1),
           NEW k \in Idx(q), Copies(q[k], s), q[k].l = l, q[k].t = n
    PROVE  Holds(q, p, m, s, l, n + 1)
<1>1. /\ \A i \in Idx(q) : q[i].t \in Nat /\ q[i].t <= n
      /\ \A i \in Idx(p) : p[i].t \in Nat /\ p[i].t <= n
  BY DEF Stamped, Idx, IssuedBefore
<1>2. NoneSince(q, s, n, n + 1) /\ NoneSince(p, s, n, n + 1)
  BY <1>1 DEF NoneSince
<1>3. LastBefore(q, p, s, l, n + 1)
  BY <1>2 DEF LastBefore
<1>4. QED
  BY <1>3 DEF Holds

Ticks == pool' = pool /\ busy' = busy /\ content' = content /\ fired' = fired /\ clock' = clock + 1

LEMMA GrowHead ==
    ASSUME NEW q \in Seq(Work), NEW r \in Seq(Work), Grown(q, r), q # << >>
    PROVE  r # << >> /\ Head(r) = Head(q)
<1>1. Head(q) = q[1] /\ 1 \in Idx(q)
  BY TailPopped
<1>2. 1 \in Idx(r) /\ r[1] = q[1]
  BY <1>1, GrowIdx
<1>3. r # << >>
  BY <1>2 DEF Idx
<1>4. QED
  BY <1>1, <1>2, <1>3, TailPopped

(* Work issued keeps the order of the streams: nothing before it changes.  *)
LEMMA GrowStreams ==
    ASSUME LayerTypeOK, StreamsInOrder, Ticks, queue' \in [Streams -> Seq(Work)],
           NEW t \in Streams, NEW u \in Streams, t # u, queue'[u] = queue[u], Grown(queue[t], queue'[t]),
           \A i \in Idx(queue'[t]) : i > Len(queue[t]) => queue'[t][i].t = clock,
           t = "xfer" => \A i \in Idx(queue'[t]) : i > Len(queue[t]) => queue'[t][i].k # "run",
           \A i, j \in Idx(queue'[t]) : Len(queue[t]) < i /\ i < j /\ queue'[t][i].k = "copy"
               => queue'[t][j].k \notin {"copy", "run"}
    PROVE  StreamsInOrder'
<1>1. clock \in Nat /\ clock' = clock + 1 /\ busy' = busy
  BY DEF LayerTypeOK, Ticks
<1>2. \A v \in Streams : v = t \/ v = u
  BY DEF Streams
<1>3. InOrder(queue'[t]) /\ IssuedBefore(queue'[t], clock + 1)
  <2>1. Stamped(queue'[t])
    BY QueueStamped
  <2>2. InOrder(queue[t]) /\ IssuedBefore(queue[t], clock)
    BY DEF StreamsInOrder
  <2>3. QED
    BY <1>1, <2>1, <2>2, GrowOrder
<1>4. InOrder(queue'[u]) /\ IssuedBefore(queue'[u], clock + 1)
  <2>1. InOrder(queue[u]) /\ IssuedBefore(queue[u], clock) /\ Stamped(queue[u])
    BY Queues DEF StreamsInOrder
  <2>2. QED
    BY <1>1, <2>1 DEF IssuedBefore, Stamped, Idx
<1>5. \A i \in Idx(Xfer') : Xfer'[i].k # "run"
  <2>1. \A i \in Idx(Xfer) : Xfer[i].k # "run"
    BY DEF StreamsInOrder
  <2>2. CASE t = "xfer"
    BY <2>1, <2>2, GrowIdx DEF Xfer
  <2>3. CASE u = "xfer"
    BY <2>1, <2>3 DEF Xfer
  <2>4. QED
    BY <1>2, <2>2, <2>3 DEF Streams
<1>6. \A v \in Streams : busy'[v] => queue'[v] # << >> /\ Head(queue'[v]).k \in {"copy", "run"}
  <2>1. \A v \in Streams : busy[v] => queue[v] # << >> /\ Head(queue[v]).k \in {"copy", "run"}
    BY DEF StreamsInOrder
  <2>2. queue[t] # << >> => queue'[t] # << >> /\ Head(queue'[t]) = Head(queue[t])
    BY GrowHead, Queues
  <2>3. QED
    BY <1>1, <1>2, <2>1, <2>2
<1>7. QED
  BY <1>1, <1>2, <1>3, <1>4, <1>5, <1>6 DEF StreamsInOrder

-----------------------------------------------------------------------------
(* One item for the compute stream.                                        *)
IssuesC(w) ==
    /\ Ticks /\ Xfer' = Xfer /\ queue' \in [Streams -> Seq(Work)]
    /\ Grown(Compute, Compute') /\ Len(Compute') = Len(Compute) + 1 /\ Compute'[Len(Compute')] = w
    /\ w \in Work /\ w.t = clock

LEMMA IssueC ==
    ASSUME LayerTypeOK, Ticks, NEW w \in Work, w.t = clock, Issue("compute", <<w>>)
    PROVE  IssuesC(w)
<1>1. Compute \in Seq(Work) /\ <<w>> \in Seq(Work)
  BY Queues DEF Compute, Streams
<1>2. queue' = [queue EXCEPT !["compute"] = queue["compute"] \o <<w>>]
  BY DEF Issue
<1>3. Xfer' = Xfer /\ Compute' = Compute \o <<w>>
  BY <1>2 DEF LayerTypeOK, Xfer, Compute, Streams
<1>4. /\ Compute \o <<w>> \in Seq(Work) /\ Grown(Compute, Compute \o <<w>>) /\ Len(Compute \o <<w>>) = Len(Compute) + 1
  BY <1>1, JoinGrown
<1>5. (Compute \o <<w>>)[Len(Compute) + 1] = w
  BY <1>1
<1>6. queue' \in [Streams -> Seq(Work)]
  BY <1>2, <1>4 DEF LayerTypeOK, Compute
<1>7. QED
  BY <1>3, <1>4, <1>5, <1>6 DEF IssuesC

LEMMA NewC ==
    ASSUME LayerTypeOK, NEW w, IssuesC(w)
    PROVE  /\ \A i \in Idx(Compute') : i > Len(Compute) => i = Len(Compute') /\ Compute'[i] = w
           /\ Len(Compute') \in Idx(Compute') /\ Len(Compute') \in Nat /\ Len(Compute) \in Nat
           /\ Len(Compute') > Len(Compute) /\ Len(Compute') = Len(Compute) + 1
           /\ Stamped(Compute') /\ Stamped(Compute) /\ Stamped(Xfer) /\ Grown(Compute, Compute')
           /\ w.t = clock /\ w \in Work /\ clock \in Nat /\ Xfer' = Xfer
<1>1. Stamped(Compute') /\ Stamped(Compute) /\ Stamped(Xfer)
  BY Queues, QueueStamped DEF IssuesC, Xfer, Compute, Streams
<1>2. Len(Compute') \in Nat /\ Len(Compute) \in Nat /\ Len(Compute') = Len(Compute) + 1
  BY <1>1 DEF Stamped, IssuesC
<1>3. \A i \in Idx(Compute') : i > Len(Compute) => i = Len(Compute')
  BY <1>2 DEF Idx
<1>4. Compute'[Len(Compute')] = w /\ w.t = clock /\ w \in Work /\ Xfer' = Xfer /\ Grown(Compute, Compute') /\ clock \in Nat
  BY DEF IssuesC, LayerTypeOK
<1>5. Len(Compute') \in Idx(Compute') /\ Len(Compute') > Len(Compute)
  BY <1>2 DEF Idx
<1>6. QED
  BY <1>1, <1>2, <1>3, <1>4, <1>5

LEMMA StreamsC ==
    ASSUME LayerTypeOK, StreamsInOrder, NEW w, IssuesC(w)
    PROVE  StreamsInOrder'
<1> DEFINE z == Len(Compute')
<1>1. \A i \in Idx(Compute') : i > Len(Compute) => i = z /\ Compute'[i].t = clock
  BY NewC
<1>2. \A i, j \in Idx(Compute') : ~(Len(Compute) < i /\ i < j)
  BY NewC DEF Idx
<1>3. Ticks /\ queue' \in [Streams -> Seq(Work)] /\ queue'["xfer"] = queue["xfer"] /\ Grown(Compute, Compute')
  BY DEF IssuesC, Xfer
<1>4. QED
  BY <1>1, <1>2, <1>3, GrowStreams DEF Compute, Streams

LEMMA EventsC ==
    ASSUME LayerTypeOK, StreamsInOrder, EventsInOrder, NEW w, IssuesC(w), NEW s0 \in Slots,
           w.k = "record" => w = Record(Done(s0)) /\ issued' = [issued EXCEPT ![Done(s0)] = @ + 1],
           w.k # "record" => issued' = issued,
           w.k = "wait" => w = Await(Ready(s0))
    PROVE  EventsInOrder'
<1> DEFINE z == Len(Compute')
<1>1. SUFFICES ASSUME NEW s \in Slots
               PROVE  /\ RecordsInOrder(Xfer, Ready(s), fired[Ready(s)], issued'[Ready(s)])
                      /\ RecordsInOrder(Compute', Done(s), fired[Done(s)], issued'[Done(s)])
                      /\ WaitsMet(Xfer, Compute', Done(s), fired[Done(s)])
                      /\ WaitsMet(Compute', Xfer, Ready(s), fired[Ready(s)])
                      /\ NoRecord(Xfer, Done(s)) /\ NoWait(Xfer, Ready(s))
                      /\ NoRecord(Compute', Ready(s)) /\ NoWait(Compute', Done(s))
  BY DEF EventsInOrder, IssuesC, Ticks
<1> DEFINE R == Ready(s)
           D == Done(s)
<1>2. /\ RecordsInOrder(Xfer, R, fired[R], issued[R])
      /\ RecordsInOrder(Compute, D, fired[D], issued[D])
      /\ WaitsMet(Xfer, Compute, D, fired[D])
      /\ WaitsMet(Compute, Xfer, R, fired[R])
      /\ NoRecord(Xfer, D) /\ NoWait(Xfer, R)
      /\ NoRecord(Compute, R) /\ NoWait(Compute, D)
  BY DEF EventsInOrder
<1>3. /\ R \in Events /\ D \in Events /\ fired[R] \in Nat /\ issued[R] \in Nat /\ fired[D] \in Nat /\ issued[D] \in Nat
  BY SlotEvents DEF LayerTypeOK
<1>4. /\ R # Done(s0) /\ D # Ready(s0) /\ (R = Ready(s0) <=> s = s0) /\ (D = Done(s0) <=> s = s0)
  BY DEF Ready, Done
<1>5. w.k \in {"copy", "run", "wait", "record"}
  BY WorkFields DEF IssuesC
<1>6. issued'[R] = issued[R]
  BY <1>3, <1>4, <1>5 DEF LayerTypeOK
<1>7. ~Records(w, R) /\ ~Waits(w, D)
  BY <1>4 DEF Records, Waits, Record, Await
<1>8. NoRecord(Compute', R) /\ NoWait(Compute', D)
  BY <1>2, <1>7, NewC, GrowIdx DEF NoRecord, NoWait
<1>9. WaitsMet(Xfer, Compute', D, fired[D])
  BY <1>2, NewC, GrowMet
<1>10. WaitsMet(Compute', Xfer, R, fired[R])
  <2>1. ASSUME Waits(w, R), fired[R] < w.n
        PROVE  \E j \in Idx(Xfer) : Records(Xfer[j], R) /\ Xfer[j].n = w.n /\ Xfer[j].t < w.t
    <3>1. w.n = issued[R] /\ w.t = clock
      BY <2>1, <1>4 DEF Waits, Await
    <3>2. PICK j \in Idx(Xfer) : Records(Xfer[j], R) /\ Xfer[j].n = issued[R]
      BY <1>2, <2>1, <3>1 DEF RecordsInOrder
    <3>3. Xfer[j].t < clock
      BY DEF StreamsInOrder, IssuedBefore, Xfer, Streams
    <3>4. QED
      BY <3>1, <3>2, <3>3
  <2>2. QED
    BY <1>2, <2>1, NewC, GrowWaits
<1>11. RecordsInOrder(Compute', D, fired[D], issued'[D])
  <2>1. CASE Records(w, D)
    <3>1. w.n = issued[D] + 1 /\ issued'[D] = issued[D] + 1
      BY <1>3, <1>4, <2>1 DEF Records, Record, LayerTypeOK
    <3>2. Records(Compute'[z], D) /\ Compute'[z].n = issued[D] + 1
      BY <2>1, <3>1, NewC
    <3>3. \A i \in Idx(Compute') : i > Len(Compute) => ~(i < z)
      BY NewC
    <3>4. RecordsInOrder(Compute', D, fired[D], issued[D] + 1)
      BY <1>2, <1>3, <3>2, <3>3, NewC, GrowRecord
    <3>5. QED
      BY <3>1, <3>4
  <2>2. CASE ~Records(w, D)
    <3>1. issued'[D] = issued[D]
      BY <1>3, <1>4, <1>5, <2>2 DEF Records, Record, LayerTypeOK
    <3>2. \A i \in Idx(Compute') : i > Len(Compute) => ~Records(Compute'[i], D)
      BY <2>2, NewC
    <3>3. QED
      BY <1>2, <3>1, <3>2, NewC, GrowRecords
  <2>3. QED
    BY <2>1, <2>2
<1>12. QED
  BY <1>2, <1>6, <1>8, <1>9, <1>10, <1>11

LEMMA SlotsC ==
    ASSUME LayerTypeOK, StreamsInOrder, SlotsGuarded, NEW w, IssuesC(w),
           \A s \in Slots : Touches(w, s) => Awaited(Compute, Xfer, s)
    PROVE  SlotsGuarded'
<1> DEFINE z == Len(Compute')
<1>1. SUFFICES ASSUME NEW s \in Slots PROVE Guarded(Compute', Xfer, s)
  BY NewC DEF SlotsGuarded
<1>2. Guarded(Compute, Xfer, s)
  BY DEF SlotsGuarded
<1>3. ASSUME NEW i \in Idx(Compute'), NEW j \in Idx(Xfer), i > Len(Compute), Touches(Compute'[i], s), Copies(Xfer[j], s)
      PROVE  Xfer[j].t < Compute'[i].t /\ Behind(Compute', i, Xfer, j, Ready(s))
  <2>1. i = Len(Compute) + 1 /\ Compute'[i] = w /\ w.t = clock
    BY <1>3, NewC
  <2>2. Behind(Compute, Len(Compute) + 1, Xfer, j, Ready(s))
    BY <1>3, <2>1 DEF Awaited
  <2>3. Behind(Compute', i, Xfer, j, Ready(s))
    BY <2>1, <2>2, NewC, GrowBehind
  <2>4. Xfer[j].t < clock
    BY DEF StreamsInOrder, IssuedBefore, Xfer, Streams
  <2>5. QED
    BY <2>1, <2>3, <2>4
<1>4. QED
  BY <1>2, <1>3, NewC, GrowGuardedC

(* A slot nothing is copied into keeps what it will hold.                  *)
LEMMA HoldC ==
    ASSUME LayerTypeOK, NEW w, IssuesC(w), NEW s, NEW l, NEW n \in Nat, n <= clock, WillHold(s, l, n)
    PROVE  Holds(Xfer', Compute', content'[s], s, l, n)
<1>1. Holds(Compute, Xfer, content[s], s, l, n)
  BY HoldsEither DEF WillHold
<1>2. \A i \in Idx(Compute') : i > Len(Compute) => Compute'[i].t >= n
  BY NewC
<1>3. Holds(Compute', Xfer, content[s], s, l, n)
  BY <1>1, <1>2, NewC, GrowHolds
<1>4. content' = content /\ Xfer' = Xfer
  BY DEF IssuesC, Ticks
<1>5. QED
  BY <1>3, <1>4, HoldsEither

LEMMA KernelsC ==
    ASSUME LayerTypeOK, StreamsInOrder, KernelsFed, NEW w, IssuesC(w),
           w.k = "run" /\ Streamed(w.l) => w.slot \in Slots /\ WillHold(w.slot, w.l, clock)
    PROVE  KernelsFed'
<1>1. pool' = pool
  BY DEF IssuesC, Ticks
<1>2. SUFFICES ASSUME NEW i \in Idx(Compute'), Compute'[i].k = "run", Streamed(Compute[i].l)'
               PROVE  Compute'[i].slot \in Slots /\ WillHold(Compute[i].slot, Compute[i].l, Compute[i].t)'
  BY DEF KernelsFed
<1> DEFINE v == Compute'[i]
<1>3. Streamed(v.l)
  BY <1>1, <1>2 DEF Streamed
<1>4. v.slot \in Slots /\ WillHold(v.slot, v.l, v.t) /\ v.t \in Nat /\ v.t <= clock
  <2>1. CASE i \in Idx(Compute)
    <3>1. v = Compute[i]
      BY <2>1, NewC, GrowIdx
    <3>2. v.t \in Nat /\ v.t < clock /\ clock \in Nat
      BY <2>1, <3>1, Queues, WorkFields DEF StreamsInOrder, IssuedBefore, LayerTypeOK, Compute, Streams
    <3>3. QED
      BY <1>2, <1>3, <2>1, <3>1, <3>2 DEF KernelsFed
  <2>2. CASE i > Len(Compute)
    <3>1. v = w /\ w.t = clock /\ clock \in Nat
      BY <2>2, NewC
    <3>2. QED
      BY <1>2, <1>3, <3>1
  <2>3. QED
    BY <2>1, <2>2, NewC, GrowIdx
<1>5. Holds(Xfer', Compute', content'[v.slot], v.slot, v.l, v.t)
  BY <1>4, HoldC
<1>6. QED
  BY <1>4, <1>5 DEF WillHold

LEMMA SlotOfLayer ==
    ASSUME LayerTypeOK, NEW l \in LayerIdx
    PROVE  pool_slot(l) \in Slots
  BY LayersAssumption DEF pool_slot, Slots, LayerIdx, LayerTypeOK, Pools

LEMMA UnstagedC ==
    ASSUME LayerTypeOK, StreamsInOrder, LoadedComes, NEW w, IssuesC(w), w.k # "copy",
           loaded' = loaded, ptr' = ptr,
           \A s \in Slots : loaded[s] = -1 => ~doneValid'[s] /\ ~Touches(w, s)
    PROVE  LoadedComes'
<1>1. clock' = clock + 1 /\ pool' = pool /\ content' = content /\ Xfer' = Xfer /\ clock \in Nat
  BY DEF IssuesC, Ticks, LayerTypeOK
<1>2. ASSUME NEW s \in Slots, loaded[s] = -1
      PROVE  ~doneValid'[s] /\ Untouched(Xfer', s) /\ Untouched(Compute', s)
  <2>1. Untouched(Xfer, s) /\ Untouched(Compute, s)
    BY <1>2 DEF LoadedComes
  <2>2. ~doneValid'[s] /\ ~Touches(w, s)
    BY <1>2
  <2>3. Untouched(Compute', s)
    BY <2>1, <2>2, NewC, GrowIdx DEF Untouched
  <2>4. QED
    BY <1>1, <2>1, <2>2, <2>3
<1>3. ASSUME NEW s \in Slots, loaded[s] # -1
      PROVE  /\ pool_slot(loaded[s]) = s /\ Streamed(loaded[s]) /\ ptr[loaded[s]] = s
             /\ Holds(Xfer', Compute', content'[s], s, loaded[s], clock + 1)
  <2>1. /\ pool_slot(loaded[s]) = s /\ Streamed(loaded[s]) /\ ptr[loaded[s]] = s
        /\ WillHold(s, loaded[s], clock)
    BY <1>3 DEF LoadedComes
  <2>2. Holds(Xfer', Compute', content'[s], s, loaded[s], clock)
    BY <1>1, <2>1, HoldC
  <2>3. \A i \in Idx(Xfer') : Xfer'[i].t < clock
    BY <1>1 DEF StreamsInOrder, IssuedBefore, Xfer, Streams
  <2>4. \A i \in Idx(Compute') : Copies(Compute'[i], s) => Compute'[i].t < clock
    <3>1. \A i \in Idx(Compute) : Compute[i].t < clock
      BY DEF StreamsInOrder, IssuedBefore, Compute, Streams
    <3>2. QED
      BY <3>1, NewC, GrowIdx DEF Copies
  <2>5. Stamped(Xfer') /\ Stamped(Compute')
    BY <1>1, NewC
  <2>6. Holds(Xfer', Compute', content'[s], s, loaded[s], clock + 1)
    BY <1>1, <2>2, <2>3, <2>4, <2>5, LaterHolds
  <2>7. QED
    BY <2>1, <2>6
<1>4. QED
  BY <1>1, <1>2, <1>3 DEF LoadedComes, WillHold, pool_slot, Streamed

LEMMA WholeCopy ==
    ASSUME PointersMatchSlots, NEW l \in LayerIdx
    PROVE  StageCopy(l) = Copy(l)
  BY DEF StageCopy, PointersMatchSlots

(* Staging: the slot is the layer's, its former layer is back on the host. *)
LEMMA StageKeeps ==
    ASSUME LayerTypeOK, LoadedComes, PointersMatchSlots, NEW l \in LayerIdx, Streamed(l),
           Stage(l), pool' = pool
    PROVE  /\ PointersMatchSlots'
           /\ loaded' \in [Slots -> LayerIdx \cup {-1}] /\ doneValid' \in [Slots -> BOOLEAN]
           /\ ptr' \in [LayerIdx -> Slots \cup {-1, Mixed}]
           /\ loaded'[pool_slot(l)] = l /\ ~doneValid'[pool_slot(l)]
           /\ \A s \in Slots : s # pool_slot(l) => loaded'[s] = loaded[s] /\ doneValid'[s] = doneValid[s]
           /\ \A s \in Slots : loaded'[s] # -1 =>
                  pool_slot(loaded'[s]) = s /\ Streamed(loaded'[s]) /\ ptr'[loaded'[s]] = s
<1> DEFINE z == pool_slot(l)
<1>1. z \in Slots
  BY SlotOfLayer
<1>2. /\ ptr' = [m \in LayerIdx |-> IF m = l THEN z ELSE IF m = loaded[z] THEN -1 ELSE ptr[m]]
      /\ loaded' = [loaded EXCEPT ![z] = l]
      /\ doneValid' = [doneValid EXCEPT ![z] = FALSE]
  <2>1. \A m \in LayerIdx : ptr[m] # Mixed
    BY DEF PointersMatchSlots
  <2>2. QED
    BY <2>1 DEF Stage, Unstaged
<1>3. doneValid' \in [Slots -> BOOLEAN] /\ ~doneValid'[z] /\ \A s \in Slots : s # z => doneValid'[s] = doneValid[s]
  BY <1>1, <1>2, Zenon DEF LayerTypeOK
<1>4. /\ loaded' \in [Slots -> LayerIdx \cup {-1}] /\ ptr' \in [LayerIdx -> Slots \cup {-1, Mixed}]
      /\ loaded'[z] = l /\ \A s \in Slots : s # z => loaded'[s] = loaded[s]
  BY <1>1, <1>2 DEF LayerTypeOK
<1>5. \A s \in Slots : loaded[s] # -1 => pool_slot(loaded[s]) = s /\ Streamed(loaded[s]) /\ ptr[loaded[s]] = s
  BY DEF LoadedComes
<1>6. \A s \in Slots : loaded[s] \in LayerIdx \cup {-1}
  BY DEF LayerTypeOK
<1>7. ASSUME NEW s \in Slots, loaded'[s] # -1
      PROVE  pool_slot(loaded'[s]) = s /\ Streamed(loaded'[s]) /\ ptr'[loaded'[s]] = s
  <2>1. CASE s = z
    BY <1>2, <1>4, <2>1
  <2>2. CASE s # z
    <3>1. loaded'[s] = loaded[s] /\ loaded[s] \in LayerIdx
      BY <1>4, <1>6, <1>7, <2>2
    <3>2. pool_slot(loaded[s]) = s /\ Streamed(loaded[s]) /\ ptr[loaded[s]] = s
      BY <1>5, <1>7, <3>1
    <3>3. loaded[s] # l
      BY <2>2, <3>2
    <3>4. loaded[s] # loaded[z]
      BY <1>1, <1>5, <1>7, <2>2, <3>1, <3>2
    <3>5. QED
      BY <1>2, <3>1, <3>2, <3>3, <3>4
  <2>3. QED
    BY <2>1, <2>2
<1>8. ASSUME NEW m \in LayerIdx
      PROVE  /\ ptr'[m] \in Slots <=> \E s \in Slots : loaded'[s] = m
             /\ ptr'[m] \in Slots => loaded'[ptr'[m]] = m /\ Streamed(m)
  <2>m. m # -1
    BY LayersAssumption DEF LayerIdx
  <2>1. CASE \E s \in Slots : loaded'[s] = m
    BY <1>7, <2>1, <2>m
  <2>2. CASE ~ \E s \in Slots : loaded'[s] = m
    <3>1. m # l
      BY <1>1, <1>4, <2>2
    <3>2. CASE m = loaded[z]
      <4>1. ptr'[m] = -1
        BY <1>2, <3>1, <3>2
      <4>2. QED
        BY <2>2, <4>1 DEF Slots
    <3>3. CASE m # loaded[z]
      <4>1. ptr'[m] = ptr[m]
        BY <1>2, <3>1, <3>3
      <4>2. ~ \E s \in Slots : loaded[s] = m
        BY <1>1, <1>4, <2>2, <3>3
      <4>3. QED
        BY <2>2, <4>1, <4>2 DEF PointersMatchSlots
    <3>4. QED
      BY <3>2, <3>3
  <2>3. QED
    BY <2>1, <2>2
<1>9. PointersMatchSlots'
  <2>1. \A m \in LayerIdx : ptr'[m] # Mixed
    BY <1>1, <1>2 DEF PointersMatchSlots, Mixed, Slots
  <2>2. QED
    BY <1>8, <2>1 DEF PointersMatchSlots, Streamed
<1>10. QED
  BY <1>3, <1>4, <1>7, <1>9

(* A copy for the transfer stream, between the wait for the slot's reader  *)
(* and the record for its next one.                                        *)
IssuesX(l) ==
    LET s == pool_slot(l)
        z == Len(Xfer')
    IN  /\ Ticks /\ Compute' = Compute /\ queue' \in [Streams -> Seq(Work)]
        /\ Grown(Xfer, Xfer') /\ Xfer'[z - 1] = Copy(l) /\ Xfer'[z] = Record(Ready(s))
        /\ IF loaded[s] >= 0 THEN z = Len(Xfer) + 3 /\ Xfer'[z - 2] = Await(Done(s)) ELSE z = Len(Xfer) + 2

LEMMA IssueX ==
    ASSUME LayerTypeOK, Ticks, NEW l \in LayerIdx,
           Issue("xfer", (IF loaded[pool_slot(l)] >= 0 THEN <<Await(<<"done", pool_slot(l)>>)>> ELSE << >>)
                         \o <<Copy(l), Record(<<"ready", pool_slot(l)>>)>>)
    PROVE  IssuesX(l)
<1> DEFINE s == pool_slot(l)
           a == Await(Done(s))
           c == Copy(l)
           r == Record(Ready(s))
           v == (IF loaded[s] >= 0 THEN <<a>> ELSE << >>) \o <<c, r>>
<1>1. s \in Slots /\ Ready(s) \in Events /\ Done(s) \in Events
  BY SlotOfLayer, SlotEvents
<1>2. a \in Work /\ c \in Work /\ r \in Work
  BY <1>1 DEF LayerTypeOK, Work, Await, Copy, Record
<1>3. Issue("xfer", v)
  BY DEF Ready, Done
<1> HIDE DEF a, c, r, s
<1>4. /\ v \in Seq(Work)
      /\ loaded[s] >= 0 => Len(v) = 3 /\ v[1] = a /\ v[2] = c /\ v[3] = r
      /\ ~(loaded[s] >= 0) => Len(v) = 2 /\ v[1] = c /\ v[2] = r
  <2>1. CASE loaded[s] >= 0
    <3>1. v = <<a>> \o <<c, r>>
      BY <2>1
    <3>2. <<a>> \in Seq(Work) /\ <<c, r>> \in Seq(Work)
      BY <1>2
    <3>3. v \in Seq(Work) /\ Len(v) = 3 /\ v[1] = a /\ v[2] = c /\ v[3] = r
      BY <3>1, <3>2
    <3>4. QED
      BY <2>1, <3>3
  <2>2. CASE ~(loaded[s] >= 0)
    <3> DEFINE u == <<c, r>>
    <3>1. v = << >> \o u
      BY <2>2
    <3>2. u \in Seq(Work) /\ Len(u) = 2 /\ u[1] = c /\ u[2] = r
      BY <1>2
    <3> HIDE DEF u, v
    <3>3. v \in Seq(Work) /\ Len(v) = 2 /\ v[1] = c /\ v[2] = r
      <4>1. << >> \in Seq(Work) /\ Len(<< >>) = 0
        OBVIOUS
      <4>2. v \in Seq(Work) /\ Len(v) = 2
        BY <3>1, <3>2, <4>1
      <4>3. 1 \in 1..Len(v) /\ 2 \in 1..Len(v)
        BY <4>2
      <4>4. v[1] = u[1] /\ v[2] = u[2]
        BY <3>1, <3>2, <4>1, <4>2, <4>3
      <4>5. QED
        BY <3>2, <4>2, <4>4
    <3>4. QED
      BY <2>2, <3>3
  <2>3. QED
    BY <2>1, <2>2
<1> HIDE DEF v
<1>5. Xfer \in Seq(Work)
  BY Queues DEF Xfer, Streams
<1>6. queue' = [queue EXCEPT !["xfer"] = queue["xfer"] \o v]
  BY <1>3 DEF Issue
<1>7. Compute' = Compute /\ Xfer' = Xfer \o v
  BY <1>6 DEF LayerTypeOK, Xfer, Compute, Streams
<1>8. /\ Xfer \o v \in Seq(Work) /\ Grown(Xfer, Xfer \o v) /\ Len(Xfer \o v) = Len(Xfer) + Len(v)
  BY <1>4, <1>5, JoinGrown
<1>9. \A i \in 1..Len(v) : (Xfer \o v)[Len(Xfer) + i] = v[i]
  BY <1>4, <1>5
<1>10. queue' \in [Streams -> Seq(Work)]
  BY <1>6, <1>8 DEF LayerTypeOK, Xfer
<1>11. Len(Xfer) \in Nat
  BY <1>5
<1>12. CASE loaded[s] >= 0
  <2>1. /\ Len(Xfer') = Len(Xfer) + 3 /\ Xfer'[Len(Xfer) + 3] = r /\ Xfer'[Len(Xfer) + 2] = c /\ Xfer'[Len(Xfer) + 1] = a
    <3>1. Len(v) = 3 /\ v[1] = a /\ v[2] = c /\ v[3] = r
      BY <1>4, <1>12
    <3>2. 1 \in 1..Len(v) /\ 2 \in 1..Len(v) /\ 3 \in 1..Len(v)
      BY <3>1
    <3>3. QED
      BY <1>7, <1>8, <1>9, <3>1, <3>2
  <2>2. QED
    BY <1>7, <1>8, <1>10, <1>11, <1>12, <2>1 DEF IssuesX, a, c, r, s
<1>13. CASE ~(loaded[s] >= 0)
  <2>1. /\ Len(Xfer') = Len(Xfer) + 2 /\ Xfer'[Len(Xfer) + 2] = r /\ Xfer'[Len(Xfer) + 1] = c
    <3>1. Len(v) = 2 /\ v[1] = c /\ v[2] = r
      BY <1>4, <1>13
    <3>2. 1 \in 1..Len(v) /\ 2 \in 1..Len(v)
      BY <3>1
    <3>3. QED
      BY <1>7, <1>8, <1>9, <3>1, <3>2
  <2>2. QED
    BY <1>7, <1>8, <1>10, <1>11, <1>13, <2>1 DEF IssuesX, a, c, r, s
<1>14. QED
  BY <1>12, <1>13

LEMMA NewX ==
    ASSUME LayerTypeOK, NEW l \in LayerIdx, IssuesX(l)
    PROVE  /\ \A i \in Idx(Xfer') : i > Len(Xfer) =>
                  \/ i = Len(Xfer') /\ Xfer'[i] = Record(Ready(pool_slot(l)))
                  \/ i = Len(Xfer') - 1 /\ Xfer'[i] = Copy(l)
                  \/ i = Len(Xfer') - 2 /\ Xfer'[i] = Await(Done(pool_slot(l)))
           /\ Len(Xfer') \in Idx(Xfer') /\ Len(Xfer') - 1 \in Idx(Xfer') /\ Len(Xfer') - 1 > Len(Xfer)
           /\ Len(Xfer') \in Nat /\ Len(Xfer) \in Nat /\ Len(Xfer') > Len(Xfer)
           /\ Xfer'[Len(Xfer')] = Record(Ready(pool_slot(l))) /\ Xfer'[Len(Xfer') - 1] = Copy(l)
           /\ loaded[pool_slot(l)] >= 0 =>
                  Len(Xfer') - 2 \in Idx(Xfer') /\ Xfer'[Len(Xfer') - 2] = Await(Done(pool_slot(l)))
           /\ Stamped(Xfer') /\ Stamped(Compute) /\ Stamped(Xfer) /\ Grown(Xfer, Xfer')
           /\ clock \in Nat /\ Compute' = Compute /\ pool_slot(l) \in Slots
<1>1. Stamped(Xfer') /\ Stamped(Compute) /\ Stamped(Xfer)
  BY Queues, QueueStamped DEF IssuesX, Xfer, Compute, Streams
<1>2. Len(Xfer') \in Nat /\ Len(Xfer) \in Nat
  BY <1>1 DEF Stamped
<1> DEFINE s == pool_slot(l)
           z == Len(Xfer')
           a == Await(Done(s))
           c == Copy(l)
           r == Record(Ready(s))
<1>3. /\ Grown(Xfer, Xfer') /\ Xfer'[z - 1] = c /\ Xfer'[z] = r /\ Compute' = Compute
      /\ IF loaded[s] >= 0 THEN z = Len(Xfer) + 3 /\ Xfer'[z - 2] = a ELSE z = Len(Xfer) + 2
  BY DEF IssuesX
<1>4. clock \in Nat /\ s \in Slots
  BY SlotOfLayer DEF LayerTypeOK
<1> HIDE DEF a, c, r, s
<1>5. \A i \in Idx(Xfer') : i > Len(Xfer) => (i = z /\ Xfer'[i] = r) \/ (i = z - 1 /\ Xfer'[i] = c) \/ (i = z - 2 /\ Xfer'[i] = a)
  BY <1>2, <1>3 DEF Idx
<1>6. z \in Idx(Xfer') /\ z - 1 \in Idx(Xfer') /\ z - 1 > Len(Xfer) /\ z > Len(Xfer)
  BY <1>2, <1>3 DEF Idx
<1>7. loaded[s] >= 0 => z - 2 \in Idx(Xfer') /\ Xfer'[z - 2] = a
  BY <1>2, <1>3 DEF Idx
<1>8. QED
  BY <1>1, <1>2, <1>3, <1>4, <1>5, <1>6, <1>7 DEF a, c, r, s

LEMMA NewIs ==
    ASSUME NEW l, NEW e
    PROVE  /\ Copy(l).k = "copy" /\ Copy(l).t = clock /\ Copy(l).slot = pool_slot(l) /\ Copy(l).l = l
           /\ Record(e).k = "record" /\ Record(e).t = clock /\ Record(e).e = e /\ Record(e).n = issued[e] + 1
           /\ Await(e).k = "wait" /\ Await(e).t = clock /\ Await(e).e = e /\ Await(e).n = issued[e]
           /\ Kernel(l).k = "run" /\ Kernel(l).t = clock /\ Kernel(l).slot = ptr[l] /\ Kernel(l).l = l
  BY DEF Copy, Record, Await, Kernel

(* Whatever a call issues to the transfer stream: waits for the reader of  *)
(* slot s0, one copy at most, and a record at the end or none.             *)
Sends(s0) ==
    /\ Ticks /\ Compute' = Compute /\ queue' \in [Streams -> Seq(Work)] /\ Grown(Xfer, Xfer')
    /\ \A i \in Idx(Xfer') : i > Len(Xfer) =>
           \/ Xfer'[i] = Await(Done(s0))
           \/ Xfer'[i].k = "copy" /\ Xfer'[i].t = clock
           \/ Xfer'[i] = Record(Ready(s0)) /\ i = Len(Xfer')
    /\ \A i, j \in Idx(Xfer') :
           Len(Xfer) < i /\ i < j /\ Xfer'[i].k = "copy" => Xfer'[j].k # "copy"
    /\ \/ /\ issued' = issued
          /\ \A i \in Idx(Xfer') : i > Len(Xfer) => Xfer'[i].k # "record"
       \/ /\ issued' = [issued EXCEPT ![Ready(s0)] = @ + 1]
          /\ Len(Xfer') > Len(Xfer) /\ Xfer'[Len(Xfer')] = Record(Ready(s0))

LEMMA SendStreams ==
    ASSUME LayerTypeOK, StreamsInOrder, NEW s0 \in Slots, Sends(s0)
    PROVE  StreamsInOrder'
<1>1. \A i \in Idx(Xfer') : i > Len(Xfer) => Xfer'[i].t = clock /\ Xfer'[i].k # "run"
  <2>1. SUFFICES ASSUME NEW i \in Idx(Xfer'), i > Len(Xfer) PROVE Xfer'[i].t = clock /\ Xfer'[i].k # "run"
    OBVIOUS
  <2>2. CASE Xfer'[i] = Await(Done(s0))
    BY <2>2, NewIs
  <2>3. CASE Xfer'[i] = Record(Ready(s0))
    BY <2>3, NewIs
  <2>4. QED
    BY <2>1, <2>2, <2>3 DEF Sends
<1>2. \A i, j \in Idx(Xfer') : Len(Xfer) < i /\ i < j /\ Xfer'[i].k = "copy" => Xfer'[j].k \notin {"copy", "run"}
  <2>1. SUFFICES ASSUME NEW i \in Idx(Xfer'), NEW j \in Idx(Xfer'), Len(Xfer) < i, i < j, Xfer'[i].k = "copy"
                 PROVE  Xfer'[j].k \notin {"copy", "run"}
    OBVIOUS
  <2>2. j > Len(Xfer)
    BY <2>1 DEF Sends, Grown, Idx
  <2>3. QED
    BY <1>1, <2>1, <2>2 DEF Sends
<1>3. Ticks /\ queue' \in [Streams -> Seq(Work)] /\ queue'["compute"] = queue["compute"] /\ Grown(Xfer, Xfer')
  BY DEF Sends, Compute
<1>4. QED
  BY <1>1, <1>2, <1>3, GrowStreams DEF Xfer, Streams

LEMMA SendEvents ==
    ASSUME LayerTypeOK, StreamsInOrder, EventsInOrder, NEW s0 \in Slots, Sends(s0)
    PROVE  EventsInOrder'
<1> DEFINE z == Len(Xfer')
<1>1. SUFFICES ASSUME NEW s \in Slots
               PROVE  /\ RecordsInOrder(Xfer', Ready(s), fired[Ready(s)], issued'[Ready(s)])
                      /\ RecordsInOrder(Compute, Done(s), fired[Done(s)], issued'[Done(s)])
                      /\ WaitsMet(Xfer', Compute, Done(s), fired[Done(s)])
                      /\ WaitsMet(Compute, Xfer', Ready(s), fired[Ready(s)])
                      /\ NoRecord(Xfer', Done(s)) /\ NoWait(Xfer', Ready(s))
                      /\ NoRecord(Compute, Ready(s)) /\ NoWait(Compute, Done(s))
  BY DEF EventsInOrder, Sends, Ticks
<1> DEFINE R == Ready(s)
           D == Done(s)
<1>g. Grown(Xfer, Xfer') /\ Stamped(Xfer') /\ Stamped(Compute) /\ Stamped(Xfer)
  BY Queues, QueueStamped DEF Sends, Xfer, Compute, Streams
<1>2. /\ RecordsInOrder(Xfer, R, fired[R], issued[R])
      /\ RecordsInOrder(Compute, D, fired[D], issued[D])
      /\ WaitsMet(Xfer, Compute, D, fired[D])
      /\ WaitsMet(Compute, Xfer, R, fired[R])
      /\ NoRecord(Xfer, D) /\ NoWait(Xfer, R)
      /\ NoRecord(Compute, R) /\ NoWait(Compute, D)
  BY DEF EventsInOrder
<1>3. /\ R \in Events /\ D \in Events /\ fired[R] \in Nat /\ issued[R] \in Nat /\ fired[D] \in Nat /\ issued[D] \in Nat
  BY SlotEvents DEF LayerTypeOK
<1>4. /\ R # Done(s0) /\ D # Ready(s0) /\ (R = Ready(s0) <=> s = s0) /\ (D = Done(s0) <=> s = s0)
  BY DEF Ready, Done
<1>6. issued'[D] = issued[D]
  BY <1>3, <1>4 DEF Sends, LayerTypeOK
<1>7. \A i \in Idx(Xfer') : i > Len(Xfer) =>
          /\ ~Records(Xfer'[i], D) /\ ~Waits(Xfer'[i], R)
          /\ Records(Xfer'[i], R) => i = z /\ s = s0 /\ issued' # issued
          /\ Waits(Xfer'[i], D) => Xfer'[i].n = issued[D] /\ Xfer'[i].t = clock
  <2>1. SUFFICES ASSUME NEW i \in Idx(Xfer'), i > Len(Xfer)
                 PROVE  /\ ~Records(Xfer'[i], D) /\ ~Waits(Xfer'[i], R)
                        /\ Records(Xfer'[i], R) => i = z /\ s = s0 /\ issued' # issued
                        /\ Waits(Xfer'[i], D) => Xfer'[i].n = issued[D] /\ Xfer'[i].t = clock
    OBVIOUS
  <2>2. CASE i = z /\ Xfer'[i] = Record(Ready(s0))
    <3>1. /\ Xfer'[i].k = "record" /\ Xfer'[i].e = Ready(s0)
      BY <2>2, NewIs
    <3>2. issued' = [issued EXCEPT ![Ready(s0)] = @ + 1]
      BY <2>1, <3>1 DEF Sends
    <3>3. issued'[Ready(s0)] # issued[Ready(s0)]
      BY <3>2, SlotEvents DEF LayerTypeOK
    <3>4. QED
      BY <1>4, <2>2, <3>1, <3>3 DEF Records, Waits
  <2>3. CASE Xfer'[i].k = "copy"
    BY <2>3 DEF Records, Waits
  <2>4. CASE Xfer'[i] = Await(Done(s0))
    <3>1. /\ Xfer'[i].k = "wait" /\ Xfer'[i].e = Done(s0) /\ Xfer'[i].n = issued[Done(s0)]
          /\ Xfer'[i].t = clock
      BY <2>4 DEF Await
    <3>2. QED
      BY <1>4, <3>1 DEF Records, Waits
  <2>5. QED
    BY <2>1, <2>2, <2>3, <2>4 DEF Sends
<1>8. NoRecord(Xfer', D) /\ NoWait(Xfer', R)
  BY <1>2, <1>7, <1>g, GrowIdx DEF NoRecord, NoWait
<1>9. WaitsMet(Compute, Xfer', R, fired[R])
  BY <1>2, <1>g, GrowMet
<1>10. WaitsMet(Xfer', Compute, D, fired[D])
  <2>1. ASSUME NEW i \in Idx(Xfer'), i > Len(Xfer), Waits(Xfer'[i], D), fired[D] < Xfer'[i].n
        PROVE  \E j \in Idx(Compute) : Records(Compute[j], D) /\ Compute[j].n = Xfer'[i].n /\ Compute[j].t < Xfer'[i].t
    <3>1. Xfer'[i].n = issued[D] /\ Xfer'[i].t = clock
      BY <1>7, <2>1
    <3>2. PICK j \in Idx(Compute) : Records(Compute[j], D) /\ Compute[j].n = issued[D]
      BY <1>2, <2>1, <3>1 DEF RecordsInOrder
    <3>3. Compute[j].t < clock
      BY DEF StreamsInOrder, IssuedBefore, Compute, Streams
    <3>4. QED
      BY <3>1, <3>2, <3>3
  <2>2. QED
    BY <1>2, <2>1, <1>g, GrowWaits
<1>11. RecordsInOrder(Xfer', R, fired[R], issued'[R])
  <2>1. CASE s = s0 /\ issued' # issued
    <3>0. /\ issued' = [issued EXCEPT ![Ready(s0)] = @ + 1]
          /\ Len(Xfer') > Len(Xfer) /\ Xfer'[z] = Record(Ready(s0))
      BY <2>1 DEF Sends
    <3>1. issued'[R] = issued[R] + 1
      BY <1>3, <2>1, <3>0 DEF LayerTypeOK
    <3>2. Records(Xfer'[z], R) /\ Xfer'[z].n = issued[R] + 1
      BY <2>1, <3>0, NewIs DEF Records
    <3>3. \A i \in Idx(Xfer') : i > Len(Xfer) /\ i < z => ~Records(Xfer'[i], R)
      BY <1>7, <1>g DEF Stamped
    <3>4. RecordsInOrder(Xfer', R, fired[R], issued[R] + 1)
      BY <1>2, <1>3, <3>0, <3>2, <3>3, <1>g, GrowRecord
    <3>5. QED
      BY <3>1, <3>4
  <2>2. CASE ~(s = s0 /\ issued' # issued)
    <3>1. issued'[R] = issued[R]
      BY <1>3, <1>4, <2>2 DEF Sends, LayerTypeOK
    <3>2. \A i \in Idx(Xfer') : i > Len(Xfer) => ~Records(Xfer'[i], R)
      BY <1>7, <2>2
    <3>3. QED
      BY <1>2, <3>1, <3>2, <1>g, GrowRecords
  <2>3. QED
    BY <2>1, <2>2
<1>12. QED
  BY <1>2, <1>6, <1>8, <1>9, <1>10, <1>11

LEMMA PrefetchSends ==
    ASSUME LayerTypeOK, NEW l \in LayerIdx, IssuesX(l),
           issued' = [issued EXCEPT ![<<"ready", pool_slot(l)>>] = @ + 1]
    PROVE  Sends(pool_slot(l))
<1> DEFINE z == Len(Xfer')
           s0 == pool_slot(l)
<1>1. \A i \in Idx(Xfer') : i > Len(Xfer) =>
          \/ Xfer'[i] = Await(Done(s0))
          \/ Xfer'[i].k = "copy" /\ Xfer'[i].t = clock
          \/ Xfer'[i] = Record(Ready(s0)) /\ i = z
  BY NewX, NewIs
<1>2. \A i \in Idx(Xfer') : i > Len(Xfer) /\ Xfer'[i].k = "copy" => i = z - 1
  <2>1. \A i \in Idx(Xfer') : Xfer'[i] = Await(Done(s0)) \/ Xfer'[i] = Record(Ready(s0)) => Xfer'[i].k # "copy"
    BY NewIs
  <2>2. QED
    BY <2>1, NewX
<1>3. \A i, j \in Idx(Xfer') : Len(Xfer) < i /\ i < j /\ Xfer'[i].k = "copy" => Xfer'[j].k # "copy"
  <2>1. SUFFICES ASSUME NEW i \in Idx(Xfer'), NEW j \in Idx(Xfer'), Len(Xfer) < i, i < j,
                        Xfer'[i].k = "copy", Xfer'[j].k = "copy"
                 PROVE  FALSE
    OBVIOUS
  <2>2. j > Len(Xfer) /\ i \in Nat /\ j \in Nat
    BY <2>1, NewX DEF Idx
  <2>3. QED
    BY <1>2, <2>1, <2>2
<1>4. Ticks /\ Compute' = Compute /\ queue' \in [Streams -> Seq(Work)] /\ Grown(Xfer, Xfer')
  BY DEF IssuesX
<1>5. /\ issued' = [issued EXCEPT ![Ready(s0)] = @ + 1]
      /\ Len(Xfer') > Len(Xfer) /\ Xfer'[z] = Record(Ready(s0))
  BY NewX DEF Ready
<1>6. QED
  BY <1>1, <1>3, <1>4, <1>5 DEF Sends

LEMMA NewCopies ==
    ASSUME LayerTypeOK, NEW l \in LayerIdx, IssuesX(l), NEW i \in Idx(Xfer'), i > Len(Xfer), NEW s
    PROVE  /\ Xfer'[i].t = clock
           /\ Touches(Xfer'[i], s) => s = pool_slot(l) /\ i = Len(Xfer') - 1
           /\ Copies(Xfer'[i], s) => s = pool_slot(l) /\ i = Len(Xfer') - 1
<1>1. CASE Xfer'[i] = Record(Ready(pool_slot(l)))
  BY <1>1 DEF Record, Touches, Copies
<1>2. CASE i = Len(Xfer') - 1 /\ Xfer'[i] = Copy(l)
  BY <1>2 DEF Copy, Touches, Copies
<1>3. CASE Xfer'[i] = Await(Done(pool_slot(l)))
  BY <1>3 DEF Await, Touches, Copies
<1>4. QED
  BY <1>1, <1>2, <1>3, NewX

LEMMA SlotsX ==
    ASSUME LayerTypeOK, StreamsInOrder, EventsInOrder, SlotsGuarded, NEW l \in LayerIdx, IssuesX(l),
           LET s == pool_slot(l) IN IF loaded[s] >= 0 THEN ReadersRecorded(Compute, s) ELSE Untouched(Compute, s)
    PROVE  SlotsGuarded'
<1> DEFINE z == Len(Xfer')
<1>1. SUFFICES ASSUME NEW s \in Slots PROVE Guarded(Compute, Xfer', s)
  BY NewX DEF SlotsGuarded
<1>2. Guarded(Compute, Xfer, s)
  BY DEF SlotsGuarded
<1>3. ASSUME NEW i \in Idx(Compute), NEW j \in Idx(Xfer'), j > Len(Xfer), Touches(Compute[i], s), Copies(Xfer'[j], s)
      PROVE  Compute[i].t < Xfer'[j].t /\ Behind(Xfer', j, Compute, i, Done(s))
  <2>1. s = pool_slot(l) /\ j = z - 1 /\ Xfer'[j].t = clock
    BY <1>3, NewCopies
  <2>2. Compute[i].t < clock
    BY DEF StreamsInOrder, IssuedBefore, Compute, Streams
  <2>3. loaded[s] >= 0
    BY <1>3, <2>1 DEF Untouched
  <2>4. PICK a \in Idx(Compute) : i < a /\ Records(Compute[a], Done(s))
    BY <1>3, <2>1, <2>3 DEF ReadersRecorded
  <2>5. Compute[a].n <= issued[Done(s)]
    BY <2>4 DEF EventsInOrder, RecordsInOrder
  <2>6. z - 2 \in Idx(Xfer') /\ Xfer'[z - 2] = Await(Done(s)) /\ z - 2 < j
    BY <2>1, <2>3, NewX
  <2>7. Waits(Xfer'[z - 2], Done(s)) /\ Xfer'[z - 2].n = issued[Done(s)]
    BY <2>6 DEF Await, Waits
  <2>8. Behind(Xfer', j, Compute, i, Done(s))
    BY <2>4, <2>5, <2>6, <2>7 DEF Behind
  <2>9. QED
    BY <2>1, <2>2, <2>8
<1>4. QED
  BY <1>2, <1>3, NewX, GrowGuardedX

LEMMA HoldX ==
    ASSUME LayerTypeOK, NEW l0 \in LayerIdx, IssuesX(l0), NEW s, NEW l, NEW n \in Nat, n <= clock, WillHold(s, l, n)
    PROVE  Holds(Xfer', Compute', content'[s], s, l, n)
<1>1. Holds(Xfer, Compute, content[s], s, l, n)
  BY DEF WillHold
<1>2. \A i \in Idx(Xfer') : i > Len(Xfer) => Xfer'[i].t >= n
  BY NewCopies, NewX
<1>3. Holds(Xfer', Compute, content[s], s, l, n)
  BY <1>1, <1>2, NewX, GrowHolds
<1>4. content' = content /\ Compute' = Compute
  BY DEF IssuesX, Ticks
<1>5. QED
  BY <1>3, <1>4

LEMMA KernelsX ==
    ASSUME LayerTypeOK, StreamsInOrder, KernelsFed, NEW l \in LayerIdx, IssuesX(l)
    PROVE  KernelsFed'
<1>1. pool' = pool /\ Compute' = Compute
  BY DEF IssuesX, Ticks
<1>2. SUFFICES ASSUME NEW i \in Idx(Compute), Compute[i].k = "run", Streamed(Compute[i].l)
               PROVE  /\ Compute[i].slot \in Slots
                      /\ Holds(Xfer', Compute', content'[Compute[i].slot], Compute[i].slot, Compute[i].l, Compute[i].t)
  BY <1>1 DEF KernelsFed, WillHold, Streamed
<1> DEFINE v == Compute[i]
<1>3. v.slot \in Slots /\ WillHold(v.slot, v.l, v.t)
  BY <1>2 DEF KernelsFed
<1>4. v.t \in Nat /\ v.t < clock /\ clock \in Nat
  BY Queues, WorkFields DEF StreamsInOrder, IssuedBefore, LayerTypeOK, Compute, Streams
<1>5. QED
  BY <1>3, <1>4, HoldX

LEMMA RecordedX ==
    ASSUME LayerTypeOK, CopiesRecorded, NEW l \in LayerIdx, IssuesX(l)
    PROVE  CopiesRecorded'
<1> DEFINE z == Len(Xfer')
<1>1. SUFFICES ASSUME NEW s \in Slots, NEW j \in Idx(Xfer'), Copies(Xfer'[j], s)
               PROVE  \E b \in Idx(Xfer') : j < b /\ Records(Xfer'[b], Ready(s))
  BY DEF CopiesRecorded, Recorded
<1>2. CASE j \in Idx(Xfer)
  <2>1. Xfer'[j] = Xfer[j]
    BY <1>2, NewX, GrowIdx
  <2>2. PICK b \in Idx(Xfer) : j < b /\ Records(Xfer[b], Ready(s))
    BY <1>1, <1>2, <2>1 DEF CopiesRecorded, Recorded
  <2>3. b \in Idx(Xfer') /\ Xfer'[b] = Xfer[b]
    BY NewX, GrowIdx
  <2>4. QED
    BY <2>2, <2>3
<1>3. CASE j > Len(Xfer)
  <2>1. s = pool_slot(l) /\ j = z - 1
    BY <1>1, <1>3, NewCopies
  <2>2. Records(Xfer'[z], Ready(s)) /\ z \in Idx(Xfer') /\ j < z
    <3>1. Xfer'[z] = Record(Ready(s)) /\ z \in Idx(Xfer') /\ z \in Nat
      BY <2>1, NewX
    <3>2. Records(Record(Ready(s)), Ready(s))
      BY DEF Record, Records
    <3>3. QED
      BY <2>1, <3>1, <3>2
  <2>3. QED
    BY <2>2
<1>4. QED
  BY <1>2, <1>3, NewX, GrowIdx

(* The slot that is staged holds its layer at the next call; the other one *)
(* what it did.                                                            *)
LEMMA StagedX ==
    ASSUME LayerTypeOK, StreamsInOrder, LoadedComes, PointersMatchSlots, NEW l \in LayerIdx, Streamed(l),
           Stage(l), IssuesX(l), issued' = [issued EXCEPT ![<<"ready", pool_slot(l)>>] = @ + 1]
    PROVE  LoadedComes'
<1> DEFINE z == pool_slot(l)
<1>1. pool' = pool /\ clock' = clock + 1 /\ clock \in Nat /\ Compute' = Compute
  BY DEF IssuesX, Ticks, LayerTypeOK
<1>2. /\ loaded'[z] = l /\ ~doneValid'[z]
      /\ \A s \in Slots : s # z => loaded'[s] = loaded[s] /\ doneValid'[s] = doneValid[s]
      /\ \A s \in Slots : loaded'[s] # -1 => pool_slot(loaded'[s]) = s /\ Streamed(loaded'[s]) /\ ptr'[loaded'[s]] = s
  BY <1>1, StageKeeps
<1>3. l # -1
  BY LayersAssumption DEF LayerIdx
<1>4. IssuedBefore(Xfer', clock + 1) /\ IssuedBefore(Compute', clock + 1)
  <2>1. StreamsInOrder'
    BY PrefetchSends, SendStreams, SlotOfLayer
  <2>2. QED
    BY <1>1, <2>1 DEF StreamsInOrder, Xfer, Compute, Streams
<1>5. Stamped(Xfer') /\ Stamped(Compute')
  BY <1>1, NewX
<1>6. ASSUME NEW s \in Slots, loaded'[s] = -1
      PROVE  ~doneValid'[s] /\ Untouched(Xfer', s) /\ Untouched(Compute', s)
  <2>1. s # z
    BY <1>2, <1>3, <1>6
  <2>2. loaded[s] = -1 /\ doneValid'[s] = doneValid[s]
    BY <1>2, <1>6, <2>1
  <2>3. ~doneValid[s] /\ Untouched(Xfer, s) /\ Untouched(Compute, s)
    BY <2>2 DEF LoadedComes
  <2>4. Untouched(Xfer', s)
    BY <2>1, <2>3, NewX, NewCopies, GrowIdx DEF Untouched
  <2>5. QED
    BY <1>1, <2>2, <2>3, <2>4
<1>7. ASSUME NEW s \in Slots, loaded'[s] # -1
      PROVE  Holds(Xfer', Compute', content'[s], s, loaded'[s], clock + 1)
  <2>1. CASE s = z
    <3> DEFINE k == Len(Xfer') - 1
    <3>1. k \in Idx(Xfer') /\ Xfer'[k] = Copy(l)
      BY NewX
    <3>2. Copies(Xfer'[k], z) /\ Xfer'[k].l = l /\ Xfer'[k].t = clock
      BY <3>1 DEF Copy, Copies
    <3> HIDE DEF k
    <3>3. Holds(Xfer', Compute', content'[z], z, l, clock + 1)
      BY <1>1, <1>4, <1>5, <3>1, <3>2, CopyHolds
    <3>4. QED
      BY <1>2, <2>1, <3>3
  <2>2. CASE s # z
    <3>1. loaded'[s] = loaded[s] /\ WillHold(s, loaded[s], clock)
      BY <1>2, <1>7, <2>2 DEF LoadedComes
    <3>2. Holds(Xfer', Compute', content'[s], s, loaded[s], clock)
      BY <1>1, <3>1, HoldX
    <3>3. \A i \in Idx(Xfer') : Copies(Xfer'[i], s) => Xfer'[i].t < clock
      <4>1. \A i \in Idx(Xfer) : Xfer[i].t < clock
        BY DEF StreamsInOrder, IssuedBefore, Xfer, Streams
      <4>2. QED
        BY <2>2, <4>1, NewX, NewCopies, GrowIdx, ZenonT(60)
    <3>4. \A i \in Idx(Compute') : Compute'[i].t < clock
      BY <1>1 DEF StreamsInOrder, IssuedBefore, Compute, Streams
    <3>5. Holds(Xfer', Compute', content'[s], s, loaded[s], clock + 1)
      BY <1>1, <1>5, <3>2, <3>3, <3>4, LaterHolds
    <3>6. QED
      BY <3>1, <3>5
  <2>3. QED
    BY <2>1, <2>2
<1>8. QED
  BY <1>1, <1>2, <1>6, <1>7 DEF LoadedComes, WillHold, pool_slot, Streamed

LEMMA StagedC ==
    ASSUME LayerTypeOK, StreamsInOrder, LoadedComes, PointersMatchSlots, NEW l \in LayerIdx, Streamed(l),
           Stage(l), IssuesC(Copy(l))
    PROVE  LoadedComes'
<1> DEFINE z == pool_slot(l)
           w == Copy(l)
<1>1. pool' = pool /\ clock' = clock + 1 /\ clock \in Nat /\ Xfer' = Xfer
  BY DEF IssuesC, Ticks, LayerTypeOK
<1>2. /\ loaded'[z] = l /\ ~doneValid'[z]
      /\ \A s \in Slots : s # z => loaded'[s] = loaded[s] /\ doneValid'[s] = doneValid[s]
      /\ \A s \in Slots : loaded'[s] # -1 => pool_slot(loaded'[s]) = s /\ Streamed(loaded'[s]) /\ ptr'[loaded'[s]] = s
  BY <1>1, StageKeeps
<1>3. l # -1
  BY LayersAssumption DEF LayerIdx
<1>4. IssuedBefore(Xfer', clock + 1) /\ IssuedBefore(Compute', clock + 1)
  <2>1. StreamsInOrder'
    BY StreamsC
  <2>2. QED
    BY <1>1, <2>1 DEF StreamsInOrder, Xfer, Compute, Streams
<1>w. \A s : (Touches(w, s) => s = z) /\ (Copies(w, s) => s = z)
  BY DEF Copy, Touches, Copies
<1>5. Stamped(Xfer') /\ Stamped(Compute')
  BY <1>1, NewC
<1>6. ASSUME NEW s \in Slots, loaded'[s] = -1
      PROVE  ~doneValid'[s] /\ Untouched(Xfer', s) /\ Untouched(Compute', s)
  <2>1. s # z
    BY <1>2, <1>3, <1>6
  <2>2. loaded[s] = -1 /\ doneValid'[s] = doneValid[s]
    BY <1>2, <1>6, <2>1
  <2>3. ~doneValid[s] /\ Untouched(Xfer, s) /\ Untouched(Compute, s)
    BY <2>2 DEF LoadedComes
  <2>4. ~Touches(w, s)
    BY <1>w, <2>1
  <2> HIDE DEF w
  <2>5. Untouched(Compute', s)
    BY <2>3, <2>4, NewC, GrowIdx DEF Untouched, w
  <2>6. QED
    BY <1>1, <2>2, <2>3, <2>5
<1>7. ASSUME NEW s \in Slots, loaded'[s] # -1
      PROVE  Holds(Xfer', Compute', content'[s], s, loaded'[s], clock + 1)
  <2>1. CASE s = z
    <3> DEFINE k == Len(Compute')
    <3>1. k \in Idx(Compute') /\ Compute'[k] = Copy(l)
      BY NewC DEF IssuesC
    <3>2. Copies(Compute'[k], z) /\ Compute'[k].l = l /\ Compute'[k].t = clock
      BY <3>1 DEF Copy, Copies
    <3> HIDE DEF k
    <3>3. Holds(Compute', Xfer', content'[z], z, l, clock + 1)
      BY <1>1, <1>4, <1>5, <3>1, <3>2, CopyHolds
    <3>4. QED
      BY <1>2, <2>1, <3>3, HoldsEither
  <2>2. CASE s # z
    <3>1. loaded'[s] = loaded[s] /\ WillHold(s, loaded[s], clock)
      BY <1>2, <1>7, <2>2 DEF LoadedComes
    <3>2. Holds(Xfer', Compute', content'[s], s, loaded[s], clock)
      BY <1>1, <3>1, HoldC
    <3>3. \A i \in Idx(Compute') : Copies(Compute'[i], s) => Compute'[i].t < clock
      <4>1. \A i \in Idx(Compute) : Compute[i].t < clock
        BY DEF StreamsInOrder, IssuedBefore, Compute, Streams
      <4>2. ~Copies(w, s)
        BY <1>w, <2>2
      <4> HIDE DEF w
      <4>3. QED
        BY <4>1, <4>2, NewC, GrowIdx DEF w
    <3>4. \A i \in Idx(Xfer') : Xfer'[i].t < clock
      BY <1>1 DEF StreamsInOrder, IssuedBefore, Xfer, Streams
    <3>5. Holds(Xfer', Compute', content'[s], s, loaded[s], clock + 1)
      BY <1>1, <1>5, <3>2, <3>3, <3>4, LaterHolds
    <3>6. QED
      BY <3>1, <3>5
  <2>3. QED
    BY <2>1, <2>2
<1>8. QED
  BY <1>1, <1>2, <1>6, <1>7 DEF LoadedComes, WillHold, pool_slot, Streamed

(* What a host step keeps whatever it issues: the streams and the slots.   *)
QueuesInv ==
    /\ StreamsInOrder /\ EventsInOrder /\ SlotsGuarded /\ KernelsFed /\ LoadedComes
    /\ PointersMatchSlots /\ CopiesRecorded

HostTypes ==
    /\ pass \in Nat /\ at \in {"begin", "wait", "ahead", "run", "done", "failed"} /\ layer \in LayerIdx

LEMMA NothingIssued ==
    ASSUME LayerTypeOK, QueuesInv, Ticks, NoStage
    PROVE  QueuesInv'
<1>1. /\ pool' = pool /\ content' = content /\ fired' = fired /\ clock' = clock + 1 /\ clock \in Nat
      /\ queue' = queue /\ ptr' = ptr /\ loaded' = loaded /\ doneValid' = doneValid /\ issued' = issued
      /\ busy' = busy /\ Xfer' = Xfer /\ Compute' = Compute
  BY DEF Ticks, NoStage, LayerTypeOK, Xfer, Compute
<1>2. StreamsInOrder'
  <2>1. \A t \in Streams : InOrder(queue[t]) /\ IssuedBefore(queue[t], clock) /\ Stamped(queue[t])
    BY Queues DEF QueuesInv, StreamsInOrder
  <2>2. \A t \in Streams : IssuedBefore(queue[t], clock + 1)
    BY <1>1, <2>1 DEF IssuedBefore, Stamped, Idx
  <2>3. QED
    BY <1>1, <2>1, <2>2 DEF QueuesInv, StreamsInOrder
<1>3. EventsInOrder' /\ SlotsGuarded' /\ CopiesRecorded'
  BY <1>1 DEF QueuesInv, EventsInOrder, SlotsGuarded, CopiesRecorded
<1>4. KernelsFed'
  BY <1>1 DEF QueuesInv, KernelsFed, WillHold, Streamed
<1>5. PointersMatchSlots'
  BY <1>1 DEF QueuesInv, PointersMatchSlots, Streamed
<1>6. LoadedComes'
  <2>1. ASSUME NEW s \in Slots, loaded[s] # -1
        PROVE  Holds(Xfer, Compute, content[s], s, loaded[s], clock + 1)
    <3>1. Holds(Xfer, Compute, content[s], s, loaded[s], clock)
      BY <2>1 DEF QueuesInv, LoadedComes, WillHold
    <3>2. /\ Stamped(Xfer) /\ Stamped(Compute)
          /\ \A i \in Idx(Xfer) : Xfer[i].t < clock
          /\ \A i \in Idx(Compute) : Compute[i].t < clock
      BY Queues DEF QueuesInv, StreamsInOrder, IssuedBefore, Xfer, Compute, Streams
    <3>3. QED
      BY <1>1, <3>1, <3>2, LaterHolds
  <2>2. QED
    BY <1>1, <2>1 DEF QueuesInv, LoadedComes, WillHold, pool_slot, Streamed
<1>7. QED
  BY <1>2, <1>3, <1>4, <1>5, <1>6 DEF QueuesInv

LEMMA PrefetchIssued ==
    ASSUME LayerTypeOK, QueuesInv, DoneRecorded, Ticks, NEW l \in LayerIdx, Streamed(l), Stage(l), IssuesX(l),
           issued' = [issued EXCEPT ![<<"ready", pool_slot(l)>>] = @ + 1],
           loaded[pool_slot(l)] >= 0 => doneValid[pool_slot(l)] /\ ~InUse(pool_slot(l))
    PROVE  QueuesInv'
<1>1. /\ StreamsInOrder /\ EventsInOrder /\ SlotsGuarded /\ KernelsFed /\ LoadedComes
      /\ PointersMatchSlots /\ CopiesRecorded
  BY DEF QueuesInv
<1>s. Sends(pool_slot(l)) /\ pool_slot(l) \in Slots
  BY PrefetchSends, SlotOfLayer
<1>2. StreamsInOrder' /\ EventsInOrder' /\ KernelsFed' /\ CopiesRecorded' /\ LoadedComes'
  BY <1>1, <1>s, SendStreams, SendEvents, KernelsX, RecordedX, StagedX
<1>3. SlotsGuarded'
  <2> DEFINE s == pool_slot(l)
  <2>1. s \in Slots
    BY SlotOfLayer
  <2>2. loaded[s] >= 0 => ReadersRecorded(Compute, s)
    BY <2>1 DEF DoneRecorded
  <2>3. ~(loaded[s] >= 0) => loaded[s] = -1
    BY <2>1, LayersAssumption DEF LayerTypeOK, LayerIdx
  <2>4. ~(loaded[s] >= 0) => Untouched(Compute, s)
    BY <1>1, <2>1, <2>3 DEF LoadedComes
  <2>5. QED
    BY <1>1, <2>2, <2>4, SlotsX
<1>4. PointersMatchSlots'
  BY <1>1, StageKeeps DEF Ticks
<1>5. QED
  BY <1>2, <1>3, <1>4 DEF QueuesInv

LEMMA RecordedC ==
    ASSUME CopiesRecorded, Xfer' = Xfer
    PROVE  CopiesRecorded'
  BY DEF CopiesRecorded

LEMMA CopyIssued ==
    ASSUME LayerTypeOK, QueuesInv, Ticks, NEW l \in LayerIdx, Streamed(l), Stage(l), IssuesC(Copy(l)),
           issued' = issued, Awaited(Compute, Xfer, pool_slot(l))
    PROVE  QueuesInv'
<1>1. /\ StreamsInOrder /\ EventsInOrder /\ SlotsGuarded /\ KernelsFed /\ LoadedComes
      /\ PointersMatchSlots /\ CopiesRecorded /\ Xfer' = Xfer
  BY DEF QueuesInv, IssuesC
<1>2. Copy(l).k = "copy" /\ \A s \in Slots : Touches(Copy(l), s) => s = pool_slot(l)
  BY DEF Copy, Touches
<1>3. pool_slot(l) \in Slots
  BY SlotOfLayer
<1>4. StreamsInOrder' /\ LoadedComes' /\ CopiesRecorded'
  BY <1>1, StreamsC, StagedC, RecordedC
<1>5. EventsInOrder'
  BY <1>1, <1>2, <1>3, EventsC
<1>6. SlotsGuarded' /\ KernelsFed'
  BY <1>1, <1>2, SlotsC, KernelsC
<1>7. PointersMatchSlots'
  BY <1>1, StageKeeps DEF Ticks
<1>8. QED
  BY <1>4, <1>5, <1>6, <1>7 DEF QueuesInv

(* A wait, a kernel or a record.                                           *)
LEMMA WorkIssued ==
    ASSUME LayerTypeOK, QueuesInv, NEW w, IssuesC(w), w.k # "copy", NEW s0 \in Slots,
           w.k = "record" => w = Record(Done(s0)) /\ issued' = [issued EXCEPT ![Done(s0)] = @ + 1],
           w.k # "record" => issued' = issued,
           w.k = "wait" => w = Await(Ready(s0)),
           w.k = "run" /\ Streamed(w.l) => w.slot \in Slots /\ WillHold(w.slot, w.l, clock),
           \A s \in Slots : Touches(w, s) => loaded[s] # -1 /\ Awaited(Compute, Xfer, s),
           loaded' = loaded, ptr' = ptr,
           \A s \in Slots : loaded[s] = -1 => ~doneValid'[s]
    PROVE  QueuesInv'
<1>1. /\ StreamsInOrder /\ EventsInOrder /\ SlotsGuarded /\ KernelsFed /\ LoadedComes
      /\ PointersMatchSlots /\ CopiesRecorded /\ Xfer' = Xfer /\ pool' = pool
  BY DEF QueuesInv, IssuesC, Ticks
<1>2. StreamsInOrder' /\ CopiesRecorded'
  BY <1>1, StreamsC, RecordedC
<1>3. EventsInOrder'
  BY <1>1, EventsC
<1>4. SlotsGuarded' /\ KernelsFed'
  BY <1>1, SlotsC, KernelsC
<1>5. LoadedComes'
  BY <1>1, UnstagedC
<1>6. PointersMatchSlots'
  BY <1>1 DEF PointersMatchSlots, Streamed
<1>7. QED
  BY <1>2, <1>3, <1>4, <1>5, <1>6 DEF QueuesInv

-----------------------------------------------------------------------------
(* Waits that were issued stay ahead of what is issued next, and records   *)
(* behind the readers there are.                                           *)
LEMMA AwaitedC ==
    ASSUME LayerTypeOK, NEW w, IssuesC(w), NEW s, Awaited(Compute, Xfer, s)
    PROVE  Awaited(Compute', Xfer', s)
<1>1. SUFFICES ASSUME NEW j \in Idx(Xfer), Copies(Xfer[j], s) PROVE Behind(Compute', Len(Compute') + 1, Xfer, j, Ready(s))
  BY NewC DEF Awaited
<1>2. Behind(Compute, Len(Compute) + 1, Xfer, j, Ready(s))
  BY <1>1 DEF Awaited
<1>3. PICK a \in Idx(Compute), b \in Idx(Xfer) :
         j < b /\ Waits(Compute[a], Ready(s)) /\ Records(Xfer[b], Ready(s)) /\ Xfer[b].n <= Compute[a].n
  BY <1>2 DEF Behind
<1>4. a \in Idx(Compute') /\ Compute'[a] = Compute[a] /\ a < Len(Compute') + 1
  BY NewC, GrowIdx
<1>5. QED
  BY <1>3, <1>4 DEF Behind

LEMMA AwaitedX ==
    ASSUME LayerTypeOK, NEW l \in LayerIdx, IssuesX(l), NEW s, s # pool_slot(l), Awaited(Compute, Xfer, s)
    PROVE  Awaited(Compute', Xfer', s)
<1>1. SUFFICES ASSUME NEW j \in Idx(Xfer'), Copies(Xfer'[j], s) PROVE Behind(Compute, Len(Compute) + 1, Xfer', j, Ready(s))
  BY NewX DEF Awaited
<1>2. j \in Idx(Xfer) /\ Xfer'[j] = Xfer[j]
  BY <1>1, NewX, NewCopies, GrowIdx
<1>3. Behind(Compute, Len(Compute) + 1, Xfer, j, Ready(s))
  BY <1>1, <1>2 DEF Awaited
<1>4. Grown(Xfer, Xfer')
  BY NewX
<1>5. QED
  BY <1>3, <1>4, GrowBehind

LEMMA ReadersC ==
    ASSUME LayerTypeOK, NEW w, IssuesC(w), NEW s,
           \/ ReadersRecorded(Compute, s) /\ ~Touches(w, s)
           \/ Records(w, Done(s))
    PROVE  ReadersRecorded(Compute', s)
<1> DEFINE z == Len(Compute')
<1>1. SUFFICES ASSUME NEW i \in Idx(Compute'), Touches(Compute'[i], s)
               PROVE  \E a \in Idx(Compute') : i < a /\ Records(Compute'[a], Done(s))
  BY DEF ReadersRecorded
<1>2. \A i1 \in Idx(Compute) : i1 \in Idx(Compute') /\ Compute'[i1] = Compute[i1] /\ i1 < z
  BY NewC, GrowIdx
<1>3. ~Touches(w, s)
  BY DEF Touches, Records
<1>4. i \in Idx(Compute) /\ Compute'[i] = Compute[i]
  BY <1>1, <1>2, <1>3, NewC, GrowIdx
<1>5. CASE Records(w, Done(s))
  <2>1. z \in Idx(Compute') /\ Records(Compute'[z], Done(s)) /\ i < z
    BY <1>2, <1>4, <1>5, NewC
  <2>2. QED
    BY <2>1
<1>6. CASE ReadersRecorded(Compute, s)
  <2>1. PICK a \in Idx(Compute) : i < a /\ Records(Compute[a], Done(s))
    BY <1>1, <1>4, <1>6 DEF ReadersRecorded
  <2>2. a \in Idx(Compute') /\ Compute'[a] = Compute[a]
    BY <1>2
  <2>3. QED
    BY <2>1, <2>2
<1>7. QED
  BY <1>5, <1>6

(* The wait for the last record of a slot is behind none of its copies.    *)
LEMMA WaitAwaits ==
    ASSUME LayerTypeOK, EventsInOrder, CopiesRecorded, NEW s \in Slots, IssuesC(Await(Ready(s)))
    PROVE  Awaited(Compute', Xfer', s)
<1> DEFINE z == Len(Compute')
           w == Await(Ready(s))
<1>1. SUFFICES ASSUME NEW j \in Idx(Xfer), Copies(Xfer[j], s) PROVE Behind(Compute', z + 1, Xfer, j, Ready(s))
  BY NewC DEF Awaited
<1>2. PICK b \in Idx(Xfer) : j < b /\ Records(Xfer[b], Ready(s))
  BY <1>1 DEF CopiesRecorded, Recorded
<1>3. Xfer[b].n <= issued[Ready(s)]
  BY <1>2 DEF EventsInOrder, RecordsInOrder
<1>4. Waits(w, Ready(s)) /\ w.n = issued[Ready(s)]
  BY DEF Await, Waits
<1>5. z \in Idx(Compute') /\ Compute'[z] = w /\ z < z + 1
  BY NewC DEF IssuesC
<1> HIDE DEF w, z
<1>6. QED
  BY <1>2, <1>3, <1>4, <1>5 DEF Behind

LEMMA RestTicks ==
    ASSUME Rest
    PROVE  Ticks
  BY DEF Rest, Ticks, devVars

LEMMA OneSlot ==
    ASSUME LayerTypeOK, pool.bufs = 1, NEW l
    PROVE  pool_slot(l) = 0 /\ 0 \in Slots
  BY DEF pool_slot, Slots

LEMMA NextSlotDiffers ==
    ASSUME LayerTypeOK, pool.bufs # 1, NEW l \in LayerIdx
    PROVE  pool_slot(l + 1) # pool_slot(l)
<1>1. pool.bufs = 2 /\ l \in Nat
  BY LayersAssumption DEF LayerTypeOK, Pools, LayerIdx
<1>2. (l + 1) % 2 # l % 2
  BY <1>1
<1>3. QED
  BY <1>1, <1>2 DEF pool_slot

(* No call to the device fails in this step.                               *)
AllSucceed == faults \in Nat /\ faults' = faults

LEMMA NoneFails ==
    ASSUME AllSucceed
    PROVE  ~Fault
  BY DEF AllSucceed, Fault

(* vv_layer_prefetch_begin stages the layer or does nothing.               *)
Prefetched(l) ==
    /\ l \in LayerIdx /\ Streamed(l) /\ loaded[pool_slot(l)] # l
    /\ loaded[pool_slot(l)] >= 0 => doneValid[pool_slot(l)]
    /\ Stage(l) /\ IssuesX(l)
    /\ issued' = [issued EXCEPT ![<<"ready", pool_slot(l)>>] = @ + 1]

LEMMA PrefetchCases ==
    ASSUME LayerTypeOK, PointersMatchSlots, AllSucceed, Ticks, NEW l, vv_layer_prefetch_begin(l)
    PROVE  NoStage \/ Prefetched(l)
<1> DEFINE s == pool_slot(l)
           skip == \/ l \notin LayerIdx \/ ~pool.prefetch \/ ~Streamed(l)
                   \/ loaded[s] = l \/ (loaded[s] >= 0 /\ ~doneValid[s])
<1>1. CASE skip
  BY <1>1, Zenon DEF vv_layer_prefetch_begin
<1>2. CASE ~skip
  <2>1. l \in LayerIdx /\ Streamed(l) /\ loaded[s] # l /\ (loaded[s] >= 0 => doneValid[s])
    BY <1>2, Zenon
  <2>f. ~PrefetchFails(l)
    BY NoneFails, Zenon DEF PrefetchFails, StageFails
  <2>2. /\ Stage(l)
        /\ Issue("xfer", (IF loaded[s] >= 0 THEN <<Await(<<"done", s>>)>> ELSE << >>)
                         \o <<Copy(l), Record(<<"ready", s>>)>>)
        /\ issued' = [issued EXCEPT ![<<"ready", s>>] = @ + 1]
    <3>1. /\ Stage(l)
          /\ Issue("xfer", AfterReader(s) \o <<StageCopy(l), Record(<<"ready", s>>)>>)
          /\ issued' = [issued EXCEPT ![<<"ready", s>>] = @ + 1]
      BY <1>2, <2>f, Zenon DEF vv_layer_prefetch_begin
    <3>2. StageCopy(l) = Copy(l)
      BY <2>1, WholeCopy
    <3>3. AfterReader(s) = IF loaded[s] >= 0 THEN <<Await(<<"done", s>>)>> ELSE << >>
      BY DEF AfterReader
    <3>4. QED
      BY <3>1, <3>2, <3>3, Zenon
  <2>3. IssuesX(l)
    BY <2>1, <2>2, IssueX
  <2>4. QED
    BY <2>1, <2>2, <2>3 DEF Prefetched
<1>3. QED
  BY <1>1, <1>2

LEMMA NoStageTypes ==
    ASSUME LayerTypeOK, Ticks, NoStage, HostTypes'
    PROVE  LayerTypeOK'
  BY DEF LayerTypeOK, Ticks, NoStage, HostTypes, Pools

LEMMA StagedTypes ==
    ASSUME LayerTypeOK, LoadedComes, PointersMatchSlots, Ticks, NEW l \in LayerIdx, Streamed(l), Stage(l),
           queue' \in [Streams -> Seq(Work)], issued' \in [Events -> Nat], HostTypes'
    PROVE  LayerTypeOK'
<1>1. /\ loaded' \in [Slots -> LayerIdx \cup {-1}] /\ doneValid' \in [Slots -> BOOLEAN]
      /\ ptr' \in [LayerIdx -> Slots \cup {-1, Mixed}]
  BY StageKeeps DEF Ticks
<1>2. /\ pool' \in Pools /\ busy' \in [Streams -> BOOLEAN] /\ content' \in [Slots -> LayerIdx \cup {-1, HalfCopied}]
      /\ fired' \in [Events -> Nat] /\ clock' \in Nat
  BY DEF LayerTypeOK, Ticks, Pools
<1>3. QED
  BY <1>1, <1>2 DEF LayerTypeOK, HostTypes

LEMMA PrefetchTypes ==
    ASSUME LayerTypeOK, LoadedComes, PointersMatchSlots, Ticks, NEW l, NoStage \/ Prefetched(l), HostTypes'
    PROVE  LayerTypeOK'
<1>1. CASE NoStage
  BY <1>1, NoStageTypes
<1>2. CASE Prefetched(l)
  <2>1. l \in LayerIdx /\ Streamed(l) /\ Stage(l) /\ IssuesX(l)
    BY <1>2 DEF Prefetched
  <2>2. queue' \in [Streams -> Seq(Work)]
    BY <2>1 DEF IssuesX
  <2>3. issued' \in [Events -> Nat]
    <3>1. Ready(pool_slot(l)) \in Events /\ issued' = [issued EXCEPT ![Ready(pool_slot(l))] = @ + 1]
      BY <1>2, <2>1, SlotOfLayer, SlotEvents DEF Prefetched, Ready
    <3>2. QED
      BY <3>1 DEF LayerTypeOK
  <2>4. QED
    BY <2>1, <2>2, <2>3, StagedTypes
<1>3. QED
  BY <1>1, <1>2

(* Between the calls for a layer nothing is in use, and what was prefetched*)
(* has been waited for: a prefetch keeps the streams in order, and leaves  *)
(* only its own copy to be waited for.                                     *)
LEMMA PrefetchKeeps ==
    ASSUME LayersInv, Ticks, at \in {"begin", "ahead"}, NEW l, NoStage \/ Prefetched(l)
    PROVE  /\ QueuesInv'
           /\ \A s \in Slots : (NoStage \/ s # pool_slot(l)) => Awaited(Compute', Xfer', s)
           /\ \A s \in Slots : doneValid'[s] => ReadersRecorded(Compute', s)
<1>1. LayerTypeOK /\ QueuesInv /\ CopiesAwaited /\ DoneRecorded
  BY DEF LayersInv, QueuesInv
<1>2. \A s \in Slots : ~WaitComes(s) /\ ~InUse(s)
  BY DEF WaitComes, InUse
<1>3. \A s \in Slots : Awaited(Compute, Xfer, s)
  BY <1>1, <1>2 DEF CopiesAwaited
<1>4. \A s \in Slots : doneValid[s] => ReadersRecorded(Compute, s)
  BY <1>1, <1>2 DEF DoneRecorded
<1>5. CASE NoStage
  <2>1. QueuesInv'
    BY <1>1, <1>5, NothingIssued
  <2>2. Xfer' = Xfer /\ Compute' = Compute /\ doneValid' = doneValid
    BY <1>5 DEF NoStage, Xfer, Compute
  <2>3. QED
    BY <1>3, <1>4, <2>1, <2>2
<1>6. CASE Prefetched(l)
  <2> DEFINE z == pool_slot(l)
  <2>1. l \in LayerIdx /\ Streamed(l) /\ Stage(l) /\ IssuesX(l) /\ (loaded[z] >= 0 => doneValid[z])
    BY <1>6 DEF Prefetched
  <2>2. issued' = [issued EXCEPT ![<<"ready", z>>] = @ + 1]
    BY <1>6 DEF Prefetched
  <2>3. z \in Slots
    BY <1>1, <2>1, SlotOfLayer
  <2>4. QueuesInv'
    BY <1>1, <1>2, <2>1, <2>2, <2>3, PrefetchIssued
  <2>5. \A s \in Slots : s # z => Awaited(Compute', Xfer', s)
    BY <1>1, <1>3, <2>1, AwaitedX
  <2>6. ~doneValid'[z] /\ \A s \in Slots : s # z => doneValid'[s] = doneValid[s]
    BY <1>1, <2>1, StageKeeps DEF QueuesInv, Ticks
  <2>7. Compute' = Compute
    BY <2>1 DEF IssuesX
  <2>8. \A s \in Slots : doneValid'[s] => ReadersRecorded(Compute', s)
    BY <1>4, <2>6, <2>7
  <2>9. ~NoStage
    BY <1>1, <1>6, <2>1, NewX DEF NoStage, IssuesX, Xfer
  <2>10. QED
    BY <2>4, <2>5, <2>8, <2>9
<1>7. QED
  BY <1>5, <1>6

LEMMA StagedSlot ==
    ASSUME LayerTypeOK, LoadedComes, PointersMatchSlots, Ticks, NEW l, Prefetched(l)
    PROVE  /\ loaded'[pool_slot(l)] = l /\ ~doneValid'[pool_slot(l)] /\ pool_slot(l) \in Slots
           /\ \A s \in Slots : s # pool_slot(l) => loaded'[s] = loaded[s] /\ doneValid'[s] = doneValid[s]
  BY StageKeeps, SlotOfLayer DEF Prefetched, Ticks

LEMMA PassBeginsKeeps ==
    ASSUME LayersInv, AllSucceed, PassBegins
    PROVE  LayersInv'
<1>1. /\ LayerTypeOK /\ QueuesInv /\ OneBuffer /\ LoadedComes /\ PointersMatchSlots
  BY DEF LayersInv, QueuesInv
<1>2. at = "begin" /\ at' = "wait" /\ layer' = 0 /\ pass' = pass /\ Ticks
  BY RestTicks DEF PassBegins
<1>3. NoStage \/ Prefetched(0)
  BY <1>1, <1>2, PrefetchCases DEF PassBegins
<1>4. /\ QueuesInv'
      /\ \A s \in Slots : (NoStage \/ s # pool_slot(0)) => Awaited(Compute', Xfer', s)
      /\ \A s \in Slots : doneValid'[s] => ReadersRecorded(Compute', s)
  BY <1>2, <1>3, PrefetchKeeps
<1>5. LayerTypeOK'
  <2>1. HostTypes'
    BY <1>1, <1>2, LayersAssumption DEF HostTypes, LayerTypeOK, LayerIdx
  <2>2. QED
    BY <1>1, <1>2, <1>3, <2>1, PrefetchTypes
<1>6. pool' = pool
  BY <1>2 DEF Ticks
<1>7. Prefetched(0) => loaded'[pool_slot(0)] = 0 /\ ~doneValid'[pool_slot(0)]
  BY <1>1, <1>2, StagedSlot
<1>8. CopiesAwaited'
  <2>1. \A s \in Slots : Prefetched(0) /\ s = pool_slot(0) => WaitComes(s)'
    BY <1>2, <1>6, <1>7 DEF WaitComes, pool_slot
  <2>2. QED
    BY <1>3, <1>4, <2>1 DEF CopiesAwaited
<1>9. DoneRecorded'
  BY <1>4 DEF DoneRecorded
<1>10. RunsStaged'
  BY <1>2 DEF RunsStaged
<1>11. OneBuffer'
  <2>1. SUFFICES ASSUME pool.bufs = 1
                 PROVE  loaded'[0] \in {-1, Layers - 1, layer' - 1} \/ (loaded'[0] = layer' /\ ~doneValid'[0])
    BY <1>2, <1>6 DEF OneBuffer
  <2>2. pool_slot(0) = 0
    BY <1>1, <2>1, OneSlot
  <2>3. CASE NoStage
    BY <1>1, <1>2, <2>1, <2>3 DEF OneBuffer, NoStage
  <2>4. CASE Prefetched(0)
    BY <1>2, <1>7, <2>2, <2>4
  <2>5. QED
    BY <1>3, <2>3, <2>4
<1>12. QED
  BY <1>4, <1>5, <1>8, <1>9, <1>10, <1>11 DEF LayersInv, QueuesInv

LEMMA NextLayerKeeps ==
    ASSUME LayersInv, AllSucceed, NextLayerBegins
    PROVE  LayersInv'
<1>1. /\ LayerTypeOK /\ QueuesInv /\ OneBuffer /\ RunsStaged /\ LoadedComes /\ PointersMatchSlots
  BY DEF LayersInv, QueuesInv
<1> DEFINE n == layer + 1
<1>2. at = "ahead" /\ at' = "run" /\ layer' = layer /\ pass' = pass /\ Ticks
  BY RestTicks DEF NextLayerBegins
<1>3. NoStage \/ Prefetched(n)
  BY <1>1, <1>2, PrefetchCases DEF NextLayerBegins
<1>4. /\ QueuesInv'
      /\ \A s \in Slots : (NoStage \/ s # pool_slot(n)) => Awaited(Compute', Xfer', s)
      /\ \A s \in Slots : doneValid'[s] => ReadersRecorded(Compute', s)
  BY <1>2, <1>3, PrefetchKeeps
<1>5. LayerTypeOK'
  <2>1. HostTypes'
    BY <1>1, <1>2 DEF HostTypes, LayerTypeOK
  <2>2. QED
    BY <1>1, <1>2, <1>3, <2>1, PrefetchTypes
<1>6. pool' = pool /\ layer \in LayerIdx
  BY <1>1, <1>2 DEF Ticks, LayerTypeOK
<1>7. Prefetched(n) => /\ loaded'[pool_slot(n)] = n /\ ~doneValid'[pool_slot(n)]
                       /\ \A s \in Slots : s # pool_slot(n) => loaded'[s] = loaded[s]
  BY <1>1, <1>2, StagedSlot
<1>8. Prefetched(n) => n \in LayerIdx /\ n < Layers
  BY LayersAssumption DEF Prefetched, LayerIdx
<1>9. CopiesAwaited'
  <2>1. \A s \in Slots : Prefetched(n) /\ s = pool_slot(n) => WaitComes(s)'
    BY <1>2, <1>6, <1>7, <1>8 DEF WaitComes, pool_slot
  <2>2. QED
    BY <1>3, <1>4, <2>1 DEF CopiesAwaited
<1>10. DoneRecorded'
  BY <1>4 DEF DoneRecorded
<1>11. RunsStaged'
  <2>1. SUFFICES ASSUME Streamed(layer) PROVE loaded'[pool_slot(layer)] = layer
    BY <1>2, <1>6 DEF RunsStaged, Streamed, pool_slot
  <2>2. loaded[pool_slot(layer)] = layer /\ pool_slot(layer) \in Slots
    BY <1>1, <1>2, <1>6, <2>1, SlotOfLayer DEF RunsStaged
  <2>3. CASE NoStage
    BY <2>2, <2>3 DEF NoStage
  <2>4. CASE Prefetched(n)
    <3>1. pool_slot(n) # pool_slot(layer)
      <4>1. CASE pool.bufs = 1
        <5>1. pool_slot(n) = 0 /\ loaded[0] = layer
          BY <1>1, <2>2, <4>1, OneSlot
        <5>2. layer >= 0
          BY <1>6, LayersAssumption DEF LayerIdx
        <5>3. ~doneValid[0]
          BY <1>1, <1>2, <1>8, <2>1, <2>4, <4>1 DEF OneBuffer
        <5>4. QED
          BY <2>4, <5>1, <5>2, <5>3 DEF Prefetched
      <4>2. CASE pool.bufs # 1
        BY <1>1, <1>6, <4>2, NextSlotDiffers
      <4>3. QED
        BY <4>1, <4>2
    <3>2. QED
      BY <1>7, <2>2, <2>4, <3>1
  <2>5. QED
    BY <1>3, <2>3, <2>4
<1>12. OneBuffer'
  <2>1. SUFFICES ASSUME pool.bufs = 1, ~Streamed(layer)
                 PROVE  loaded'[0] \in {-1, Layers - 1} \/ (loaded'[0] = layer + 1 /\ ~doneValid'[0])
    BY <1>2, <1>6 DEF OneBuffer, Streamed
  <2>2. pool_slot(n) = 0
    BY <1>1, <2>1, OneSlot
  <2>3. CASE NoStage
    BY <1>1, <1>2, <2>1, <2>3 DEF OneBuffer, NoStage
  <2>4. CASE Prefetched(n)
    BY <1>7, <2>2, <2>4
  <2>5. QED
    BY <1>3, <2>3, <2>4
<1>13. QED
  BY <1>4, <1>5, <1>9, <1>10, <1>11, <1>12 DEF LayersInv, QueuesInv

LEMMA UnstagedTypes ==
    ASSUME LayerTypeOK, Ticks, loaded' = loaded, ptr' = ptr, doneValid' \in [Slots -> BOOLEAN],
           queue' \in [Streams -> Seq(Work)], issued' \in [Events -> Nat], HostTypes'
    PROVE  LayerTypeOK'
<1>1. /\ pool' \in Pools /\ busy' \in [Streams -> BOOLEAN] /\ content' \in [Slots -> LayerIdx \cup {-1, HalfCopied}]
      /\ fired' \in [Events -> Nat] /\ clock' \in Nat
  BY DEF LayerTypeOK, Ticks, Pools
<1>2. loaded' \in [Slots -> LayerIdx \cup {-1}] /\ ptr' \in [LayerIdx -> Slots \cup {-1, Mixed}]
  BY DEF LayerTypeOK
<1>3. QED
  BY <1>1, <1>2 DEF LayerTypeOK, HostTypes

(* vv_layer_prefetch_wait: three cases.                                    *)
WaitNone(l) == ~Streamed(l) /\ NoStage
WaitCopies(l) ==
    /\ Streamed(l) /\ loaded[pool_slot(l)] # l /\ Stage(l) /\ IssuesC(Copy(l)) /\ issued' = issued
WaitReady(l) ==
    /\ Streamed(l) /\ loaded[pool_slot(l)] = l /\ IssuesC(Await(Ready(pool_slot(l))))
    /\ UNCHANGED <<ptr, loaded, doneValid, issued>>

LEMMA WaitCases ==
    ASSUME LayerTypeOK, PointersMatchSlots, AllSucceed, Ticks, NEW l \in LayerIdx, vv_layer_prefetch_wait(l)
    PROVE  WaitNone(l) \/ WaitCopies(l) \/ WaitReady(l)
<1> DEFINE s == pool_slot(l)
<1>1. s \in Slots /\ Ready(s) \in Events
  BY SlotOfLayer, SlotEvents
<1>2. CASE ~Streamed(l)
  BY <1>2 DEF vv_layer_prefetch_wait, WaitNone
<1>3. CASE Streamed(l) /\ loaded[s] # l
  <2>1. Stage(l) /\ Issue("compute", <<Copy(l)>>) /\ issued' = issued
    BY <1>3, NoneFails, WholeCopy, Zenon DEF vv_layer_prefetch_wait, StageFails
  <2>2. Copy(l) \in Work /\ Copy(l).t = clock
    BY <1>1 DEF LayerTypeOK, Work, Copy
  <2>3. QED
    BY <1>3, <2>1, <2>2, IssueC DEF WaitCopies
<1>4. CASE Streamed(l) /\ loaded[s] = l
  <2>1. Issue("compute", <<Await(<<"ready", s>>)>>) /\ UNCHANGED <<ptr, loaded, doneValid, issued>>
    BY <1>4, NoneFails, Zenon DEF vv_layer_prefetch_wait
  <2>2. Await(Ready(s)) \in Work /\ Await(Ready(s)).t = clock
    BY <1>1 DEF LayerTypeOK, Work, Await
  <2>3. Issue("compute", <<Await(Ready(s))>>)
    BY <2>1 DEF Ready
  <2>4. IssuesC(Await(Ready(s)))
    BY <2>2, <2>3, IssueC
  <2>5. QED
    BY <1>4, <2>1, <2>4 DEF WaitReady
<1>5. QED
  BY <1>2, <1>3, <1>4

LEMMA LayerWaitsKeeps ==
    ASSUME LayersInv, AllSucceed, LayerWaits
    PROVE  LayersInv'
<1>1. /\ LayerTypeOK /\ QueuesInv /\ OneBuffer /\ LoadedComes /\ PointersMatchSlots
      /\ EventsInOrder /\ CopiesRecorded /\ CopiesAwaited /\ DoneRecorded
  BY DEF LayersInv, QueuesInv
<1> DEFINE z == pool_slot(layer)
<1>2. at = "wait" /\ at' = "ahead" /\ layer' = layer /\ pass' = pass /\ Ticks
  BY RestTicks DEF LayerWaits
<1>3. layer \in LayerIdx /\ z \in Slots /\ pool' = pool
  BY <1>1, <1>2, SlotOfLayer DEF LayerTypeOK, Ticks
<1>4. WaitNone(layer) \/ WaitCopies(layer) \/ WaitReady(layer)
  BY <1>1, <1>2, <1>3, WaitCases DEF LayerWaits
<1>5. HostTypes'
  BY <1>1, <1>2 DEF HostTypes, LayerTypeOK
<1>6. \A s \in Slots : loaded[s] = -1 => ~doneValid[s]
  BY <1>1 DEF LoadedComes
<1>7. \A s \in Slots : doneValid[s] => ReadersRecorded(Compute, s)
  BY <1>1, <1>2 DEF DoneRecorded, InUse
<1>8. \A s \in Slots : Awaited(Compute, Xfer, s) \/ (s = z /\ loaded[z] = layer)
  BY <1>1, <1>2 DEF CopiesAwaited, WaitComes
<1>9. \A s \in Slots : loaded[s] # -1 => Streamed(loaded[s])
  BY <1>1 DEF LoadedComes
<1>10. ASSUME LayerTypeOK', QueuesInv',
              \A s \in Slots : Awaited(Compute', Xfer', s),
              \A s \in Slots : doneValid'[s] => ReadersRecorded(Compute', s),
              Streamed(layer) => loaded'[z] = layer,
              pool.bufs = 1 => /\ Streamed(layer) /\ layer + 1 < Layers => ~doneValid'[0]
                               /\ ~Streamed(layer) => loaded'[0] \in {-1, Layers - 1}
       PROVE  LayersInv'
  <2>1. CopiesAwaited' /\ DoneRecorded'
    BY <1>10 DEF CopiesAwaited, DoneRecorded
  <2>2. RunsStaged'
    BY <1>2, <1>3, <1>10 DEF RunsStaged, Streamed, pool_slot
  <2>3. OneBuffer'
    BY <1>2, <1>3, <1>10 DEF OneBuffer, Streamed
  <2>4. QED
    BY <1>10, <2>1, <2>2, <2>3 DEF LayersInv, QueuesInv
<1>11. ASSUME pool.bufs = 1
       PROVE  /\ z = 0
              /\ loaded[0] = layer /\ layer + 1 < Layers => ~doneValid[0]
              /\ ~Streamed(layer) => loaded[0] \in {-1, Layers - 1}
  <2>1. z = 0 /\ 0 \in Slots
    BY <1>1, <1>11, OneSlot
  <2>2. loaded[0] \in {-1, Layers - 1, layer - 1} \/ (loaded[0] = layer /\ ~doneValid[0])
    BY <1>1, <1>2, <1>11 DEF OneBuffer
  <2>3. layer \in Nat /\ layer < Layers /\ Layers \in Nat /\ pool.resident \in Nat
    BY <1>1, <1>3, LayersAssumption DEF LayerIdx, LayerTypeOK, Pools
  <2>4. loaded[0] = layer /\ layer + 1 < Layers => ~doneValid[0]
    BY <2>2, <2>3
  <2>5. loaded[0] # -1 => loaded[0] >= pool.resident
    BY <1>9, <2>1 DEF Streamed
  <2>6. ~Streamed(layer) => layer < pool.resident
    BY <2>3 DEF Streamed
  <2>7. ~Streamed(layer) => loaded[0] \in {-1, Layers - 1}
    BY <2>2, <2>3, <2>5, <2>6
  <2>8. QED
    BY <2>1, <2>4, <2>7
<1>12. CASE WaitNone(layer)
  <2>1. ~Streamed(layer) /\ NoStage
    BY <1>12 DEF WaitNone
  <2>2. QueuesInv' /\ LayerTypeOK'
    BY <1>1, <1>2, <1>5, <2>1, NothingIssued, NoStageTypes
  <2>3. Xfer' = Xfer /\ Compute' = Compute /\ doneValid' = doneValid /\ loaded' = loaded
    BY <2>1 DEF NoStage, Xfer, Compute
  <2>4. loaded[z] # layer
    BY <1>3, <1>9, <2>1, LayersAssumption DEF LayerIdx
  <2>5. \A s \in Slots : Awaited(Compute', Xfer', s)
    BY <1>8, <2>3, <2>4
  <2>6. QED
    BY <1>7, <1>10, <1>11, <2>1, <2>2, <2>3, <2>5
<1>13. CASE WaitCopies(layer)
  <2>1. Streamed(layer) /\ loaded[z] # layer /\ Stage(layer) /\ IssuesC(Copy(layer)) /\ issued' = issued
    BY <1>13 DEF WaitCopies
  <2>2. \A s \in Slots : Awaited(Compute, Xfer, s)
    BY <1>8, <2>1
  <2>3. QueuesInv'
    BY <1>1, <1>2, <1>3, <2>1, <2>2, CopyIssued
  <2>4. LayerTypeOK'
    <3>1. queue' \in [Streams -> Seq(Work)] /\ issued' \in [Events -> Nat]
      BY <1>1, <2>1 DEF IssuesC, LayerTypeOK
    <3>2. QED
      BY <1>1, <1>2, <1>3, <1>5, <2>1, <3>1, StagedTypes
  <2>5. \A s \in Slots : Awaited(Compute', Xfer', s)
    BY <1>1, <2>1, <2>2, AwaitedC
  <2>6. /\ loaded'[z] = layer /\ ~doneValid'[z]
        /\ \A s \in Slots : s # z => doneValid'[s] = doneValid[s]
    BY <1>1, <1>3, <2>1, StageKeeps
  <2>7. \A s \in Slots : s # z => ~Touches(Copy(layer), s)
    BY DEF Touches, Copy
  <2>8. \A s \in Slots : doneValid'[s] => ReadersRecorded(Compute', s)
    BY <1>1, <1>7, <2>1, <2>6, <2>7, ReadersC
  <2>9. QED
    BY <1>10, <1>11, <2>1, <2>3, <2>4, <2>5, <2>6, <2>8
<1>14. CASE WaitReady(layer)
  <2> DEFINE w == Await(Ready(z))
  <2>1. /\ Streamed(layer) /\ loaded[z] = layer /\ IssuesC(w)
        /\ ptr' = ptr /\ loaded' = loaded /\ doneValid' = doneValid /\ issued' = issued
    BY <1>14 DEF WaitReady
  <2>2. w.k = "wait" /\ \A s \in Slots : ~Touches(w, s)
    BY DEF Await, Touches
  <2>3. QueuesInv'
    <3>1. \A s \in Slots : loaded[s] = -1 => ~doneValid'[s]
      BY <1>6, <2>1
    <3> HIDE DEF w
    <3>2. w = Await(Ready(z))
      BY DEF w
    <3>3. QED
      BY <1>1, <1>3, <2>1, <2>2, <3>1, <3>2, WorkIssued
  <2>4. LayerTypeOK'
    <3>1. queue' \in [Streams -> Seq(Work)] /\ issued' \in [Events -> Nat] /\ doneValid' \in [Slots -> BOOLEAN]
      BY <1>1, <2>1 DEF IssuesC, LayerTypeOK
    <3>2. QED
      BY <1>1, <1>2, <1>5, <2>1, <3>1, UnstagedTypes
  <2>5. \A s \in Slots : Awaited(Compute', Xfer', s)
    <3>1. Awaited(Compute', Xfer', z)
      BY <1>1, <1>3, <2>1, WaitAwaits
    <3>2. \A s \in Slots : s # z => Awaited(Compute, Xfer, s)
      BY <1>8
    <3>3. QED
      BY <1>1, <2>1, <3>1, <3>2, AwaitedC
  <2>6. \A s \in Slots : doneValid'[s] => ReadersRecorded(Compute', s)
    BY <1>1, <1>7, <2>1, <2>2, ReadersC
  <2>7. QED
    BY <1>10, <1>11, <2>1, <2>3, <2>4, <2>5, <2>6
<1>15. QED
  BY <1>4, <1>12, <1>13, <1>14

LEMMA LayerRunsKeeps ==
    ASSUME LayersInv, LayerRuns
    PROVE  LayersInv'
<1>1. /\ LayerTypeOK /\ QueuesInv /\ OneBuffer /\ RunsStaged /\ LoadedComes /\ PointersMatchSlots
      /\ CopiesAwaited /\ DoneRecorded
  BY DEF LayersInv, QueuesInv
<1> DEFINE z == pool_slot(layer)
           w == Kernel(layer)
<1>2. at = "run" /\ at' = "done" /\ layer' = layer /\ pass' = pass /\ Ticks
  BY RestTicks DEF LayerRuns
<1>3. layer \in LayerIdx /\ z \in Slots /\ pool' = pool
  BY <1>1, <1>2, SlotOfLayer DEF LayerTypeOK, Ticks
<1>4. Issue("compute", <<w>>) /\ ptr' = ptr /\ loaded' = loaded /\ doneValid' = doneValid /\ issued' = issued
  BY DEF LayerRuns
<1>5. w.k = "run" /\ w.t = clock /\ w.l = layer /\ w.slot = ptr[layer] /\ w \in Work
  BY <1>1, <1>3 DEF Kernel, LayerTypeOK, Work
<1>6. IssuesC(w)
  BY <1>1, <1>2, <1>4, <1>5, IssueC
<1>7. \A s \in Slots : Touches(w, s) => s = ptr[layer]
  BY <1>5 DEF Touches
<1> HIDE DEF w
<1>8. ptr[layer] \in Slots => loaded[ptr[layer]] = layer /\ Streamed(layer)
  BY <1>1, <1>3 DEF PointersMatchSlots
<1>9. layer # -1 /\ layer # layer + 1 /\ layer \in Nat
  BY <1>3, LayersAssumption DEF LayerIdx
<1>10. ptr[layer] \in Slots => ptr[layer] = z
  BY <1>1, <1>8, <1>9 DEF LoadedComes
<1>11. \A s \in Slots : Touches(w, s) => s = z /\ loaded[s] = layer /\ Streamed(layer)
  BY <1>7, <1>8, <1>10
<1>12. \A s \in Slots : WaitComes(s) => loaded[s] = layer + 1
  BY <1>2 DEF WaitComes
<1>13. \A s \in Slots : Touches(w, s) => loaded[s] # -1 /\ Awaited(Compute, Xfer, s)
  BY <1>1, <1>9, <1>11, <1>12 DEF CopiesAwaited
<1>14. Streamed(layer) => w.slot \in Slots /\ WillHold(w.slot, layer, clock)
  <2>1. SUFFICES ASSUME Streamed(layer) PROVE w.slot \in Slots /\ WillHold(w.slot, layer, clock)
    OBVIOUS
  <2>2. loaded[z] = layer
    BY <1>1, <1>2, <2>1 DEF RunsStaged
  <2>3. ptr[layer] = z /\ WillHold(z, layer, clock)
    BY <1>1, <1>3, <1>9, <2>2 DEF LoadedComes
  <2>4. QED
    BY <1>3, <1>5, <2>3
<1>15. QueuesInv'
  <2>1. \A s \in Slots : loaded[s] = -1 => ~doneValid'[s]
    BY <1>1, <1>4 DEF LoadedComes
  <2>2. QED
    BY <1>1, <1>3, <1>4, <1>5, <1>6, <1>13, <1>14, <2>1, WorkIssued
<1>16. LayerTypeOK'
  <2>1. queue' \in [Streams -> Seq(Work)] /\ issued' \in [Events -> Nat] /\ doneValid' \in [Slots -> BOOLEAN]
    BY <1>1, <1>4, <1>6 DEF IssuesC, LayerTypeOK
  <2>2. HostTypes'
    BY <1>1, <1>2 DEF HostTypes, LayerTypeOK
  <2>3. QED
    BY <1>1, <1>2, <1>4, <2>1, <2>2, UnstagedTypes
<1>17. CopiesAwaited'
  <2>1. \A s \in Slots : WaitComes(s) => WaitComes(s)'
    BY <1>2, <1>3, <1>4 DEF WaitComes, pool_slot
  <2>2. \A s \in Slots : Awaited(Compute, Xfer, s) => Awaited(Compute', Xfer', s)
    BY <1>1, <1>6, AwaitedC
  <2>3. QED
    BY <1>1, <2>1, <2>2 DEF CopiesAwaited
<1>18. DoneRecorded'
  <2>1. SUFFICES ASSUME NEW s \in Slots, doneValid[s], ~InUse(s)' PROVE ReadersRecorded(Compute', s)
    BY <1>4 DEF DoneRecorded
  <2>2. ~(Streamed(layer) /\ s = z)
    BY <1>2, <1>3, <2>1 DEF InUse, Streamed, pool_slot
  <2>3. ~Touches(w, s)
    BY <1>11, <2>2
  <2>4. ReadersRecorded(Compute, s)
    BY <1>1, <1>2, <2>1 DEF DoneRecorded, InUse
  <2>5. QED
    BY <1>1, <1>6, <2>3, <2>4, ReadersC
<1>19. RunsStaged'
  BY <1>1, <1>2, <1>3, <1>4 DEF RunsStaged, Streamed, pool_slot
<1>20. OneBuffer'
  BY <1>1, <1>2, <1>3, <1>4 DEF OneBuffer, Streamed
<1>21. QED
  BY <1>15, <1>16, <1>17, <1>18, <1>19, <1>20 DEF LayersInv, QueuesInv

(* vv_layer_prefetch_done records the event of a streamed layer.           *)
DoneSet(l) ==
    /\ Streamed(l) /\ loaded[pool_slot(l)] = l /\ IssuesC(Record(Done(pool_slot(l))))
    /\ issued' = [issued EXCEPT ![Done(pool_slot(l))] = @ + 1]
    /\ doneValid' = [doneValid EXCEPT ![pool_slot(l)] = TRUE]
    /\ ptr' = ptr /\ loaded' = loaded

LEMMA DoneCases ==
    ASSUME LayerTypeOK, AllSucceed, Ticks, NEW l \in LayerIdx, vv_layer_prefetch_done(l),
           Streamed(l) => loaded[pool_slot(l)] = l
    PROVE  (~Streamed(l) /\ NoStage) \/ DoneSet(l)
<1> DEFINE s == pool_slot(l)
<1>1. s \in Slots /\ Done(s) \in Events
  BY SlotOfLayer, SlotEvents
<1>2. CASE ~Streamed(l)
  BY <1>2 DEF vv_layer_prefetch_done
<1>3. CASE Streamed(l) /\ loaded[s] = l
  <2>1. /\ doneValid' = [doneValid EXCEPT ![s] = TRUE]
        /\ Issue("compute", <<Record(<<"done", s>>)>>)
        /\ issued' = [issued EXCEPT ![<<"done", s>>] = @ + 1]
        /\ ptr' = ptr /\ loaded' = loaded
    BY <1>3, NoneFails, Zenon DEF vv_layer_prefetch_done
  <2>2. Record(Done(s)) \in Work /\ Record(Done(s)).t = clock
    BY <1>1 DEF LayerTypeOK, Work, Record
  <2>3. Issue("compute", <<Record(Done(s))>>) /\ issued' = [issued EXCEPT ![Done(s)] = @ + 1]
    BY <2>1 DEF Done
  <2>4. IssuesC(Record(Done(s)))
    BY <2>2, <2>3, IssueC
  <2>5. QED
    BY <1>3, <2>1, <2>3, <2>4, Zenon DEF DoneSet
<1>4. QED
  BY <1>2, <1>3

LEMMA LayerDoneKeeps ==
    ASSUME LayersInv, AllSucceed, LayerDone
    PROVE  LayersInv'
<1>1. /\ LayerTypeOK /\ QueuesInv /\ OneBuffer /\ RunsStaged /\ LoadedComes /\ PointersMatchSlots
      /\ CopiesAwaited /\ DoneRecorded
  BY DEF LayersInv, QueuesInv
<1> DEFINE z == pool_slot(layer)
<1>2. at = "done" /\ Ticks
  BY RestTicks DEF LayerDone
<1>3. layer \in LayerIdx /\ z \in Slots /\ pool' = pool
  BY <1>1, <1>2, SlotOfLayer DEF LayerTypeOK, Ticks
<1>4. layer \in Nat /\ layer < Layers /\ Layers \in Nat /\ layer # -1
  BY <1>3, LayersAssumption DEF LayerIdx
<1>5. \/ layer + 1 < Layers /\ layer' = layer + 1 /\ at' = "wait" /\ pass' = pass
      \/ layer + 1 = Layers /\ layer' = 0 /\ at' = "begin" /\ pass' = pass + 1
  BY <1>4 DEF LayerDone
<1>6. HostTypes'
  BY <1>1, <1>4, <1>5 DEF HostTypes, LayerTypeOK, LayerIdx
<1>7. Streamed(layer) => loaded[z] = layer
  BY <1>1, <1>2 DEF RunsStaged
<1>8. (~Streamed(layer) /\ NoStage) \/ DoneSet(layer)
  BY <1>1, <1>2, <1>3, <1>7, DoneCases DEF LayerDone
<1>9. loaded' = loaded
  BY <1>8 DEF NoStage, DoneSet
<1>10. \A s \in Slots : WaitComes(s) => WaitComes(s)'
  BY <1>2, <1>3, <1>4, <1>5, <1>9 DEF WaitComes, pool_slot
<1>11. RunsStaged'
  BY <1>5 DEF RunsStaged
<1>12. ASSUME LayerTypeOK', QueuesInv',
              \A s \in Slots : Awaited(Compute, Xfer, s) => Awaited(Compute', Xfer', s),
              \A s \in Slots : doneValid'[s] => ReadersRecorded(Compute', s), OneBuffer'
       PROVE  LayersInv'
  <2>1. CopiesAwaited'
    BY <1>1, <1>10, <1>12 DEF CopiesAwaited
  <2>2. DoneRecorded'
    BY <1>12 DEF DoneRecorded
  <2>3. QED
    BY <1>11, <1>12, <2>1, <2>2 DEF LayersInv, QueuesInv
<1>13. \A s \in Slots : doneValid[s] /\ (~Streamed(layer) \/ s # z) => ReadersRecorded(Compute, s)
  BY <1>1 DEF DoneRecorded, InUse
<1>14. CASE ~Streamed(layer) /\ NoStage
  <2>1. QueuesInv' /\ LayerTypeOK'
    BY <1>1, <1>2, <1>6, <1>14, NothingIssued, NoStageTypes
  <2>2. Xfer' = Xfer /\ Compute' = Compute /\ doneValid' = doneValid
    BY <1>14 DEF NoStage, Xfer, Compute
  <2>3. OneBuffer'
    <3>1. SUFFICES ASSUME pool.bufs = 1
                   PROVE  /\ at' = "begin" => loaded[0] \in {-1, Layers - 1}
                          /\ at' = "wait" => loaded[0] \in {-1, Layers - 1, layer' - 1} \/ (loaded[0] = layer' /\ ~doneValid'[0])
      BY <1>3, <1>5, <1>9 DEF OneBuffer
    <3>2. loaded[0] \in {-1, Layers - 1} \/ (loaded[0] = layer + 1 /\ ~doneValid[0])
      BY <1>1, <1>2, <1>14, <3>1 DEF OneBuffer
    <3>3. loaded[0] \in LayerIdx \cup {-1}
      BY <1>1 DEF LayerTypeOK, Slots
    <3>4. loaded[0] # Layers
      BY <1>4, <3>3 DEF LayerIdx
    <3>5. QED
      BY <1>4, <1>5, <2>2, <3>2, <3>4
  <2>4. QED
    BY <1>12, <1>13, <1>14, <2>1, <2>2, <2>3
<1>15. CASE DoneSet(layer)
  <2> DEFINE w == Record(Done(z))
  <2>1. /\ Streamed(layer) /\ loaded[z] = layer /\ IssuesC(w) /\ ptr' = ptr
        /\ issued' = [issued EXCEPT ![Done(z)] = @ + 1]
        /\ doneValid' = [doneValid EXCEPT ![z] = TRUE]
    BY <1>15, Zenon DEF DoneSet
  <2>2. w.k = "record" /\ Records(w, Done(z)) /\ \A s \in Slots : ~Touches(w, s)
    BY DEF Record, Touches, Records
  <2>3. doneValid' \in [Slots -> BOOLEAN] /\ \A s \in Slots : s # z => doneValid'[s] = doneValid[s]
    BY <1>1, <1>3, <2>1, Zenon DEF LayerTypeOK
  <2>4. QueuesInv'
    <3>1. \A s \in Slots : loaded[s] = -1 => ~doneValid'[s]
      BY <1>1, <1>4, <2>1, <2>3 DEF LoadedComes
    <3> HIDE DEF w
    <3>2. w = Record(Done(z))
      BY DEF w
    <3>3. QED
      BY <1>1, <1>3, <1>9, <2>1, <2>2, <3>1, <3>2, WorkIssued
  <2>5. LayerTypeOK'
    <3>1. queue' \in [Streams -> Seq(Work)]
      BY <2>1 DEF IssuesC
    <3>2. issued' \in [Events -> Nat]
      BY <1>1, <1>3, <2>1, SlotEvents DEF LayerTypeOK
    <3>3. QED
      BY <1>1, <1>2, <1>6, <1>9, <2>1, <2>3, <3>1, <3>2, UnstagedTypes
  <2>6. \A s \in Slots : Awaited(Compute, Xfer, s) => Awaited(Compute', Xfer', s)
    BY <1>1, <2>1, AwaitedC
  <2>7. \A s \in Slots : doneValid'[s] => ReadersRecorded(Compute', s)
    <3>1. ReadersRecorded(Compute', z)
      BY <1>1, <2>1, <2>2, ReadersC
    <3>2. \A s \in Slots : s # z /\ doneValid'[s] => ReadersRecorded(Compute', s)
      BY <1>1, <1>13, <2>1, <2>2, <2>3, ReadersC
    <3>3. QED
      BY <3>1, <3>2
  <2>8. OneBuffer'
    <3>1. SUFFICES ASSUME pool.bufs = 1
                   PROVE  /\ at' = "begin" => loaded[0] \in {-1, Layers - 1}
                          /\ at' = "wait" => loaded[0] \in {-1, Layers - 1, layer' - 1} \/ (loaded[0] = layer' /\ ~doneValid'[0])
      BY <1>3, <1>5, <1>9 DEF OneBuffer
    <3>2. loaded[0] = layer
      BY <1>1, <2>1, <3>1, OneSlot
    <3>3. QED
      BY <1>4, <1>5, <3>2
  <2>9. QED
    BY <1>12, <2>4, <2>5, <2>6, <2>7, <2>8
<1>16. QED
  BY <1>8, <1>14, <1>15

LEMMA LayersStart ==
    ASSUME LayerInit
    PROVE  LayersInv
<1>1. /\ pool \in Pools /\ pass = 0 /\ at = "begin" /\ layer = 0
      /\ loaded = [s \in Slots |-> -1] /\ doneValid = [s \in Slots |-> FALSE]
      /\ ptr = [l \in LayerIdx |-> -1]
      /\ queue = [t \in Streams |-> << >>] /\ busy = [t \in Streams |-> FALSE]
      /\ content = [s \in Slots |-> -1]
      /\ issued = [e \in Events |-> 0] /\ fired = [e \in Events |-> 0] /\ clock = 0
  BY DEF LayerInit
<1>2. 0 \in LayerIdx /\ \A l \in LayerIdx : l # -1
  BY LayersAssumption DEF LayerIdx
<1>3. Xfer = << >> /\ Compute = << >> /\ \A t \in Streams : queue[t] = << >>
  BY <1>1 DEF Xfer, Compute, Streams
<1>4. \A i : i \notin Idx(<< >>)
  BY DEF Idx
<1>5. LayerTypeOK
  <2>1. busy \in [Streams -> BOOLEAN] /\ doneValid \in [Slots -> BOOLEAN]
    BY <1>1, Zenon
  <2>2. queue \in [Streams -> Seq(Work)]
    BY <1>1
  <2>3. QED
    BY <1>1, <1>2, <2>1, <2>2 DEF LayerTypeOK
<1>6. \A s \in Slots : ~doneValid[s] /\ loaded[s] = -1
  BY <1>1, Zenon
<1>7. \A t \in Streams : ~busy[t]
  BY <1>1, Zenon
<1>8. StreamsInOrder
  BY <1>3, <1>4, <1>7 DEF StreamsInOrder, InOrder, IssuedBefore
<1>9. EventsInOrder
  <2>1. \A s \in Slots : fired[Ready(s)] = 0 /\ issued[Ready(s)] = 0 /\ fired[Done(s)] = 0 /\ issued[Done(s)] = 0
    BY <1>1, SlotEvents
  <2>2. QED
    BY <1>3, <1>4, <2>1 DEF EventsInOrder, RecordsInOrder, WaitsMet, NoRecord, NoWait
<1>10. SlotsGuarded /\ KernelsFed /\ CopiesRecorded /\ CopiesAwaited /\ DoneRecorded
  BY <1>3, <1>4, <1>6 DEF SlotsGuarded, Guarded, KernelsFed, CopiesRecorded, Recorded, CopiesAwaited, Awaited, DoneRecorded
<1>11. LoadedComes
  BY <1>3, <1>4, <1>6 DEF LoadedComes, Untouched
<1>12. PointersMatchSlots
  BY <1>1, <1>2, <1>6 DEF PointersMatchSlots, Slots, Mixed
<1>13. RunsStaged /\ OneBuffer
  BY <1>1 DEF RunsStaged, OneBuffer, Slots
<1>14. QED
  BY <1>5, <1>8, <1>9, <1>10, <1>11, <1>12, <1>13 DEF LayersInv

LEMMA LayersStutter ==
    ASSUME LayersInv, UNCHANGED layerVars
    PROVE  LayersInv'
<1>1. /\ pool' = pool /\ pass' = pass /\ at' = at /\ layer' = layer /\ loaded' = loaded
      /\ doneValid' = doneValid /\ ptr' = ptr /\ queue' = queue /\ busy' = busy
      /\ content' = content /\ fired' = fired /\ issued' = issued /\ clock' = clock
      /\ Xfer' = Xfer /\ Compute' = Compute
  BY DEF layerVars, hostVars, devVars, Xfer, Compute
<1>2. HostRests
  BY <1>1 DEF HostRests
<1>3. PointersMatchSlots' /\ RunsStaged' /\ OneBuffer'
  BY <1>2, PopHost DEF LayersInv
<1>4. LayerTypeOK' /\ StreamsInOrder'
  BY <1>1 DEF LayersInv, LayerTypeOK, Pools, StreamsInOrder
<1>5. EventsInOrder' /\ SlotsGuarded' /\ CopiesRecorded'
  BY <1>1 DEF LayersInv, EventsInOrder, SlotsGuarded, CopiesRecorded
<1>6. KernelsFed' /\ LoadedComes'
  BY <1>1 DEF LayersInv, KernelsFed, LoadedComes, WillHold, Streamed, pool_slot
<1>7. CopiesAwaited' /\ DoneRecorded'
  BY <1>1 DEF LayersInv, CopiesAwaited, DoneRecorded, WaitComes, InUse, Streamed, pool_slot
<1>8. QED
  BY <1>3, <1>4, <1>5, <1>6, <1>7 DEF LayersInv

(* No step forgets a failure.                                              *)
FaultsGrow == faults' \in Nat /\ faults' >= faults

LEMMA OneMoreFault ==
    ASSUME faults \in Nat, NoFault \/ Fault
    PROVE  FaultsGrow
  BY DEF NoFault, Fault, FaultsGrow

LEMMA CallsCount ==
    ASSUME faults \in Nat, NEW l,
           \/ vv_layer_prefetch_begin(l)
           \/ vv_layer_prefetch_wait(l)
           \/ vv_layer_prefetch_done(l)
    PROVE  FaultsGrow
<1>1. NoStage => NoFault
  BY DEF NoStage, NoFault
<1>2. CASE vv_layer_prefetch_begin(l)
  <2>1. PrefetchFails(l) => Fault
    BY Zenon DEF PrefetchFails, StageFails
  <2>2. NoFault \/ Fault
    BY <1>1, <1>2, <2>1, Zenon DEF vv_layer_prefetch_begin
  <2>3. QED
    BY <2>2, OneMoreFault
<1>3. CASE vv_layer_prefetch_wait(l)
  <2>1. NoFault \/ Fault
    BY <1>1, <1>3, Zenon DEF vv_layer_prefetch_wait, StageFails
  <2>2. QED
    BY <2>1, OneMoreFault
<1>4. CASE vv_layer_prefetch_done(l)
  <2>1. NoFault \/ Fault
    BY <1>1, <1>4, Zenon DEF vv_layer_prefetch_done
  <2>2. QED
    BY <2>1, OneMoreFault
<1>5. QED
  BY <1>2, <1>3, <1>4

LEMMA FaultsStay ==
    ASSUME faults \in Nat, [LayerNext]_layerVars
    PROVE  FaultsGrow
<1>1. CASE PassBegins \/ LayerWaits \/ NextLayerBegins \/ LayerDone \/ PassFails
  BY <1>1, CallsCount DEF PassBegins, LayerWaits, NextLayerBegins, LayerDone, PassFails
<1>2. CASE LayerRuns \/ LayerFails
  BY <1>2, OneMoreFault DEF LayerRuns, LayerFails, NoFault
<1>3. CASE \E t \in Streams : DeviceStep(t)
  BY <1>3, OneMoreFault DEF DeviceStep, WorkBegins, WorkEnds, EventStep, NoFault
<1>4. CASE UNCHANGED layerVars
  BY <1>4, OneMoreFault DEF layerVars, NoFault
<1>5. QED
  BY <1>1, <1>2, <1>3, <1>4 DEF LayerNext, HostStep

LEMMA HostKeeps ==
    ASSUME LayersInv, AllSucceed, HostStep
    PROVE  LayersInv'
<1>1. ~LayerFails
  BY NoneFails DEF LayerFails
<1>2. ~PassFails
  BY DEF PassFails, LayersInv, RunsStaged
<1>3. QED
  BY <1>1, <1>2, PassBeginsKeeps, LayerWaitsKeeps, NextLayerKeeps, LayerRunsKeeps, LayerDoneKeeps DEF HostStep

(* A call that fails keeps the streams in order as one that does not: what *)
(* it issues, what it leaves of the slots and pointers.                    *)
SlotTypes ==
    /\ loaded \in [Slots -> LayerIdx \cup {-1}] /\ doneValid \in [Slots -> BOOLEAN]
    /\ ptr \in [LayerIdx -> Slots \cup {-1, Mixed}]

Issues ==
    \/ \E s \in Slots : Sends(s)
    \/ \E s \in Slots, w \in Work :
           /\ IssuesC(w)
           /\ w.k = "record" => w = Record(Done(s)) /\ issued' = [issued EXCEPT ![Done(s)] = @ + 1]
           /\ w.k # "record" => issued' = issued
           /\ w.k = "wait" => w = Await(Ready(s))

LEMMA IssuesOrdered ==
    ASSUME Ordered, Ticks, Issues, SlotTypes', HostTypes'
    PROVE  Ordered'
<1>1. LayerTypeOK /\ StreamsInOrder /\ EventsInOrder
  BY DEF Ordered
<1>2. ASSUME queue' \in [Streams -> Seq(Work)], issued' \in [Events -> Nat]
      PROVE  LayerTypeOK'
  <2>1. /\ pool' \in Pools /\ busy' \in [Streams -> BOOLEAN] /\ content' \in [Slots -> LayerIdx \cup {-1, HalfCopied}]
        /\ fired' \in [Events -> Nat] /\ clock' \in Nat
    BY <1>1 DEF LayerTypeOK, Ticks, Pools
  <2>2. QED
    BY <1>2, <2>1 DEF LayerTypeOK, HostTypes, SlotTypes
<1>3. \A e \in Events : [issued EXCEPT ![e] = @ + 1] \in [Events -> Nat]
  BY <1>1 DEF LayerTypeOK
<1>4. ASSUME NEW s \in Slots, Sends(s)
      PROVE  Ordered'
  <2>1. StreamsInOrder' /\ EventsInOrder'
    BY <1>1, <1>4, SendStreams, SendEvents
  <2>2. queue' \in [Streams -> Seq(Work)] /\ issued' \in [Events -> Nat]
    BY <1>1, <1>3, <1>4, SlotEvents DEF Sends, LayerTypeOK
  <2>3. QED
    BY <1>2, <2>1, <2>2 DEF Ordered
<1>5. ASSUME NEW s \in Slots, NEW w \in Work, IssuesC(w),
             w.k = "record" => w = Record(Done(s)) /\ issued' = [issued EXCEPT ![Done(s)] = @ + 1],
             w.k # "record" => issued' = issued,
             w.k = "wait" => w = Await(Ready(s))
      PROVE  Ordered'
  <2>1. StreamsInOrder' /\ EventsInOrder'
    BY <1>1, <1>5, StreamsC, EventsC
  <2>2. queue' \in [Streams -> Seq(Work)] /\ issued' \in [Events -> Nat]
    BY <1>1, <1>3, <1>5, SlotEvents DEF IssuesC, LayerTypeOK
  <2>3. QED
    BY <1>2, <2>1, <2>2 DEF Ordered
<1>6. QED
  BY <1>4, <1>5 DEF Issues

Sent(v, s) ==
    /\ v \in Seq(Work)
    /\ \A i \in 1..Len(v) : \/ v[i] = Await(Done(s))
                            \/ v[i].k = "copy" /\ v[i].t = clock
                            \/ v[i] = Record(Ready(s)) /\ i = Len(v)
    /\ \A i, j \in 1..Len(v) : i < j /\ v[i].k = "copy" => v[j].k # "copy"

LEMMA SentIssues ==
    ASSUME LayerTypeOK, Ticks, NEW s \in Slots, NEW v, Sent(v, s), Issue("xfer", v),
           \/ issued' = issued /\ \A i \in 1..Len(v) : v[i].k # "record"
           \/ /\ issued' = [issued EXCEPT ![Ready(s)] = @ + 1]
              /\ v # << >> /\ v[Len(v)] = Record(Ready(s))
    PROVE  Issues
<1>1. v \in Seq(Work) /\ Len(v) \in Nat
  BY DEF Sent
<1>2. Xfer \in Seq(Work) /\ Len(Xfer) \in Nat
  BY Queues DEF Xfer, Streams
<1>3. queue' = [queue EXCEPT !["xfer"] = queue["xfer"] \o v]
  BY DEF Issue
<1>4. Compute' = Compute /\ Xfer' = Xfer \o v
  BY <1>3 DEF LayerTypeOK, Xfer, Compute, Streams
<1>5. /\ Xfer \o v \in Seq(Work) /\ Grown(Xfer, Xfer \o v) /\ Len(Xfer \o v) = Len(Xfer) + Len(v)
      /\ \A i \in Idx(Xfer \o v) : i > Len(Xfer) => i - Len(Xfer) \in Idx(v) /\ (Xfer \o v)[i] = v[i - Len(Xfer)]
  BY <1>1, <1>2, JoinGrown
<1>6. queue' \in [Streams -> Seq(Work)]
  BY <1>3, <1>5 DEF LayerTypeOK, Xfer
<1>7. \A i \in Idx(Xfer') : /\ i \in Nat
                            /\ i > Len(Xfer) => /\ i - Len(Xfer) \in 1..Len(v) /\ Xfer'[i] = v[i - Len(Xfer)]
                                                /\ i = Len(Xfer') <=> i - Len(Xfer) = Len(v)
  BY <1>1, <1>2, <1>4, <1>5 DEF Idx
<1>8. \A i \in Idx(Xfer') : i > Len(Xfer) =>
           \/ Xfer'[i] = Await(Done(s))
           \/ Xfer'[i].k = "copy" /\ Xfer'[i].t = clock
           \/ Xfer'[i] = Record(Ready(s)) /\ i = Len(Xfer')
  BY <1>7 DEF Sent
<1>9. ASSUME NEW i \in Idx(Xfer'), NEW j \in Idx(Xfer'), Len(Xfer) < i, i < j, Xfer'[i].k = "copy"
      PROVE  Xfer'[j].k # "copy"
  <2>1. j > Len(Xfer) /\ i - Len(Xfer) < j - Len(Xfer)
    BY <1>2, <1>7, <1>9
  <2>2. QED
    BY <1>7, <1>9, <2>1 DEF Sent
<1>10. CASE issued' = issued /\ \A i \in 1..Len(v) : v[i].k # "record"
  <2>1. \A i \in Idx(Xfer') : i > Len(Xfer) => Xfer'[i].k # "record"
    BY <1>7, <1>10
  <2>2. QED
    BY <1>4, <1>5, <1>6, <1>8, <1>9, <1>10, <2>1 DEF Sends, Issues
<1>11. CASE /\ issued' = [issued EXCEPT ![Ready(s)] = @ + 1]
            /\ v # << >> /\ v[Len(v)] = Record(Ready(s))
  <2>1. Len(v) > 0
    BY <1>1, <1>11
  <2>2. Len(Xfer') > Len(Xfer) /\ Len(Xfer') \in Idx(Xfer')
    BY <1>1, <1>2, <1>4, <1>5, <2>1 DEF Idx
  <2>3. Xfer'[Len(Xfer')] = Record(Ready(s))
    BY <1>7, <1>11, <2>2
  <2>4. QED
    BY <1>4, <1>5, <1>6, <1>8, <1>9, <1>11, <2>2, <2>3 DEF Sends, Issues
<1>12. QED
  BY <1>10, <1>11

LEMMA NothingSent ==
    ASSUME LayerTypeOK, Ticks, queue' = queue, issued' = issued
    PROVE  Issues
<1>1. Compute' = Compute /\ Xfer' = Xfer
  BY DEF Xfer, Compute
<1>2. Xfer \in Seq(Work) /\ Len(Xfer) \in Nat
  BY Queues DEF Xfer, Streams
<1>3. Grown(Xfer, Xfer') /\ \A i \in Idx(Xfer') : ~(i > Len(Xfer)) /\ i \in Nat
  BY <1>1, <1>2 DEF Grown, Idx
<1>4. queue' \in [Streams -> Seq(Work)] /\ 0 \in Slots
  BY DEF LayerTypeOK, Slots
<1>5. Sends(0)
  BY <1>1, <1>3, <1>4 DEF Sends
<1>6. QED
  BY <1>4, <1>5 DEF Issues

LEMMA OneForCompute ==
    ASSUME LayerTypeOK, Ticks, NEW s \in Slots, NEW w \in Work, w.t = clock, Issue("compute", <<w>>),
           w.k = "record" => w = Record(Done(s)) /\ issued' = [issued EXCEPT ![Done(s)] = @ + 1],
           w.k # "record" => issued' = issued,
           w.k = "wait" => w = Await(Ready(s))
    PROVE  Issues
<1>1. IssuesC(w)
  BY IssueC
<1>2. QED
  BY <1>1 DEF Issues

LEMMA StageTypes ==
    ASSUME LayerTypeOK, NEW l \in LayerIdx, Stage(l) \/ (\E some \in BOOLEAN : StageFails(l, some))
    PROVE  SlotTypes'
<1> DEFINE s == pool_slot(l)
<1>1. s \in Slots
  BY SlotOfLayer
<1>2. \A m \in LayerIdx : Unstaged(m, s) \in Slots \cup {-1, Mixed}
  BY DEF Unstaged, LayerTypeOK
<1>3. CASE Stage(l)
  <2>1. ptr' \in [LayerIdx -> Slots \cup {-1, Mixed}]
    BY <1>1, <1>2, <1>3 DEF Stage
  <2>2. loaded' \in [Slots -> LayerIdx \cup {-1}]
    BY <1>1, <1>3 DEF Stage, LayerTypeOK
  <2>3. doneValid' \in [Slots -> BOOLEAN]
    <3>1. doneValid' = [doneValid EXCEPT ![s] = FALSE] /\ doneValid \in [Slots -> BOOLEAN]
      BY <1>3 DEF Stage, LayerTypeOK
    <3>2. QED
      BY <3>1, Zenon
  <2>4. QED
    BY <2>1, <2>2, <2>3 DEF SlotTypes
<1>4. ASSUME NEW some \in BOOLEAN, StageFails(l, some)
      PROVE  SlotTypes'
  <2>1. ptr' \in [LayerIdx -> Slots \cup {-1, Mixed}]
    BY <1>2, <1>4 DEF StageFails
  <2>2. loaded' \in [Slots -> LayerIdx \cup {-1}] /\ doneValid' \in [Slots -> BOOLEAN]
    BY <1>4 DEF StageFails, LayerTypeOK
  <2>3. QED
    BY <2>1, <2>2 DEF SlotTypes
<1>5. QED
  BY <1>3, <1>4

LEMMA RestTypes ==
    ASSUME LayerTypeOK, ptr' = ptr, loaded' = loaded, doneValid' = doneValid
    PROVE  SlotTypes'
  BY DEF LayerTypeOK, SlotTypes

(* A copy or a part of it, the wait before it and the record behind.       *)
LEMMA Pieces ==
    ASSUME LayerTypeOK, NEW l \in LayerIdx
    PROVE  /\ \A w \in {Copy(l), PartCopy(l), StageCopy(l)} :
                  w \in Work /\ w.k = "copy" /\ w.t = clock
           /\ \A e \in Events : Await(e) \in Work /\ Record(e) \in Work
<1>1. pool_slot(l) \in Slots /\ clock \in Nat
  BY SlotOfLayer DEF LayerTypeOK
<1>2. Copy(l) \in Work /\ Copy(l).k = "copy" /\ Copy(l).t = clock
  BY <1>1 DEF Copy, Work
<1>3. PartCopy(l) = [k |-> "copy", slot |-> pool_slot(l), l |-> HalfCopied, t |-> clock]
  BY DEF PartCopy, Copy
<1>4. PartCopy(l) \in Work /\ PartCopy(l).k = "copy" /\ PartCopy(l).t = clock
  BY <1>1, <1>3 DEF Work
<1>5. StageCopy(l) \in {Copy(l), PartCopy(l)}
  BY DEF StageCopy
<1>6. ASSUME NEW e \in Events PROVE Await(e) \in Work /\ Record(e) \in Work
  BY <1>1 DEF Await, Record, Work, LayerTypeOK
<1>7. QED
  BY <1>2, <1>4, <1>5, <1>6

(* A wait put before a copy, and before a copy and its record.             *)
LEMMA Joined ==
    ASSUME NEW S, NEW a \in S, NEW c \in S, NEW q \in S
    PROVE  /\ <<a>> \o <<c>> \in Seq(S) /\ Len(<<a>> \o <<c>>) = 2
           /\ (<<a>> \o <<c>>)[1] = a /\ (<<a>> \o <<c>>)[2] = c
           /\ <<a>> \o <<c, q>> \in Seq(S) /\ Len(<<a>> \o <<c, q>>) = 3
           /\ (<<a>> \o <<c, q>>)[1] = a /\ (<<a>> \o <<c, q>>)[2] = c
           /\ (<<a>> \o <<c, q>>)[3] = q
<1>1. <<a>> \in Seq(S) /\ <<c>> \in Seq(S) /\ <<c, q>> \in Seq(S)
  OBVIOUS
<1>2. /\ <<a>> \o <<c>> \in Seq(S) /\ Len(<<a>> \o <<c>>) = 2
      /\ (<<a>> \o <<c>>)[1] = a /\ (<<a>> \o <<c>>)[2] = c
  BY <1>1
<1>3. <<a>> \o <<c, q>> \in Seq(S) /\ Len(<<a>> \o <<c, q>>) = 3
  BY <1>1
<1>4. /\ (<<a>> \o <<c, q>>)[1] = a /\ (<<a>> \o <<c, q>>)[2] = c
      /\ (<<a>> \o <<c, q>>)[3] = q
  BY <1>1
<1>5. QED
  BY <1>2, <1>3, <1>4

LEMMA PrefixSent ==
    ASSUME LayerTypeOK, NEW s \in Slots, NEW c \in Work, c.k = "copy", c.t = clock,
           NEW u \in {<< >>, <<Await(Done(s))>>}, Await(Done(s)) \in Work, Record(Ready(s)) \in Work
    PROVE  /\ Sent(u \o << >>, s) /\ \A i \in 1..Len(u \o << >>) : (u \o << >>)[i].k # "record"
           /\ Sent(u \o <<c>>, s) /\ \A i \in 1..Len(u \o <<c>>) : (u \o <<c>>)[i].k # "record"
           /\ Sent(u \o <<c, Record(Ready(s))>>, s) /\ u \o <<c, Record(Ready(s))>> # << >>
           /\ (u \o <<c, Record(Ready(s))>>)[Len(u \o <<c, Record(Ready(s))>>)] = Record(Ready(s))
<1> DEFINE a == Await(Done(s))
           q == Record(Ready(s))
<1>1. a.k = "wait" /\ q.k = "record" /\ a \in Work /\ q \in Work
  BY NewIs
<1>2. << >> \in Seq(Work) /\ <<a>> \in Seq(Work) /\ <<c>> \in Seq(Work) /\ <<c, q>> \in Seq(Work)
  BY <1>1
<1> HIDE DEF a, q
<1>3. CASE u = << >>
  <2>1. u \o << >> = << >> /\ u \o <<c>> = <<c>> /\ u \o <<c, q>> = <<c, q>>
    BY <1>2, <1>3
  <2>2. Sent(<< >>, s) /\ Sent(<<c>>, s) /\ Sent(<<c, q>>, s)
    BY <1>1, <1>2 DEF Sent, a, q
  <2>3. QED
    BY <1>1, <1>2, <2>1, <2>2 DEF q
<1>4. CASE u = <<a>>
  <2> DEFINE w == <<a>> \o <<c>>
             x == <<a>> \o <<c, q>>
  <2>1. /\ w \in Seq(Work) /\ Len(w) = 2 /\ w[1] = a /\ w[2] = c
        /\ x \in Seq(Work) /\ Len(x) = 3 /\ x[1] = a /\ x[2] = c /\ x[3] = q
    BY <1>1, Joined
  <2>2. u \o << >> = <<a>> /\ u \o <<c>> = w /\ u \o <<c, q>> = x
    <3>1. <<a>> \o << >> = <<a>>
      BY <1>1
    <3>2. QED
      BY <1>4, <3>1, Zenon
  <2> HIDE DEF w, x
  <2>3. Sent(<<a>>, s)
    BY <1>1, <1>2 DEF Sent, a
  <2>4. Sent(w, s)
    BY <1>1, <2>1 DEF Sent, a
  <2>5. Sent(x, s)
    BY <1>1, <2>1 DEF Sent, a, q
  <2>6. /\ \A i \in 1..Len(<<a>>) : <<a>>[i].k # "record"
        /\ \A i \in 1..Len(w) : w[i].k # "record"
        /\ x # << >> /\ x[Len(x)] = q
    <3>1. \A i \in 1..Len(<<a>>) : <<a>>[i].k # "record"
      BY <1>1
    <3>2. \A i \in 1..Len(w) : w[i].k # "record"
      BY <1>1, <2>1
    <3>3. x # << >>
      BY <2>1
    <3>4. QED
      BY <2>1, <3>1, <3>2, <3>3
  <2>7. QED
    BY <2>2, <2>3, <2>4, <2>5, <2>6, Zenon DEF q
<1>5. QED
  BY <1>3, <1>4 DEF a

LEMMA BeginIssues ==
    ASSUME LayerTypeOK, Ticks, NEW l, vv_layer_prefetch_begin(l)
    PROVE  Issues /\ SlotTypes'
<1> DEFINE s == pool_slot(l)
           c == StageCopy(l)
           q == Record(Ready(s))
           u == AfterReader(s)
<1>1. CASE NoStage
  BY <1>1, NothingSent, RestTypes DEF NoStage
<1>2. CASE ~NoStage
  <2>1. l \in LayerIdx
    BY <1>2, Zenon DEF vv_layer_prefetch_begin
  <2>2. s \in Slots /\ Ready(s) \in Events /\ Done(s) \in Events
    BY <2>1, SlotOfLayer, SlotEvents
  <2>3. u \in {<< >>, <<Await(Done(s))>>}
    BY DEF AfterReader, Done
  <2>4. /\ c \in Work /\ c.k = "copy" /\ c.t = clock /\ PartCopy(l) \in Work
        /\ PartCopy(l).k = "copy" /\ PartCopy(l).t = clock /\ Await(Done(s)) \in Work /\ q \in Work
    BY <2>1, <2>2, Pieces
  <2>5. Ready(s) = <<"ready", s>>
    BY DEF Ready
  <2>6. \/ Stage(l) /\ Issue("xfer", u \o <<c, q>>) /\ issued' = [issued EXCEPT ![Ready(s)] = @ + 1]
        \/ \E some \in BOOLEAN : StageFails(l, some) /\ issued' = issued /\ Issue("xfer", u \o Begun(l, some))
        \/ Stage(l) /\ Issue("xfer", <<c, q>>) /\ issued' = [issued EXCEPT ![Ready(s)] = @ + 1]
        \/ Stage(l) /\ Issue("xfer", u \o <<c>>) /\ issued' = issued
    BY <1>2, <2>5, Zenon DEF vv_layer_prefetch_begin, PrefetchFails
  <2>7. /\ Sent(u \o << >>, s) /\ \A i \in 1..Len(u \o << >>) : (u \o << >>)[i].k # "record"
        /\ Sent(u \o <<PartCopy(l)>>, s)
        /\ \A i \in 1..Len(u \o <<PartCopy(l)>>) : (u \o <<PartCopy(l)>>)[i].k # "record"
    BY <2>2, <2>3, <2>4, PrefixSent
  <2>8. /\ Sent(u \o <<c>>, s) /\ \A i \in 1..Len(u \o <<c>>) : (u \o <<c>>)[i].k # "record"
        /\ Sent(u \o <<c, q>>, s) /\ u \o <<c, q>> # << >> /\ (u \o <<c, q>>)[Len(u \o <<c, q>>)] = q
    BY <2>2, <2>3, <2>4, PrefixSent
  <2>9. Sent(<<c, q>>, s) /\ <<c, q>> # << >> /\ <<c, q>>[Len(<<c, q>>)] = q
    <3>1. <<c, q>> \in Seq(Work) /\ q.k = "record"
      BY <2>4, NewIs
    <3> HIDE DEF c
    <3>2. \A i \in 1..Len(<<c, q>>) : (i = 1 /\ <<c, q>>[i] = c) \/ (i = 2 /\ <<c, q>>[i] = q)
      OBVIOUS
    <3>3. Len(<<c, q>>) = 2
      OBVIOUS
    <3> DEFINE v == <<c, q>>
    <3> HIDE DEF v, q
    <3>4. Sent(v, s)
      BY <2>4, <3>1, <3>2, <3>3 DEF Sent, v, q
    <3>5. QED
      BY <3>2, <3>3, <3>4 DEF v
  <2> HIDE DEF c, q, u
  <2>10. CASE Stage(l) /\ Issue("xfer", u \o <<c, q>>) /\ issued' = [issued EXCEPT ![Ready(s)] = @ + 1]
    BY <2>1, <2>2, <2>8, <2>10, SentIssues, StageTypes DEF q
  <2>11. ASSUME NEW some \in BOOLEAN, StageFails(l, some), issued' = issued, Issue("xfer", u \o Begun(l, some))
         PROVE  Issues /\ SlotTypes'
    <3>1. Begun(l, some) = << >> \/ Begun(l, some) = <<PartCopy(l)>>
      BY DEF Begun
    <3>2. Issues
      BY <2>2, <2>7, <2>11, <3>1, SentIssues
    <3>3. QED
      BY <2>1, <2>11, <3>2, StageTypes
  <2>12. CASE Stage(l) /\ Issue("xfer", <<c, q>>) /\ issued' = [issued EXCEPT ![Ready(s)] = @ + 1]
    BY <2>1, <2>2, <2>9, <2>12, SentIssues, StageTypes DEF q
  <2>13. CASE Stage(l) /\ Issue("xfer", u \o <<c>>) /\ issued' = issued
    BY <2>1, <2>2, <2>8, <2>13, SentIssues, StageTypes
  <2>14. QED
    BY <2>6, <2>10, <2>11, <2>12, <2>13
<1>3. QED
  BY <1>1, <1>2

LEMMA WaitIssues ==
    ASSUME LayerTypeOK, Ticks, NEW l \in LayerIdx, vv_layer_prefetch_wait(l)
    PROVE  Issues /\ SlotTypes'
<1> DEFINE s == pool_slot(l)
<1>1. s \in Slots /\ Ready(s) \in Events
  BY SlotOfLayer, SlotEvents
<1>2. /\ \A w \in {StageCopy(l), PartCopy(l)} : w \in Work /\ w.k = "copy" /\ w.t = clock
      /\ Await(Ready(s)) \in Work
  BY <1>1, Pieces
<1>3. \/ NoStage
      \/ Stage(l) /\ issued' = issued /\ Issue("compute", <<StageCopy(l)>>)
      \/ \E some \in BOOLEAN : StageFails(l, some) /\ issued' = issued /\ Issue("compute", Begun(l, some))
      \/ UNCHANGED <<ptr, loaded, doneValid, issued>> /\ Issue("compute", <<Await(<<"ready", s>>)>>)
      \/ UNCHANGED <<ptr, loaded, doneValid, issued>> /\ UNCHANGED queue
  BY Zenon DEF vv_layer_prefetch_wait
<1>4. CASE NoStage \/ UNCHANGED <<ptr, loaded, doneValid, issued, queue>>
  BY <1>4, NothingSent, RestTypes DEF NoStage
<1>5. CASE Stage(l) /\ issued' = issued /\ Issue("compute", <<StageCopy(l)>>)
  <2>1. StageCopy(l) \in Work /\ StageCopy(l).k = "copy" /\ StageCopy(l).t = clock
    BY <1>2
  <2>2. Issues
    BY <1>1, <1>5, <2>1, OneForCompute
  <2>3. QED
    BY <1>5, <2>2, StageTypes
<1>6. ASSUME NEW some \in BOOLEAN, StageFails(l, some), issued' = issued, Issue("compute", Begun(l, some))
      PROVE  Issues /\ SlotTypes'
  <2>1. SlotTypes'
    BY <1>6, StageTypes
  <2>2. CASE some
    <3>1. Issue("compute", <<PartCopy(l)>>)
      BY <1>6, <2>2 DEF Begun
    <3>2. PartCopy(l) \in Work /\ PartCopy(l).k = "copy" /\ PartCopy(l).t = clock
      BY <1>2
    <3>3. QED
      BY <1>1, <1>6, <2>1, <3>1, <3>2, OneForCompute
  <2>3. CASE ~some
    <3>1. queue' = [queue EXCEPT !["compute"] = queue["compute"] \o << >>]
      BY <1>6, <2>3 DEF Begun, Issue
    <3>2. queue["compute"] \in Seq(Work) /\ queue \in [Streams -> Seq(Work)]
      BY Queues DEF LayerTypeOK, Streams
    <3>3. queue' = queue
      BY <3>1, <3>2
    <3>4. QED
      BY <1>6, <2>1, <3>3, NothingSent
  <2>4. QED
    BY <2>2, <2>3
<1>7. CASE UNCHANGED <<ptr, loaded, doneValid, issued>> /\ Issue("compute", <<Await(<<"ready", s>>)>>)
  <2>1. /\ Await(Ready(s)).k = "wait" /\ Await(Ready(s)).t = clock
        /\ Await(Ready(s)) \in Work /\ Issue("compute", <<Await(Ready(s))>>)
    BY <1>2, <1>7, NewIs DEF Ready
  <2>2. Issues
    BY <1>1, <1>7, <2>1, OneForCompute
  <2>3. QED
    BY <1>7, <2>2, RestTypes
<1>8. QED
  BY <1>3, <1>4, <1>5, <1>6, <1>7

LEMMA DoneIssues ==
    ASSUME LayerTypeOK, Ticks, NEW l \in LayerIdx, vv_layer_prefetch_done(l)
    PROVE  Issues /\ SlotTypes'
<1> DEFINE s == pool_slot(l)
<1>1. s \in Slots /\ Done(s) \in Events
  BY SlotOfLayer, SlotEvents
<1>2. \/ NoStage
      \/ /\ doneValid' = [doneValid EXCEPT ![s] = TRUE] /\ UNCHANGED <<ptr, loaded>>
         /\ \/ /\ Issue("compute", <<Record(<<"done", s>>)>>)
               /\ issued' = [issued EXCEPT ![<<"done", s>>] = @ + 1]
            \/ UNCHANGED <<queue, issued>>
  BY Zenon DEF vv_layer_prefetch_done
<1>3. CASE NoStage
  BY <1>3, NothingSent, RestTypes DEF NoStage
<1>4. ASSUME doneValid' = [doneValid EXCEPT ![s] = TRUE], UNCHANGED <<ptr, loaded>>
      PROVE  SlotTypes'
  <2>1. doneValid \in [Slots -> BOOLEAN]
    BY DEF LayerTypeOK
  <2>2. doneValid' \in [Slots -> BOOLEAN]
    BY <1>4, <2>1, Zenon
  <2>3. QED
    BY <1>4, <2>2 DEF LayerTypeOK, SlotTypes
<1>5. ASSUME UNCHANGED <<queue, issued>>
      PROVE  Issues
  BY <1>5, NothingSent
<1>6. ASSUME Issue("compute", <<Record(<<"done", s>>)>>),
             issued' = [issued EXCEPT ![<<"done", s>>] = @ + 1]
      PROVE  Issues
  <2>1. /\ Record(Done(s)).k = "record" /\ Record(Done(s)).t = clock /\ Record(Done(s)) \in Work
        /\ Issue("compute", <<Record(Done(s))>>) /\ issued' = [issued EXCEPT ![Done(s)] = @ + 1]
    BY <1>1, <1>6, Pieces, NewIs DEF Done
  <2>2. QED
    BY <1>1, <2>1, OneForCompute
<1>7. QED
  BY <1>2, <1>3, <1>4, <1>5, <1>6

(* A kernel, or none.                                                      *)
LEMMA RunIssues ==
    ASSUME LayerTypeOK, Ticks, Issue("compute", <<Kernel(layer)>>) \/ UNCHANGED queue,
           UNCHANGED <<ptr, loaded, doneValid, issued>>
    PROVE  Issues /\ SlotTypes'
<1>1. SlotTypes'
  BY RestTypes
<1>2. CASE UNCHANGED queue
  BY <1>1, <1>2, NothingSent
<1>3. CASE Issue("compute", <<Kernel(layer)>>)
  <2>1. Kernel(layer) \in Work /\ Kernel(layer).k = "run" /\ Kernel(layer).t = clock
    BY DEF Kernel, LayerTypeOK, Work
  <2>2. 0 \in Slots
    BY DEF Slots
  <2>3. QED
    BY <1>1, <1>3, <2>1, <2>2, OneForCompute
<1>4. QED
  BY <1>2, <1>3

LEMMA HostOrdered ==
    ASSUME Ordered, HostStep
    PROVE  Ordered'
<1>1. LayerTypeOK
  BY DEF Ordered
<1>2. layer \in LayerIdx /\ pass \in Nat /\ 0 \in LayerIdx
  BY <1>1, LayersAssumption DEF LayerTypeOK, LayerIdx
<1>3. Ticks
  BY RestTicks DEF HostStep, PassBegins, LayerWaits, NextLayerBegins, LayerRuns, LayerDone, LayerFails, PassFails
<1>4. HostTypes'
  BY <1>2, LayersAssumption DEF HostTypes, LayerIdx, HostStep, PassBegins, LayerWaits, NextLayerBegins, LayerRuns,
                                LayerDone, LayerFails, PassFails
<1>5. Issues /\ SlotTypes'
  <2>1. CASE PassBegins \/ NextLayerBegins
    BY <1>1, <1>3, <2>1, BeginIssues DEF PassBegins, NextLayerBegins
  <2>2. CASE LayerWaits
    BY <1>1, <1>2, <1>3, <2>2, WaitIssues DEF LayerWaits
  <2>3. CASE LayerDone \/ PassFails
    BY <1>1, <1>2, <1>3, <2>3, DoneIssues DEF LayerDone, PassFails
  <2>4. CASE LayerRuns \/ LayerFails
    BY <1>1, <1>3, <2>4, RunIssues DEF LayerRuns, LayerFails
  <2>5. QED
    BY <2>1, <2>2, <2>3, <2>4 DEF HostStep
<1>6. QED
  BY <1>3, <1>4, <1>5, IssuesOrdered

LEMMA OrderKept ==
    ASSUME Ordered, [LayerNext]_layerVars
    PROVE  Ordered'
<1>1. LayerTypeOK /\ StreamsInOrder /\ EventsInOrder
  BY DEF Ordered
<1>2. CASE HostStep
  BY <1>2, HostOrdered
<1>3. ASSUME NEW t \in Streams, DeviceStep(t)
      PROVE  Ordered'
  <2>1. CASE WorkBegins(t)
    BY <2>1, BeginOrdered
  <2>2. CASE WorkEnds(t) \/ EventStep(t)
    <3>1. Pops(t)
      BY <1>1, <2>2, DevicePops
    <3>2. QED
      BY <1>1, <3>1, PopTypes, PopStreams, PopEvents DEF Ordered
  <2>3. QED
    BY <1>3, <2>1, <2>2 DEF DeviceStep
<1>4. CASE UNCHANGED layerVars
  <2>1. /\ pool' = pool /\ pass' = pass /\ at' = at /\ layer' = layer /\ loaded' = loaded
        /\ doneValid' = doneValid /\ ptr' = ptr /\ queue' = queue /\ busy' = busy
        /\ content' = content /\ fired' = fired /\ issued' = issued /\ clock' = clock
        /\ Xfer' = Xfer /\ Compute' = Compute
    BY <1>4 DEF layerVars, hostVars, devVars, Xfer, Compute
  <2>2. LayerTypeOK' /\ StreamsInOrder'
    BY <1>1, <2>1 DEF LayerTypeOK, Pools, StreamsInOrder
  <2>3. EventsInOrder'
    BY <1>1, <2>1 DEF EventsInOrder
  <2>4. QED
    BY <2>2, <2>3 DEF Ordered
<1>5. QED
  BY <1>2, <1>3, <1>4 DEF LayerNext

(* Layer streaming, for any number of layers, resident or streamed, over   *)
(* one slot or two, however far the host and each of the two streams run   *)
(* ahead of one another: whichever calls to the device fail, the streams   *)
(* never wait for each other; and in every state that no failed call came  *)
(* before, a kernel reads its own layer's weights, whole, and pointers and *)
(* slots agree (vv_layer_prefetch_begin, _wait and _done).                 *)
THEOREM LayersRunOwnWeights == LayerSpec => []RunsOwnWeights
<1>1. LayerInit => LayersKept
  BY LayersStart DEF LayersKept, LayerInit, LayersInv, Ordered
<1>2. LayersKept /\ [LayerNext]_layerVars => LayersKept'
  <2>1. SUFFICES ASSUME LayersKept, [LayerNext]_layerVars PROVE LayersKept'
    OBVIOUS
  <2>2. FaultsGrow /\ faults \in Nat
    BY <2>1, FaultsStay DEF LayersKept
  <2>o. Ordered'
    BY <2>1, OrderKept DEF LayersKept
  <2>3. SUFFICES ASSUME faults' = 0 PROVE LayersInv'
    BY <2>2, <2>o DEF LayersKept, FaultsGrow
  <2>4. faults = 0 /\ AllSucceed
    BY <2>2, <2>3 DEF FaultsGrow, AllSucceed
  <2>5. LayersInv
    BY <2>1, <2>4 DEF LayersKept
  <2>6. QED
    BY <2>1, <2>4, <2>5, HostKeeps, DeviceKeeps, LayersStutter DEF LayerNext
<1>3. LayersKept => RunsOwnWeights
  BY LayersReadOwn, LayersDrain DEF LayersKept, LayersInv, RunsOwnWeights
<1>4. QED
  BY <1>1, <1>2, <1>3, PTL DEF LayerSpec

-----------------------------------------------------------------------------
(* The resampler.  Every product and quotient of the positions is a lemma; *)
(* the rest is the buffer, which never loses a tap, and the outputs, which *)
(* are final when they are made.                                           *)

(* The position of an output in the input grows with its number.           *)
LEMMA Monotone ==
    ASSUME NEW b \in Nat \ {0}, NEW x \in Nat, NEW y \in Nat, x <= y
    PROVE  x \div b \in Nat /\ x \div b <= y \div b
<1> DEFINE p == x \div b
           q == y \div b
<1>1. p \in Int /\ q \in Int /\ x = b * p + (x % b) /\ y = b * q + (y % b)
      /\ x % b \in 0..(b - 1) /\ y % b \in 0..(b - 1)
  BY Stages
<1>2. p \in Nat
  OBVIOUS
<1> HIDE DEF p, q
<1>3. ASSUME p > q PROVE FALSE
  <2>1. b * (p - q) >= b
    BY <1>1, <1>3, OneStage
  <2>2. b * (p - q) = b * p - b * q
    BY <1>1
  <2>3. QED
    BY <1>1, <2>1, <2>2
<1>4. QED
  BY <1>1, <1>2, <1>3 DEF p, q

LEMMA Positions ==
    ASSUME NEW a \in Nat \ {0}, NEW b \in Nat \ {0}, NEW i \in Nat, NEW j \in Nat, i <= j
    PROVE  (i * a) \div b \in Nat /\ (i * a) \div b <= (j * a) \div b
<1>1. i * a \in Nat /\ j * a \in Nat
  OBVIOUS
<1>2. i * a <= j * a
  <2>1. (j - i) * a >= 0
    OBVIOUS
  <2>2. (j - i) * a = j * a - i * a
    OBVIOUS
  <2>3. QED
    BY <1>1, <2>1, <2>2
<1>3. QED
  BY <1>1, <1>2, Monotone

LEMMA PositionIs ==
    ASSUME NEW a \in Nat \ {0}, NEW b \in Nat \ {0}, NEW i \in Nat
    PROVE  (i * a) \div b \in Nat
  BY Positions, i <= i

(* The outputs past the length of a whole-file call lie past the input.    *)
LEMMA PastEnd ==
    ASSUME NEW a \in Nat \ {0}, NEW b \in Nat \ {0}, NEW len \in Nat, NEW i \in Nat,
           i >= ((len * b) \div a) + 1
    PROVE  (i * a) \div b >= len
<1> DEFINE q == (len * b) \div a
<1>1. len * b \in Nat
  OBVIOUS
<1>2. q \in Int /\ len * b = a * q + ((len * b) % a) /\ (len * b) % a \in 0..(a - 1)
  BY <1>1, Stages
<1>3. q \in Nat
  BY <1>1
<1> HIDE DEF q
<1>4. a * (q + 1) = a * q + a
  BY <1>2
<1>5. a * (i - (q + 1)) >= 0
  BY <1>2 DEF q
<1>6. a * (i - (q + 1)) = a * i - a * (q + 1)
  BY <1>2
<1>7. len * b <= i * a
  BY <1>2, <1>4, <1>5, <1>6
<1>8. (len * b) \div b <= (i * a) \div b
  BY <1>1, <1>7, Monotone
<1>9. (len * b) \div b = len
  <2> DEFINE d == (len * b) \div b
  <2>1. d \in Int /\ len * b = b * d + ((len * b) % b) /\ (len * b) % b \in 0..(b - 1)
    BY <1>1, Stages
  <2> HIDE DEF d
  <2>2. b * (len - d) = b * len - b * d /\ b * (d - len) = b * d - b * len
    BY <2>1
  <2>3. ~(len > d)
    BY <2>1, <2>2, OneStage
  <2>4. ~(d > len)
    BY <2>1, <2>2, OneStage
  <2>5. QED
    BY <2>1, <2>3, <2>4 DEF d
<1>10. QED
  BY <1>8, <1>9

LEMMA MaxOfTwo ==
    ASSUME NEW a \in Int, NEW b \in Int
    PROVE  Max({a, b}) = IF a >= b THEN a ELSE b
<1>1. \E x \in {a, b} : \A y \in {a, b} : x >= y
  OBVIOUS
<1>2. Max({a, b}) \in {a, b} /\ \A y \in {a, b} : Max({a, b}) >= y
  BY <1>1 DEF Max
<1>3. QED
  BY <1>2

LEMMA MinOfTwo ==
    ASSUME NEW a \in Int, NEW b \in Int
    PROVE  Min({a, b}) = IF a <= b THEN a ELSE b
<1>1. \E x \in {a, b} : \A y \in {a, b} : x <= y
  OBVIOUS
<1>2. Min({a, b}) \in {a, b} /\ \A y \in {a, b} : Min({a, b}) <= y
  BY <1>1 DEF Min
<1>3. QED
  BY <1>2

(* A set of numbers that is not empty has a least one.                     *)
Less == {ss \in Nat \X Nat : ss[1] < ss[2]}

LEMMA LessFounded == IsWellFoundedOn(Less, Nat)
<1>1. OpToRel(<, Nat) = Less
  BY Zenon DEF OpToRel, Less
<1>2. QED
  BY <1>1, NatLessThanWellFounded, Zenon

LEMMA MinIsLeast ==
    ASSUME NEW T, T \subseteq Nat, T # {}
    PROVE  Min(T) \in T /\ \A y \in T : Min(T) <= y
<1>1. PICK x \in T : \A y \in T : <<y, x>> \notin Less
  BY LessFounded, WFMin, Zenon
<1>2. \A y \in Nat, z \in Nat : y < z => <<y, z>> \in Less
  BY DEF Less
<1>3. ASSUME NEW y \in T PROVE x <= y
  <2>1. y \in Nat /\ x \in Nat
    OBVIOUS
  <2>2. ~(y < x)
    BY <1>1, <1>2, <2>1, Zenon
  <2>3. QED
    BY <2>1, <2>2
<1>4. QED
  BY <1>3 DEF Min

(* Two stretches of a sequence, one behind the other.                      *)
LEMMA Stretches ==
    ASSUME NEW a \in Nat, NEW b \in Nat, NEW f, NEW s, NEW t,
           s = [i \in 1..a |-> f[i]], t = [k \in 1..b |-> f[a + k]]
    PROVE  s \o t = [i \in 1..(a + b) |-> f[i]]
<1> DEFINE S == {f[i] : i \in 1..(a + b)}
<1>1. s \in Seq(S) /\ t \in Seq(S) /\ [i \in 1..(a + b) |-> f[i]] \in Seq(S)
  OBVIOUS
<1>2. Len(s) = a /\ Len(t) = b /\ Len([i \in 1..(a + b) |-> f[i]]) = a + b
  OBVIOUS
<1>3. s \o t \in Seq(S) /\ Len(s \o t) = a + b
      /\ \A i \in 1..(a + b) : (s \o t)[i] = IF i <= a THEN s[i] ELSE t[i - a]
  BY <1>1, <1>2, ConcatProperties
<1>4. \A i \in 1..(a + b) : (s \o t)[i] = f[i]
  BY <1>3
<1>5. DOMAIN (s \o t) = 1..(a + b) /\ s \o t = [i \in DOMAIN (s \o t) |-> (s \o t)[i]]
  BY <1>3, LenProperties
<1>6. QED
  BY <1>4, <1>5

(* What an output reads, in numbers.                                       *)
LEMMA TapRange ==
    ASSUME rs.in \in Nat \ {0}, rs.out \in Nat \ {0}, NEW i \in Nat, NEW len \in Nat
    PROVE  /\ Pos(i) \in Nat
           /\ Max({0, Pos(i) - HalfWidth}) = IF Pos(i) >= HalfWidth THEN Pos(i) - HalfWidth ELSE 0
           /\ Min({len - 1, Pos(i) + HalfWidth}) = IF len - 1 <= Pos(i) + HalfWidth THEN len - 1 ELSE Pos(i) + HalfWidth
<1>1. Pos(i) \in Nat
  BY PositionIs DEF Pos
<1>2. HalfWidth \in Nat
  BY RatesAssumption
<1>3. QED
  BY <1>1, <1>2, MaxOfTwo, MinOfTwo

(* An output reads the same from the buffer as from the whole input when   *)
(* the buffer reaches back to its first tap.                               *)
LEMMA TapsFromBuffer ==
    ASSUME rs.in \in Nat \ {0}, rs.out \in Nat \ {0}, NEW i \in Nat, NEW len \in Nat,
           NEW base \in Nat, NEW buf \in Seq(Nat), base + Len(buf) = len,
           \A k \in 1..Len(buf) : buf[k] = base + k,
           base = 0 \/ base <= Pos(i) - HalfWidth
    PROVE  resample_one(buf, base, len, i) = resample_one(Whole(len), 0, len, i)
<1> DEFINE lo == Max({0, Pos(i) - HalfWidth})
           hi == Min({len - 1, Pos(i) + HalfWidth})
<1>0. Pos(i) \in Nat /\ HalfWidth \in Nat
      /\ lo = (IF Pos(i) >= HalfWidth THEN Pos(i) - HalfWidth ELSE 0)
      /\ hi = (IF len - 1 <= Pos(i) + HalfWidth THEN len - 1 ELSE Pos(i) + HalfWidth)
  BY TapRange, RatesAssumption
<1> HIDE DEF lo, hi
<1>1. lo \in Nat /\ hi \in Int /\ base <= lo /\ hi <= len - 1
  BY <1>0, SMTT(40)
<1>2. ASSUME NEW idx \in lo..hi
      PROVE  (IF idx - base + 1 \in DOMAIN buf THEN buf[idx - base + 1] ELSE 0)
             = (IF idx - 0 + 1 \in DOMAIN Whole(len) THEN Whole(len)[idx - 0 + 1] ELSE 0)
  <2>1. idx - base + 1 \in 1..Len(buf) /\ idx - 0 + 1 \in 1..len
    BY <1>1
  <2>2. buf[idx - base + 1] = base + (idx - base + 1)
    BY <2>1
  <2>3. Whole(len)[idx - 0 + 1] = idx + 1 /\ DOMAIN Whole(len) = 1..len
    BY <1>1, <2>1 DEF Whole
  <2>4. QED
    BY <1>1, <2>1, <2>2, <2>3
<1>3. QED
  BY <1>2 DEF resample_one, lo, hi

(* An output whose taps have all arrived is not changed by later samples.  *)
LEMMA FinalStays ==
    ASSUME rs.in \in Nat \ {0}, rs.out \in Nat \ {0}, NEW i \in Nat, NEW len \in Nat, NEW more \in Nat,
           len <= more, Final(i, len)
    PROVE  /\ Final(i, more)
           /\ resample_one(Whole(len), 0, len, i) = resample_one(Whole(more), 0, more, i)
<1> DEFINE lo == Max({0, Pos(i) - HalfWidth})
           hi == Min({len - 1, Pos(i) + HalfWidth})
           hj == Min({more - 1, Pos(i) + HalfWidth})
<1>0. Pos(i) \in Nat /\ HalfWidth \in Nat
      /\ lo = (IF Pos(i) >= HalfWidth THEN Pos(i) - HalfWidth ELSE 0)
      /\ hi = (IF len - 1 <= Pos(i) + HalfWidth THEN len - 1 ELSE Pos(i) + HalfWidth)
      /\ hj = (IF more - 1 <= Pos(i) + HalfWidth THEN more - 1 ELSE Pos(i) + HalfWidth)
  BY TapRange, RatesAssumption
<1> HIDE DEF lo, hi, hj
<1>1. lo \in Nat /\ hi \in Int /\ hi = hj /\ hi <= len - 1 /\ hi <= more - 1
  BY <1>0 DEF Final
<1>2. Final(i, more)
  BY <1>0 DEF Final
<1>3. ASSUME NEW idx \in lo..hi
      PROVE  (IF idx - 0 + 1 \in DOMAIN Whole(len) THEN Whole(len)[idx - 0 + 1] ELSE 0)
             = (IF idx - 0 + 1 \in DOMAIN Whole(more) THEN Whole(more)[idx - 0 + 1] ELSE 0)
  BY <1>1 DEF Whole
<1>4. QED
  BY <1>1, <1>2, <1>3 DEF resample_one, lo, hi, hj

(* An output past the whole-file length has taps that are yet to come.     *)
LEMMA EndNotFinal ==
    ASSUME rs.in \in Nat \ {0}, rs.out \in Nat \ {0}, NEW i \in Nat, NEW len \in Nat, i >= n_out(len)
    PROVE  ~Final(i, len)
<1>1. Pos(i) >= len /\ Pos(i) \in Nat
  BY PastEnd, TapRange DEF Pos, n_out
<1>2. QED
  BY <1>1, RatesAssumption DEF Final

(* Where a push stops: everything before is final.                         *)
LEMMA LimitIs ==
    ASSUME rs.in \in Nat \ {0}, rs.out \in Nat \ {0}, NEW next \in Nat, NEW len \in Nat,
           next <= n_out(len)
    PROVE  /\ Limit(next, len) \in Nat /\ next <= Limit(next, len)
           /\ \A i \in next..(Limit(next, len) - 1) : Final(i, len)
<1> DEFINE T == {i \in next..(n_out(len) + 1) : ~Final(i, len)}
<1>1. n_out(len) \in Nat
  <2>1. (len * rs.out) \div rs.in \in Nat
    BY PositionIs
  <2>2. QED
    BY <2>1 DEF n_out
<1>2. n_out(len) \in T
  BY <1>1, EndNotFinal
<1>3. Min(T) \in T /\ \A y \in T : Min(T) <= y
  BY <1>2, MinIsLeast
<1>4. Limit(next, len) = Min(T)
  BY DEF Limit
<1> DEFINE m == Min(T)
<1>5. m \in next..(n_out(len) + 1) /\ m <= n_out(len)
  BY <1>2, <1>3
<1>6. ASSUME NEW i \in next..(m - 1) PROVE Final(i, len)
  <2>1. i \in next..(n_out(len) + 1) /\ ~(m <= i)
    BY <1>1, <1>5
  <2>2. QED
    BY <1>3, <2>1
<1>7. QED
  BY <1>1, <1>4, <1>5, <1>6

(* Dropping what no later output reads keeps the buffer in order.          *)
LEMMA DropHolds ==
    ASSUME NEW r \in Resamplers, rs.in \in Nat \ {0}, rs.out \in Nat \ {0}, BufferHeld(r),
           NEW limit \in Nat, r.next <= limit, NEW d, d = Dropped(r, limit)
    PROVE  /\ d \in Resamplers /\ BufferHeld(d)
           /\ d.in = r.in /\ d.out = r.out /\ d.given = r.given /\ d.next = limit /\ d.finished = r.finished
<1> DEFINE drop == Min({Len(r.buf), Max({0, KeepFrom(limit) - r.base})})
<1>1. r.buf \in Seq(Nat) /\ Len(r.buf) \in Nat /\ r.base \in Nat /\ r.next \in Nat /\ r.given \in Nat
  BY DEF Resamplers
<1>2. HalfWidth \in Nat /\ Pos(r.next) \in Nat /\ Pos(limit) \in Nat /\ Pos(r.next) <= Pos(limit)
  BY <1>1, Positions, PositionIs, RatesAssumption DEF Pos
<1>3. KeepFrom(r.next) \in Int /\ KeepFrom(limit) \in Int /\ KeepFrom(r.next) <= KeepFrom(limit)
  BY <1>2 DEF KeepFrom
<1>4. drop \in 0..Len(r.buf) /\ (drop = 0 \/ drop <= KeepFrom(limit) - r.base)
  <2>1. Max({0, KeepFrom(limit) - r.base}) = IF 0 >= KeepFrom(limit) - r.base THEN 0 ELSE KeepFrom(limit) - r.base
    BY <1>1, <1>3, MaxOfTwo, SMTT(40)
  <2> DEFINE m == Max({0, KeepFrom(limit) - r.base})
  <2>2. m \in Nat /\ (m = 0 \/ m = KeepFrom(limit) - r.base)
    BY <1>1, <1>3, <2>1
  <2> HIDE DEF m
  <2>3. Min({Len(r.buf), m}) = IF Len(r.buf) <= m THEN Len(r.buf) ELSE m
    <3>1. Len(r.buf) \in Int /\ m \in Int
      BY <1>1, <2>2
    <3>2. QED
      BY <3>1, MinOfTwo
  <2>4. drop = Min({Len(r.buf), m})
    BY DEF m
  <2>5. QED
    BY <1>1, <1>3, <2>2, <2>3, <2>4
<1> DEFINE rest == SubSeq(r.buf, drop + 1, Len(r.buf))
<1>5. d = [r EXCEPT !.buf = rest, !.base = r.base + drop, !.next = limit]
  BY DEF Dropped
<1> HIDE DEF drop
<1>6. rest \in Seq(Nat) /\ Len(rest) = Len(r.buf) - drop /\ \A k \in 1..(Len(r.buf) - drop) : rest[k] = r.buf[drop + k]
  BY <1>1, <1>4, SMTT(40)
<1> HIDE DEF rest
<1>7. d \in Resamplers
  <2>1. rest \in Seq(Nat) /\ r.base + drop \in Nat
    BY <1>1, <1>4, <1>6
  <2>2. QED
    BY <1>5, <2>1 DEF Resamplers
<1>8. /\ d.in = r.in /\ d.out = r.out /\ d.given = r.given /\ d.next = limit
      /\ d.buf = rest /\ d.base = r.base + drop
  BY <1>5 DEF Resamplers
<1>9. d.finished = r.finished
  BY <1>5, Zenon DEF Resamplers
<1>10. BufferHeld(d)
  <2>1. d.base + Len(d.buf) = d.given
    BY <1>1, <1>4, <1>6, <1>8 DEF BufferHeld
  <2>2. ASSUME NEW k \in 1..Len(d.buf) PROVE d.buf[k] = d.base + k
    <3>1. drop + k \in 1..Len(r.buf) /\ k \in 1..(Len(r.buf) - drop)
      BY <1>1, <1>4, <1>6, <1>8, SMTT(40)
    <3>2. d.buf[k] = r.base + (drop + k)
      BY <1>6, <1>8, <3>1 DEF BufferHeld
    <3>3. QED
      BY <1>1, <1>4, <1>8, <3>2
  <2>3. d.base = 0 \/ d.base <= KeepFrom(d.next)
    BY <1>1, <1>3, <1>4, <1>8 DEF BufferHeld
  <2>4. QED
    BY <2>1, <2>2, <2>3 DEF BufferHeld
<1>11. QED
  BY <1>7, <1>8, <1>9, <1>10

(* rs_emit: outputs are added in order, each as the whole input makes it,  *)
(* or nothing changes and the call has failed.                             *)
LEMMA EmitMakes ==
    ASSUME NEW r \in Resamplers, rs.in \in Nat \ {0}, rs.out \in Nat \ {0}, BufferHeld(r),
           made = OutputsOf(r.next, r.given),
           NEW limit \in Nat, rs_emit(r, limit, r.given)
    PROVE  /\ rs' \in Resamplers
           /\ rs'.in = r.in /\ rs'.out = r.out /\ rs'.given = r.given /\ rs'.finished = r.finished
           /\ BufferHeld(rs')
           /\ made' = OutputsOf(rs'.next, r.given)
           /\ rs'.next = r.next \/ (rs'.next = limit /\ limit > r.next)
           /\ rs'.ok => rs'.next >= limit
<1>1. r.next \in Nat /\ r.given \in Nat /\ r.base \in Nat /\ r.buf \in Seq(Nat)
  BY DEF Resamplers
<1>2. CASE limit <= r.next /\ rs' = [r EXCEPT !.ok = TRUE] /\ UNCHANGED made
  <2>1. rs' \in Resamplers
    BY <1>2 DEF Resamplers
  <2>2. rs'.in = r.in /\ rs'.out = r.out /\ rs'.given = r.given /\ rs'.next = r.next /\ rs'.buf = r.buf /\ rs'.base = r.base
    BY <1>2 DEF Resamplers
  <2>3. rs'.finished = r.finished
    BY <1>2, Zenon DEF Resamplers
  <2>4. QED
    BY <1>1, <1>2, <2>1, <2>2, <2>3 DEF BufferHeld
<1>3. CASE limit > r.next /\ rs' = [r EXCEPT !.ok = FALSE] /\ UNCHANGED made
  <2>1. rs' \in Resamplers
    BY <1>3 DEF Resamplers
  <2>2. rs'.in = r.in /\ rs'.out = r.out /\ rs'.given = r.given /\ rs'.next = r.next /\ rs'.buf = r.buf /\ rs'.base = r.base
    BY <1>3 DEF Resamplers
  <2>3. rs'.finished = r.finished /\ ~rs'.ok
    BY <1>3, Zenon DEF Resamplers
  <2>4. QED
    BY <1>1, <1>3, <2>1, <2>2, <2>3 DEF BufferHeld
<1>4. CASE /\ limit > r.next /\ rs' = [Dropped(r, limit) EXCEPT !.ok = TRUE]
           /\ made' = made \o [k \in 1..(limit - r.next) |-> resample_one(r.buf, r.base, r.given, (r.next + k) - 1)]
  <2> DEFINE d == Dropped(r, limit)
  <2>1. /\ d \in Resamplers /\ BufferHeld(d)
        /\ d.in = r.in /\ d.out = r.out /\ d.given = r.given /\ d.next = limit /\ d.finished = r.finished
    BY <1>1, <1>4, DropHolds
  <2>2. rs' = [d EXCEPT !.ok = TRUE]
    BY <1>4
  <2> HIDE DEF d
  <2>3. rs' \in Resamplers
    BY <2>1, <2>2 DEF Resamplers
  <2>4. rs'.in = r.in /\ rs'.out = r.out /\ rs'.given = r.given /\ rs'.next = limit /\ rs'.buf = d.buf /\ rs'.base = d.base
    BY <2>1, <2>2 DEF Resamplers
  <2>5. rs'.finished = r.finished
    BY <2>1, <2>2, Zenon DEF Resamplers
  <2>6. BufferHeld(rs')
    BY <2>1, <2>4 DEF BufferHeld
  <2>7. made' = OutputsOf(limit, r.given)
    <3> DEFINE f == OutputsOf(limit, r.given)
               more == [k \in 1..(limit - r.next) |-> resample_one(r.buf, r.base, r.given, (r.next + k) - 1)]
    <3>1. made = [i \in 1..r.next |-> f[i]]
      BY <1>1, <1>4 DEF OutputsOf
    <3>2. ASSUME NEW k \in 1..(limit - r.next)
          PROVE  resample_one(r.buf, r.base, r.given, (r.next + k) - 1) = f[r.next + k]
      <4> DEFINE i == (r.next + k) - 1
      <4>1. i \in Nat /\ r.next <= i /\ i + 1 = r.next + k /\ r.next + k \in 1..limit
        BY <1>1, SMTT(40)
      <4>2. HalfWidth \in Nat /\ Pos(r.next) \in Nat /\ Pos(i) \in Nat /\ Pos(r.next) <= Pos(i)
        BY <1>1, <4>1, Positions, PositionIs, RatesAssumption DEF Pos
      <4>3. r.base = 0 \/ r.base <= Pos(i) - HalfWidth
        BY <1>1, <4>2 DEF BufferHeld, KeepFrom
      <4>. HIDE DEF i
      <4>4. resample_one(r.buf, r.base, r.given, i) = resample_one(Whole(r.given), 0, r.given, i)
        <5>1. r.base + Len(r.buf) = r.given /\ \A j \in 1..Len(r.buf) : r.buf[j] = r.base + j
          BY DEF BufferHeld
        <5>2. i \in Nat
          BY <4>1
        <5>3. QED
          BY <1>1, <4>3, <5>1, <5>2, TapsFromBuffer, ZenonT(60)
      <4>5. f[r.next + k] = resample_one(Whole(r.given), 0, r.given, i)
        BY <4>1 DEF OutputsOf
      <4>6. QED
        BY <4>4, <4>5 DEF i
    <3>3. more = [k \in 1..(limit - r.next) |-> f[r.next + k]]
      BY <3>2
    <3>4. made' = made \o more
      BY <1>4
    <3> DEFINE a == r.next
               b == limit - r.next
    <3>5. a \in Nat /\ b \in Nat /\ a + b = limit
      BY <1>1, <1>4
    <3> HIDE DEF f, more
    <3>6. made = [i \in 1..a |-> f[i]] /\ more = [k \in 1..b |-> f[a + k]]
      BY <3>1, <3>3
    <3> HIDE DEF a, b
    <3>8. made \o more = [i \in 1..(a + b) |-> f[i]]
      BY <3>5, <3>6, Stretches
    <3>7. f = [i \in 1..limit |-> f[i]]
      BY DEF f, OutputsOf
    <3>9. QED
      BY <3>4, <3>5, <3>7, <3>8 DEF f
  <2>8. rs'.next >= limit
    BY <2>4
  <2>9. QED
    BY <1>4, <2>3, <2>4, <2>5, <2>6, <2>7, <2>8
<1>5. QED
  BY <1>2, <1>3, <1>4 DEF rs_emit

(* The rates never change, so neither do positions.                        *)
LEMMA RatesStay ==
    ASSUME rs'.in = rs.in, rs'.out = rs.out, NEW a, NEW b
    PROVE  /\ BufferHeld(rs') => BufferHeld(rs)'
           /\ n_out(rs'.given) = n_out(rs.given)'
           /\ Final(a, rs'.given) = Final(a, rs.given)'
           /\ OutputsOf(rs'.next, rs'.given) = OutputsOf(rs.next, rs.given)'
<1>1. \A i : (i * rs.in) \div rs.out = (i * rs'.in) \div rs'.out
  OBVIOUS
<1>2. BufferHeld(rs') => BufferHeld(rs)'
  BY <1>1 DEF BufferHeld, KeepFrom, Pos
<1>3. n_out(rs'.given) = n_out(rs.given)' /\ Final(a, rs'.given) = Final(a, rs.given)'
  BY <1>1, Zenon DEF n_out, Final, Pos
<1>4. OutputsOf(rs'.next, rs'.given) = OutputsOf(rs.next, rs.given)'
  BY <1>1, Zenon DEF OutputsOf, resample_one, Whole, Pos
<1>5. QED
  BY <1>2, <1>3, <1>4

(* What has been made so far is a beginning of what a whole-file call makes.*)
LEMMA NotPastEnd ==
    ASSUME rs.in \in Nat \ {0}, rs.out \in Nat \ {0}, NEW next \in Nat, NEW len \in Nat,
           \A i \in 0..(next - 1) : Final(i, len)
    PROVE  next <= n_out(len) /\ n_out(len) \in Nat
<1>1. n_out(len) \in Nat /\ n_out(len) >= 1
  <2>1. (len * rs.out) \div rs.in \in Nat
    BY PositionIs
  <2>2. QED
    BY <2>1 DEF n_out
<1>2. ASSUME next > n_out(len) PROVE FALSE
  <2>1. next - 1 \in Nat /\ next - 1 \in 0..(next - 1) /\ next - 1 >= n_out(len)
    BY <1>1, <1>2
  <2>2. ~Final(next - 1, len)
    BY <2>1, EndNotFinal
  <2>3. QED
    BY <2>1, <2>2
<1>3. QED
  BY <1>1, <1>2

LEMMA RsFields ==
    ASSUME rs \in Resamplers
    PROVE  /\ rs.in \in Nat \ {0} /\ rs.out \in Nat \ {0} /\ rs.buf \in Seq(Nat) /\ Len(rs.buf) \in Nat
           /\ rs.base \in Nat /\ rs.next \in Nat /\ rs.given \in Nat
  BY DEF Resamplers

(* A push at equal rates hands its samples on.                             *)
LEMMA PassOnKeeps ==
    ASSUME ResampleInv, rs.in = rs.out, NEW n \in Nat, rs' = [rs EXCEPT !.given = @ + n, !.ok = TRUE],
           made' = made \o [i \in 1..n |-> rs.given + i]
    PROVE  ResampleInv'
<1>1. rs \in Resamplers /\ made = Whole(rs.given)
  BY DEF ResampleInv
<1>2. rs' \in Resamplers /\ rs'.in = rs.in /\ rs'.out = rs.out /\ rs'.given = rs.given + n
  <2>1. rs.given + n \in Nat
    BY <1>1, RsFields
  <2>2. rs' = [rs EXCEPT !.given = rs.given + n, !.ok = TRUE]
    OBVIOUS
  <2>3. QED
    BY <1>1, <2>1, <2>2 DEF Resamplers
<1> DEFINE g == rs.given
           f == Whole(g + n)
           more == [i \in 1..n |-> g + i]
<1>3. g \in Nat
  BY <1>1 DEF Resamplers
<1>4. made' = made \o more
  OBVIOUS
<1>5. f = [i \in 1..(g + n) |-> f[i]]
  BY DEF Whole
<1>6. made = [i \in 1..g |-> f[i]]
  BY <1>1, <1>3 DEF Whole
<1>7. more = [k \in 1..n |-> f[g + k]]
  BY <1>3 DEF Whole
<1>8. rs'.given = g + n
  BY <1>2
<1> HIDE DEF f, more, g
<1>9. made \o more = [i \in 1..(g + n) |-> f[i]]
  BY <1>3, <1>6, <1>7, Stretches
<1>10. made' = Whole(g + n)
  BY <1>4, <1>5, <1>9 DEF f
<1>11. Whole(rs.given)' = Whole(g + n)
  BY <1>8 DEF Whole
<1>12. QED
  BY <1>2, <1>10, <1>11 DEF ResampleInv

(* A push takes its samples behind those it has, and outputs that were     *)
(* final before they came are as they were.                                *)
LEMMA TakesMore ==
    ASSUME ResampleInv, rs.in # rs.out, ~rs.finished, NEW n \in Nat, NEW r,
           r = [rs EXCEPT !.buf = rs.buf \o [i \in 1..n |-> rs.given + i], !.given = rs.given + n]
    PROVE  /\ r \in Resamplers /\ r.in = rs.in /\ r.out = rs.out /\ r.next = rs.next /\ ~r.finished
           /\ r.base = rs.base /\ r.base + Len(r.buf) = r.given /\ BufferHeld(r) /\ made = OutputsOf(r.next, r.given)
           /\ \A i \in 0..(r.next - 1) : Final(i, r.given)
<1> DEFINE more == [i \in 1..n |-> rs.given + i]
           buf == rs.buf \o more
<1>1. /\ rs \in Resamplers /\ BufferHeld(rs) /\ made = OutputsOf(rs.next, rs.given)
      /\ \A i \in 0..(rs.next - 1) : Final(i, rs.given)
  BY DEF ResampleInv
<1>2. /\ rs.in \in Nat \ {0} /\ rs.out \in Nat \ {0} /\ rs.buf \in Seq(Nat) /\ Len(rs.buf) \in Nat
      /\ rs.base \in Nat /\ rs.next \in Nat /\ rs.given \in Nat
  BY <1>1, RsFields
<1>3. more \in Seq(Nat) /\ Len(more) = n /\ \A i \in 1..n : more[i] = rs.given + i
  BY <1>2
<1> HIDE DEF more
<1>4. buf \in Seq(Nat) /\ Len(buf) = Len(rs.buf) + n
      /\ \A k \in 1..(Len(rs.buf) + n) : buf[k] = IF k <= Len(rs.buf) THEN rs.buf[k] ELSE more[k - Len(rs.buf)]
  BY <1>2, <1>3, ConcatProperties, ZenonT(60)
<1> HIDE DEF buf
<1>5. r = [rs EXCEPT !.buf = buf, !.given = rs.given + n]
  BY DEF buf, more
<1>6. r \in Resamplers
  <2>1. buf \in Seq(Nat) /\ rs.given + n \in Nat
    BY <1>2, <1>4
  <2>2. QED
    BY <1>1, <1>5, <2>1 DEF Resamplers
<1>7. /\ r.in = rs.in /\ r.out = rs.out /\ r.next = rs.next /\ r.base = rs.base
      /\ r.buf = buf /\ r.given = rs.given + n
  BY <1>1, <1>5 DEF Resamplers
<1>8. ~r.finished
  BY <1>1, <1>5, Zenon DEF Resamplers
<1>9. BufferHeld(r)
  <2>1. rs.base + Len(rs.buf) = rs.given /\ \A k \in 1..Len(rs.buf) : rs.buf[k] = rs.base + k
    BY <1>1 DEF BufferHeld
  <2>2. r.base + Len(r.buf) = r.given
    <3>1. Len(r.buf) = Len(rs.buf) + n
      BY <1>4, <1>7
    <3>2. QED
      BY <1>2, <1>7, <2>1, <3>1
  <2>3. ASSUME NEW k \in 1..Len(r.buf) PROVE r.buf[k] = r.base + k
    <3>1. k \in 1..(Len(rs.buf) + n) /\ r.buf[k] = buf[k]
      BY <1>4, <1>7
    <3>2. CASE k <= Len(rs.buf)
      BY <1>2, <1>4, <1>7, <2>1, <3>1, <3>2
    <3>3. CASE k > Len(rs.buf)
      <4>1. k - Len(rs.buf) \in 1..n
        BY <1>2, <3>1, <3>3, SMTT(40)
      <4>2. buf[k] = rs.given + (k - Len(rs.buf))
        BY <1>2, <1>3, <1>4, <3>1, <3>3, <4>1, SMTT(40)
      <4>3. QED
        BY <1>2, <1>7, <2>1, <3>1, <4>2
    <3>4. QED
      BY <1>2, <3>1, <3>2, <3>3
  <2>4. r.base = 0 \/ r.base <= KeepFrom(r.next)
    BY <1>1, <1>7 DEF BufferHeld
  <2>5. QED
    BY <2>2, <2>3, <2>4 DEF BufferHeld
<1>10. rs.given <= r.given /\ r.given \in Nat
  BY <1>2, <1>7
<1>11. ASSUME NEW i \in 0..(rs.next - 1)
       PROVE  /\ Final(i, r.given)
              /\ resample_one(Whole(rs.given), 0, rs.given, i) = resample_one(Whole(r.given), 0, r.given, i)
  <2>1. i \in Nat /\ Final(i, rs.given)
    BY <1>1, <1>2
  <2>2. QED
    BY <1>2, <1>10, <2>1, FinalStays
<1>12. made = OutputsOf(r.next, r.given)
  <2>1. \A i \in 1..rs.next : resample_one(Whole(rs.given), 0, rs.given, i - 1) = resample_one(Whole(r.given), 0, r.given, i - 1)
    <3>1. \A i \in 1..rs.next : i - 1 \in 0..(rs.next - 1)
      BY <1>2
    <3>2. QED
      BY <1>11, <3>1
  <2>2. QED
    BY <1>1, <1>7, <2>1 DEF OutputsOf
<1>13. r.base + Len(r.buf) = r.given
  BY <1>9 DEF BufferHeld
<1>14. QED
  BY <1>6, <1>7, <1>8, <1>9, <1>11, <1>12, <1>13

(* A push without room leaves everything as it was, its status apart.      *)
LEMMA NoRoomKeeps ==
    ASSUME ResampleInv, ~rs.finished, NoRoom
    PROVE  ResampleInv'
<1>1. rs \in Resamplers /\ rs' = [rs EXCEPT !.ok = FALSE] /\ made' = made
  BY DEF ResampleInv, NoRoom
<1>2. /\ rs' \in Resamplers /\ rs'.in = rs.in /\ rs'.out = rs.out /\ rs'.buf = rs.buf /\ rs'.base = rs.base
      /\ rs'.next = rs.next /\ rs'.given = rs.given /\ rs'.finished = rs.finished /\ rs'.ok = FALSE
  BY <1>1 DEF Resamplers
<1>3. CASE rs.in = rs.out
  BY <1>1, <1>2, <1>3 DEF ResampleInv, Whole
<1>4. CASE rs.in # rs.out
  <2>1. /\ BufferHeld(rs) /\ made = OutputsOf(rs.next, rs.given)
        /\ \A i \in 0..(rs.next - 1) : Final(i, rs.given)
    BY <1>4 DEF ResampleInv
  <2>2. BufferHeld(rs)
    BY <2>1
  <2>3. BufferHeld(rs')
    BY <1>2, <2>2 DEF BufferHeld
  <2>4. BufferHeld(rs)' /\ made' = OutputsOf(rs.next, rs.given)'
    BY <1>1, <1>2, <2>1, <2>3, RatesStay
  <2>5. ASSUME NEW i \in 0..(rs'.next - 1) PROVE Final(i, rs.given)'
    BY <1>2, <2>1, RatesStay
  <2>6. QED
    BY <1>2, <1>4, <2>4, <2>5 DEF ResampleInv
<1>5. QED
  BY <1>3, <1>4

LEMMA PushKeeps ==
    ASSUME ResampleInv, ~rs.finished, NEW n \in Pushes, TakeIn(n)
    PROVE  ResampleInv'
<1>1. n \in Nat
  BY RatesAssumption
<1>2. CASE rs.in = rs.out
  BY <1>1, <1>2, PassOnKeeps DEF TakeIn
<1>3. CASE rs.in # rs.out
  <2> DEFINE r == [rs EXCEPT !.buf = rs.buf \o [i \in 1..n |-> rs.given + i], !.given = rs.given + n]
             have == rs.base + Len(r.buf)
             limit == Limit(rs.next, have)
  <2>1. ~rs.finished /\ rs_emit(r, limit, have)
    BY <1>3 DEF TakeIn
  <2> HIDE DEF limit
  <2>2. /\ r \in Resamplers /\ r.in = rs.in /\ r.out = rs.out /\ r.next = rs.next /\ ~r.finished
        /\ r.base = rs.base /\ r.base + Len(r.buf) = r.given /\ BufferHeld(r) /\ made = OutputsOf(r.next, r.given)
        /\ \A i \in 0..(r.next - 1) : Final(i, r.given)
    BY <1>1, <1>3, <2>1, TakesMore
  <2>3. have = r.given
    BY <2>2
  <2> HIDE DEF r, have
  <2>4. rs \in Resamplers /\ rs.in \in Nat \ {0} /\ rs.out \in Nat \ {0} /\ rs.next \in Nat
    BY RsFields DEF ResampleInv
  <2>5. r.given \in Nat
    BY <2>2 DEF Resamplers
  <2>6. rs.next <= n_out(r.given)
    BY <2>2, <2>4, <2>5, NotPastEnd
  <2>7. limit \in Nat /\ rs.next <= limit /\ \A i \in rs.next..(limit - 1) : Final(i, r.given)
    BY <2>3, <2>4, <2>5, <2>6, LimitIs DEF limit
  <2>8. /\ rs' \in Resamplers /\ rs'.in = r.in /\ rs'.out = r.out /\ rs'.given = r.given /\ rs'.finished = r.finished
        /\ BufferHeld(rs') /\ made' = OutputsOf(rs'.next, r.given)
        /\ rs'.next = r.next \/ (rs'.next = limit /\ limit > r.next)
    BY <2>1, <2>2, <2>3, <2>4, <2>7, EmitMakes
  <2>9. rs'.in = rs.in /\ rs'.out = rs.out
    BY <2>2, <2>8
  <2>10. BufferHeld(rs)' /\ made' = OutputsOf(rs.next, rs.given)'
    BY <2>8, <2>9, RatesStay
  <2>11. ASSUME NEW i \in 0..(rs'.next - 1) PROVE Final(i, rs.given)'
    <3>1. Final(i, rs'.given)
      BY <2>2, <2>4, <2>7, <2>8
    <3>2. QED
      BY <2>9, <3>1, RatesStay
  <2>12. ~rs'.finished
    BY <2>2, <2>8
  <2>13. QED
    BY <1>3, <2>8, <2>9, <2>10, <2>11, <2>12 DEF ResampleInv
<1>4. QED
  BY <1>2, <1>3

LEMMA FinishKeeps ==
    ASSUME ResampleInv, vv_resampler_finish
    PROVE  ResampleInv'
<1> DEFINE r == [rs EXCEPT !.finished = TRUE]
           len == rs.base + Len(rs.buf)
<1>1. rs \in Resamplers /\ ~rs.finished
  BY DEF ResampleInv, vv_resampler_finish
<1>2. /\ rs.in \in Nat \ {0} /\ rs.out \in Nat \ {0} /\ rs.buf \in Seq(Nat) /\ Len(rs.buf) \in Nat
      /\ rs.base \in Nat /\ rs.next \in Nat /\ rs.given \in Nat
  BY <1>1, RsFields
<1>3. CASE rs.in = rs.out \/ len = 0
  <2>1. rs' = [rs EXCEPT !.finished = TRUE, !.ok = TRUE] /\ made' = made
    BY <1>3 DEF vv_resampler_finish
  <2>2. rs' \in Resamplers
    BY <1>1, <2>1 DEF Resamplers
  <2>3. /\ rs'.in = rs.in /\ rs'.out = rs.out /\ rs'.next = rs.next /\ rs'.given = rs.given
        /\ rs'.buf = rs.buf /\ rs'.base = rs.base
    BY <1>1, <2>1 DEF Resamplers
  <2>4. rs'.finished
    BY <1>1, <2>1, Zenon DEF Resamplers
  <2>5. CASE rs.in = rs.out
    <3>1. made' = Whole(rs.given)'
      BY <2>1, <2>3, <2>5 DEF ResampleInv, Whole
    <3>2. QED
      BY <2>2, <2>3, <2>5, <3>1 DEF ResampleInv
  <2>6. CASE rs.in # rs.out
    <3>1. BufferHeld(rs) /\ made = OutputsOf(rs.next, rs.given) /\ \A i \in 0..(rs.next - 1) : Final(i, rs.given)
      BY <1>1, <2>6 DEF ResampleInv
    <3>2. rs.given = 0
      BY <1>3, <2>6, <3>1 DEF BufferHeld
    <3>3. rs.next = 0
      <4>1. ~Final(0, rs.given)
        <5>1. Pos(0) \in Nat /\ HalfWidth \in Nat
          BY <1>2, PositionIs, RatesAssumption DEF Pos
        <5>2. QED
          BY <3>2, <5>1 DEF Final
      <4>2. rs.next > 0 => 0 \in 0..(rs.next - 1)
        BY <1>2
      <4>3. QED
        BY <1>2, <3>1, <4>1, <4>2
    <3>4. BufferHeld(rs')
      BY <2>3, <3>1 DEF BufferHeld
    <3>5. made' = OutputsOf(rs'.next, rs'.given)
      BY <2>1, <2>3, <3>1
    <3>6. BufferHeld(rs)' /\ made' = OutputsOf(rs.next, rs.given)'
      BY <2>3, <3>4, <3>5, RatesStay
    <3>7. QED
      BY <2>2, <2>3, <2>4, <2>6, <3>2, <3>3, <3>6 DEF ResampleInv
  <2>7. QED
    BY <2>5, <2>6
<1>4. CASE rs.in # rs.out /\ len # 0
  <2>1. rs_emit(r, n_out(len), len)
    BY <1>4 DEF vv_resampler_finish
  <2>2. BufferHeld(rs) /\ made = OutputsOf(rs.next, rs.given) /\ \A i \in 0..(rs.next - 1) : Final(i, rs.given)
    BY <1>1, <1>4 DEF ResampleInv
  <2>3. len = rs.given
    BY <2>2 DEF BufferHeld
  <2>4. r \in Resamplers
    BY <1>1 DEF Resamplers
  <2>5. /\ r.in = rs.in /\ r.out = rs.out /\ r.next = rs.next /\ r.given = rs.given
        /\ r.buf = rs.buf /\ r.base = rs.base
    BY <1>1 DEF Resamplers
  <2>6. r.finished
    BY <1>1, Zenon DEF Resamplers
  <2> HIDE DEF r, len
  <2>7. rs.next <= n_out(rs.given) /\ n_out(rs.given) \in Nat
    BY <1>2, <2>2, NotPastEnd
  <2>8. BufferHeld(r) /\ made = OutputsOf(r.next, r.given) /\ rs_emit(r, n_out(rs.given), r.given)
    BY <2>1, <2>2, <2>3, <2>5 DEF BufferHeld
  <2>9. /\ rs' \in Resamplers /\ rs'.in = r.in /\ rs'.out = r.out /\ rs'.given = r.given /\ rs'.finished = r.finished
        /\ BufferHeld(rs') /\ made' = OutputsOf(rs'.next, r.given)
        /\ rs'.next = r.next \/ (rs'.next = n_out(rs.given) /\ n_out(rs.given) > r.next)
        /\ rs'.ok => rs'.next >= n_out(rs.given)
    BY <1>2, <2>4, <2>7, <2>8, EmitMakes
  <2>10. rs'.in = rs.in /\ rs'.out = rs.out /\ rs'.given = rs.given /\ rs'.finished
    BY <2>5, <2>6, <2>9
  <2>11. BufferHeld(rs)' /\ made' = OutputsOf(rs.next, rs.given)' /\ n_out(rs'.given) = n_out(rs.given)'
    BY <2>5, <2>9, <2>10, RatesStay
  <2>12. rs'.ok => rs'.next = n_out(rs.given)'
    <3>1. rs'.ok => rs'.next = n_out(rs.given)
      BY <1>2, <2>5, <2>7, <2>9
    <3>2. QED
      BY <2>10, <2>11, <3>1
  <2>13. rs'.given # 0
    BY <1>4, <2>3, <2>10
  <2>14. QED
    BY <1>4, <2>9, <2>10, <2>11, <2>12, <2>13 DEF ResampleInv
<1>5. QED
  BY <1>3, <1>4

LEMMA ResampleStarts == ResampleInit => ResampleInv
<1> SUFFICES ASSUME ResampleInit PROVE ResampleInv
  OBVIOUS
<1>1. PICK q \in Rates : rs = [in |-> q[1], out |-> q[2], buf |-> <<>>, base |-> 0, next |-> 0, given |-> 0,
                               finished |-> FALSE, ok |-> TRUE] /\ made = <<>>
  BY DEF ResampleInit, vv_resampler_create
<1>2. q[1] \in Nat \ {0} /\ q[2] \in Nat \ {0}
  BY RatesAssumption
<1>3. rs \in Resamplers
  BY <1>1, <1>2 DEF Resamplers
<1>4. rs.buf = <<>> /\ rs.base = 0 /\ rs.next = 0 /\ rs.given = 0 /\ Len(rs.buf) = 0
  BY <1>1
<1>5. ~rs.finished
  BY <1>1, Zenon
<1>6. made = Whole(0) /\ made = OutputsOf(0, 0)
  BY <1>1 DEF Whole, OutputsOf
<1>7. BufferHeld(rs) /\ \A i \in 0..(rs.next - 1) : Final(i, rs.given)
  BY <1>4 DEF BufferHeld
<1>8. QED
  BY <1>3, <1>4, <1>5, <1>6, <1>7 DEF ResampleInv

LEMMA ResampleReads == ResampleInv => StreamIsBatch
<1> SUFFICES ASSUME ResampleInv, rs.finished, rs.ok
             PROVE  IF rs.given = 0 THEN made = <<>> ELSE made = vv_audio_resample(rs.given)
  BY DEF StreamIsBatch
<1>1. CASE rs.in = rs.out
  <2>1. made = Whole(rs.given)
    BY <1>1 DEF ResampleInv
  <2>2. Whole(0) = <<>>
    BY DEF Whole
  <2>3. QED
    BY <1>1, <2>1, <2>2 DEF vv_audio_resample
<1>2. CASE rs.in # rs.out
  <2>1. made = OutputsOf(rs.next, rs.given) /\ rs.next = IF rs.given = 0 THEN 0 ELSE n_out(rs.given)
    BY <1>2 DEF ResampleInv
  <2>2. OutputsOf(0, 0) = <<>>
    BY DEF OutputsOf
  <2>3. OutputsOf(n_out(rs.given), rs.given) = vv_audio_resample(rs.given)
    BY <1>2 DEF OutputsOf, vv_audio_resample
  <2>4. QED
    BY <2>1, <2>2, <2>3
<1>3. QED
  BY <1>1, <1>2

(* For every pair of rates, every width of the filter and every way to cut *)
(* the input into pushes, a stream that finished well has made what one    *)
(* whole-file call makes of the same input (vv_resampler_push,             *)
(* vv_resampler_finish).                                                   *)
THEOREM StreamResamplesAsWhole == ResampleSpec => []StreamIsBatch
<1>1. ResampleInit => ResampleInv
  BY ResampleStarts
<1>2. ResampleInv /\ [ResampleNext]_resampleVars => ResampleInv'
  <2> SUFFICES ASSUME ResampleInv, [ResampleNext]_resampleVars PROVE ResampleInv'
    OBVIOUS
  <2>1. CASE vv_resampler_finish
    BY <2>1, FinishKeeps
  <2>2. CASE \E n \in Pushes : vv_resampler_push(n)
    BY <2>2, NoRoomKeeps, PushKeeps DEF vv_resampler_push
  <2>3. CASE UNCHANGED resampleVars
    <3>1. rs' = rs /\ made' = made
      BY <2>3 DEF resampleVars
    <3>2. QED
      BY <3>1 DEF ResampleInv, BufferHeld, OutputsOf, KeepFrom, Final, n_out, resample_one, Whole, Pos
  <2>4. QED
    BY <2>1, <2>2, <2>3 DEF ResampleNext
<1>3. ResampleInv => StreamIsBatch
  BY ResampleReads
<1>4. QED
  BY <1>1, <1>2, <1>3, PTL DEF ResampleSpec

-----------------------------------------------------------------------------
(* Who owns what: every stage of a context's life keeps the ledger. The    *)
(* stages before the device, on the way up, and in service each have their *)
(* own account of what the first context holds.                            *)

LEMMA OfIs ==
    ASSUME NEW c, NEW d, NEW w, NEW names
    PROVE  <<c, w>> \in Of(d, names) <=> c = d /\ w \in names
  BY DEF Of

LEMMA OwnedIs ==
    ASSUME NEW w
    PROVE  w \in HostOwned <=>
             \/ w = "model"
             \/ w = "h_embed" /\ "embed" \notin onGpu
             \/ w = "h_encoders" /\ "encoders" \notin onGpu
             \/ w = "h_resident" /\ "layers" \notin onGpu
             \/ w = "h_streamed" /\ Streaming /\ ~staged
             \/ w = "h_head" /\ ~conf.tied /\ "head" \notin onGpu
<1>1. w \in HostWeights <=> w \in {"h_embed", "h_encoders", "h_resident"} \/ (w = "h_streamed" /\ Streaming) \/ (w = "h_head" /\ ~conf.tied)
  BY DEF HostWeights
<1>2. /\ OnDevice["h_embed"] = "embed" /\ OnDevice["h_head"] = "head"
      /\ OnDevice["h_encoders"] = "encoders" /\ OnDevice["h_resident"] = "layers"
  BY DEF OnDevice
<1>3. w \in HostOwned <=> w = "model" \/ (w \in HostWeights /\ IF w = "h_streamed" THEN ~staged ELSE OnDevice[w] \notin onGpu)
  BY DEF HostOwned
<1>4. QED
  BY <1>1, <1>2, <1>3

LEMMA OwnedNext ==
    ASSUME NEW w
    PROVE  w \in HostOwned' <=>
             \/ w = "model"
             \/ w = "h_embed" /\ "embed" \notin onGpu'
             \/ w = "h_encoders" /\ "encoders" \notin onGpu'
             \/ w = "h_resident" /\ "layers" \notin onGpu'
             \/ w = "h_streamed" /\ Streaming' /\ ~staged'
             \/ w = "h_head" /\ ~conf'.tied /\ "head" \notin onGpu'
<1>1. w \in HostWeights' <=> w \in {"h_embed", "h_encoders", "h_resident"} \/ (w = "h_streamed" /\ Streaming') \/ (w = "h_head" /\ ~conf'.tied)
  BY DEF HostWeights
<1>2. /\ OnDevice["h_embed"] = "embed" /\ OnDevice["h_head"] = "head"
      /\ OnDevice["h_encoders"] = "encoders" /\ OnDevice["h_resident"] = "layers"
  BY DEF OnDevice
<1>3. w \in HostOwned' <=> w = "model" \/ (w \in HostWeights' /\ IF w = "h_streamed" THEN ~staged' ELSE OnDevice[w] \notin onGpu')
  BY DEF HostOwned
<1>4. QED
  BY <1>1, <1>2, <1>3

LEMMA HostWeightsIs ==
    ASSUME NEW w
    PROVE  w \in HostWeights <=> w \in {"h_embed", "h_encoders", "h_resident"} \/ (w = "h_streamed" /\ Streaming) \/ (w = "h_head" /\ ~conf.tied)
  BY DEF HostWeights

LEMMA HasFewer ==
    ASSUME NEW res, live' = live \ res, NEW c, NEW w
    PROVE  Has(c, w)' <=> Has(c, w) /\ <<c, w>> \notin res
  BY DEF Has

LEMMA StageIs ==
    ASSUME Early \/ OnGpuUp
    PROVE  ~Ended /\ ~Served /\ Top = 0 /\ stage \notin {"attach", "clone", "up", "freeing"}
  BY DEF Early, OnGpuUp, Ended, Served, Top

(* A way out of the bring-up that gives back only what there is.           *)
LEMMA FailKeeps ==
    ASSUME LifeInv, Early \/ OnGpuUp, NEW res, res \subseteq live,
           live' = live \ res, twice' = twice \cup (res \ live), stage' = "failed",
           conf' = conf, cur' = cur, slots' = slots, onGpu' = onGpu, staged' = staged, refs' \in Int,
           <<0, "kv">> \notin live'
    PROVE  LifeInv'
<1>1. ~Ended /\ ~Served /\ Top = 0
  BY StageIs
<1>2. ~Early' /\ ~OnGpuUp' /\ ~Served' /\ Ended' /\ Top' = 0 /\ Streaming' = Streaming
  BY DEF Early, OnGpuUp, Served, Ended, Top, Streaming
<1>3. twice' = twice /\ live' \subseteq live
  OBVIOUS
<1>4. \A c, w : Has(c, w)' => Has(c, w)
  BY <1>3 DEF Has
<1>5. LifeTypes'
  BY <1>2, <1>3 DEF LifeInv, LifeTypes
<1>6. PathIs'
  BY <1>2 DEF PathIs
<1>7. PoolShared'
  BY <1>2, <1>4 DEF LifeInv, PoolShared
<1>8. WeightsHeld'
  <2>1. \A w : w \in HostOwned' <=> w \in HostOwned
    BY <1>2, OwnedIs, OwnedNext
  <2>2. QED
    BY <1>2, <1>4, <2>1 DEF LifeInv, WeightsHeld
<1>9. OwnersExist'
  <2>1. \A c \in Contexts, w \in Names : c # 0 => ~Has(c, w)
    BY <1>1 DEF LifeInv, OwnersExist, Contexts
  <2>2. \A c \in Contexts : ~Has(c, "kv")'
    BY <1>4, <2>1 DEF Has, Names, FirstNames, CloneNames
  <2>3. \A c \in Contexts : ~Has(c, "fe_stream")'
    BY <1>1, <1>4 DEF LifeInv, OwnersExist
  <2>4. QED
    BY <1>2, <1>4, <2>1, <2>2, <2>3 DEF LifeInv, OwnersExist
<1>10. FreesOwn'
  BY <1>3 DEF LifeInv, FreesOwn
<1>11. QED
  BY <1>5, <1>6, <1>7, <1>8, <1>9, <1>10 DEF LifeInv

(* What a step of the bring-up has to see to.                              *)
Builds(new, gone) ==
    /\ new \subseteq Names /\ gone \subseteq WeightNames \cup {"encoders"}
    /\ live' = (live \cup Of(0, new)) \ Of(0, gone)
    /\ twice' = twice /\ conf' = conf /\ cur' = cur /\ slots' = slots /\ staged' = staged /\ refs' \in Int
    /\ Early' \/ OnGpuUp' \/ stage' = "attach"
    /\ Early' => onGpu' = {} /\ Early
    /\ OnGpuUp' \/ stage' \in {"streams", "kv"} => conf.place # "cpu"
    /\ stage' \in {"cpu", "reload"} => conf.place = "cpu"
    /\ "kv" \in new => ~Early'
    /\ "layers" \in new => conf.place # "cpu"
    /\ "fe_stream" \notin new
    /\ "pool" \in new => conf.paged
    /\ conf.paged /\ ~Early' => ("pool" \in new \/ OnGpuUp) /\ refs' = 1
    /\ OnGpuUp' /\ stage' # "layers" => "layers" \in new \/ (OnGpuUp /\ stage # "layers")
    /\ OnGpuUp' /\ stage' \notin {"layers", "staging"} => "staging" \in new \/ (OnGpuUp /\ stage \notin {"layers", "staging"})
    /\ stage' = "attach" /\ conf.place # "cpu" => stage = "norm"

BuildsWeights(new, gone) ==
    /\ stage' \notin {"load", "reload"} =>
         \A w \in HostOwned' : w \notin gone /\ (w \in new \/ (stage \notin {"load", "reload"} /\ w \in HostOwned))
    /\ \A w \in new : w \in gone \/ w \in FirstNames \/ w \in HostOwned'
    /\ \A w \in HostOwned : w \in gone \/ w \in HostOwned'

LEMMA BuildKeeps ==
    ASSUME LifeInv, Early \/ OnGpuUp, NEW new, NEW gone, Builds(new, gone), BuildsWeights(new, gone)
    PROVE  LifeInv'
<1>1. ~Ended /\ ~Served /\ Top = 0 /\ cur = 0 /\ slots = 0
  BY StageIs DEF LifeInv, PathIs
<1>2. cur' = 0 /\ slots' = 0 /\ conf' = conf /\ staged' = staged /\ twice' = twice /\ Streaming' = Streaming
  BY <1>1 DEF Builds, Streaming
<1>3. Top' = 0 /\ ~Ended' /\ stage' \notin {"clone", "up", "freeing"} /\ (Served' <=> stage' = "attach") /\ (OnGpuUp' \/ Served' => ~Early')
  BY <1>2 DEF Builds, Top, Early, OnGpuUp, Served, Ended
<1>4. \A c, w : Has(c, w)' <=> (Has(c, w) \/ (c = 0 /\ w \in new)) /\ ~(c = 0 /\ w \in gone)
  BY OfIs DEF Builds, Has
<1>5. \A w \in gone : w \notin CloneNames \cup {"pool", "layers", "staging", "frontend"}
  BY DEF Builds, WeightNames, CloneNames
<1>6. LifeTypes'
  <2>1. live' \subseteq Contexts \X Names
    <3>1. Of(0, new) \subseteq Contexts \X Names
      BY LifeAssumption DEF Builds, Of, Contexts
    <3>2. QED
      BY <3>1 DEF Builds, LifeInv, LifeTypes
  <2>2. QED
    BY <1>2, <2>1 DEF LifeInv, LifeTypes, Builds
<1>7. PathIs'
  <2>1. Early' => onGpu' = {} /\ ~staged'
    BY <1>2 DEF LifeInv, PathIs, Builds
  <2>2. 0 <= MaxClones
    BY LifeAssumption
  <2>3. QED
    BY <1>2, <1>3, <2>1, <2>2 DEF PathIs, Builds
<1>8. PoolShared'
  <2>1. Has(0, "pool") => conf.paged
    BY DEF LifeInv, PoolShared
  <2>2. conf.paged /\ OnGpuUp => Has(0, "pool")
    BY DEF LifeInv, PoolShared
  <2>3. "pool" \notin gone
    BY <1>5
  <2>4. Has(0, "pool")' => conf.paged
    BY <1>4, <2>1 DEF Builds
  <2>5. conf.paged /\ (OnGpuUp' \/ Served') => Has(0, "pool")' /\ refs' = 1
    BY <1>3, <1>4, <2>2, <2>3 DEF Builds
  <2>6. QED
    BY <1>2, <1>3, <2>4, <2>5 DEF PoolShared
<1>9. WeightsHeld'
  <2>1. stage \notin {"load", "reload"} => \A w \in HostOwned : Has(0, w)
    BY <1>1 DEF LifeInv, WeightsHeld
  <2>2. stage' \notin {"load", "reload"} => \A w \in HostOwned' : Has(0, w)'
    BY <1>4, <2>1 DEF BuildsWeights
  <2>3. ASSUME NEW w \in Names, Has(0, w)'
        PROVE  w \in FirstNames \cup HostOwned' \/ (w = "h_streamed" /\ staged')
    <3>1. CASE w \in new
      BY <1>4, <2>3, <3>1 DEF BuildsWeights
    <3>2. CASE Has(0, w)
      <4>1. w \in FirstNames \cup HostOwned \/ (w = "h_streamed" /\ staged)
        BY <3>2 DEF LifeInv, WeightsHeld
      <4>2. QED
        BY <1>2, <1>4, <2>3, <4>1 DEF BuildsWeights
    <3>3. QED
      BY <1>4, <2>3, <3>1, <3>2
  <2>4. QED
    BY <2>2, <2>3 DEF WeightsHeld
<1>10. OwnersExist'
  <2>1. \A c \in Contexts, w \in Names : c # 0 => ~Has(c, w)
    BY <1>1 DEF LifeInv, OwnersExist, Contexts
  <2>2. \A c \in 0..Top' : Has(c, "ctx")'
    <3>1. Has(0, "ctx")
      BY <1>1 DEF LifeInv, OwnersExist
    <3>2. Has(0, "ctx")'
      BY <1>4, <1>5, <3>1 DEF CloneNames
    <3>3. QED
      BY <1>3, <3>2
  <2>3. \A c \in Contexts, w \in Names : Has(c, w)' /\ c # 0 => c <= Top' /\ w \in CloneNames
    BY <1>4, <2>1
  <2>4. \A c \in Contexts : Has(c, "kv")' => OnGpuUp' \/ Served'
    BY <1>1, <1>3, <1>4 DEF LifeInv, OwnersExist, Builds, Early, OnGpuUp
  <2>5. \A c \in Contexts : ~Has(c, "fe_stream")'
    BY <1>1, <1>4 DEF LifeInv, OwnersExist, Builds
  <2>6. Has(0, "layers")' => conf'.place # "cpu"
    BY <1>2, <1>4 DEF LifeInv, OwnersExist, Builds
  <2>7. OnGpuUp' /\ stage' # "layers" => Has(0, "layers")'
    BY <1>4, <1>5 DEF LifeInv, OwnersExist, Builds
  <2>8. OnGpuUp' /\ stage' \notin {"layers", "staging"} => Has(0, "staging")'
    BY <1>4, <1>5 DEF LifeInv, OwnersExist, Builds
  <2>9. Served' /\ conf'.place # "cpu" => Has(0, "layers")' /\ Has(0, "staging")'
    BY <1>2, <1>3, <1>4, <1>5 DEF LifeInv, OwnersExist, Builds, OnGpuUp
  <2>10. QED
    BY <2>2, <2>3, <2>4, <2>5, <2>6, <2>7, <2>8, <2>9 DEF OwnersExist
<1>11. FreesOwn'
  BY <1>2, <1>3 DEF LifeInv, FreesOwn, Ended
<1>12. QED
  BY <1>6, <1>7, <1>8, <1>9, <1>10, <1>11 DEF LifeInv

LEMMA CtxThere ==
    ASSUME LifeInv, Early \/ OnGpuUp
    PROVE  Of(0, {"ctx"}) \subseteq live
<1>1. Has(0, "ctx")
  BY StageIs DEF LifeInv, OwnersExist
<1>2. QED
  BY <1>1 DEF Has, Of

LEMMA ModelThere ==
    ASSUME LifeInv, ~Ended, stage \notin {"load", "reload"}
    PROVE  ModelFree \subseteq live
<1>1. \A w \in HostOwned : Has(0, w)
  BY DEF LifeInv, WeightsHeld
<1>2. QED
  BY <1>1 DEF Has, ModelFree, Of

(* The ways out before there is a cache.                                   *)
LEMMA GiveUpKeeps ==
    ASSUME LifeInv, Early, stage \notin {"load", "reload"}, Free(ModelFree \cup Of(0, {"ctx"})), Go("failed")
    PROVE  LifeInv'
<1>1. ModelFree \cup Of(0, {"ctx"}) \subseteq live
  BY CtxThere, ModelThere, StageIs
<1>2. <<0, "kv">> \notin live'
  <2>1. ~Has(0, "kv")
    BY StageIs, LifeAssumption DEF LifeInv, OwnersExist, Contexts, Early, OnGpuUp
  <2>2. QED
    BY <2>1 DEF Has, Free
<1>3. refs' \in Int
  BY DEF Go, LifeInv, LifeTypes
<1>4. QED
  BY <1>1, <1>2, <1>3, FailKeeps DEF Free, Go

LEMMA NoModelKeeps ==
    ASSUME LifeInv, Early, Free(Of(0, {"ctx"})), Go("failed")
    PROVE  LifeInv'
<1>1. Of(0, {"ctx"}) \subseteq live
  BY CtxThere
<1>2. <<0, "kv">> \notin live'
  <2>1. ~Has(0, "kv")
    BY StageIs, LifeAssumption DEF LifeInv, OwnersExist, Contexts, Early, OnGpuUp
  <2>2. QED
    BY <2>1 DEF Has, Free
<1>3. refs' \in Int
  BY DEF Go, LifeInv, LifeTypes
<1>4. QED
  BY <1>1, <1>2, <1>3, FailKeeps DEF Free, Go

(* fail_gpu.                                                               *)
LEMMA FailGpuKeeps ==
    ASSUME LifeInv, stage = "kv" \/ OnGpuUp, FailGpu
    PROVE  LifeInv'
<1> DEFINE some == live \cap Of(0, {"encoders", "staging", "kv", "ws", "streams"})
           shared == IF <<0, "kv">> \in live /\ conf.paged THEN Of(0, {"pool"}) ELSE {}
           res == some \cup shared \cup ModelFree \cup Of(0, {"ctx"})
<1>1. Early \/ OnGpuUp
  BY DEF Early
<1>2. ModelFree \subseteq live /\ Of(0, {"ctx"}) \subseteq live
  <2>1. stage \notin {"load", "reload"}
    BY DEF OnGpuUp
  <2>2. QED
    BY <1>1, <2>1, CtxThere, ModelThere, StageIs
<1>3. shared \subseteq live
  <2>1. CASE <<0, "kv">> \in live /\ conf.paged
    <3>1. Has(0, "kv") /\ 0 \in Contexts
      BY <2>1, LifeAssumption DEF Has, Contexts
    <3>2. OnGpuUp
      BY <1>1, <3>1, StageIs DEF LifeInv, OwnersExist
    <3>3. Has(0, "pool")
      BY <2>1, <3>2 DEF LifeInv, PoolShared
    <3>4. QED
      BY <3>3 DEF Has, Of
  <2>2. QED
    BY <2>1
<1>4. live' = live \ res /\ twice' = twice \cup (res \ live)
  BY DEF FailGpu, Free
<1>5. <<0, "kv">> \notin live'
  <2>1. <<0, "kv">> \in live => <<0, "kv">> \in some
    BY OfIs
  <2>2. QED
    BY <1>4, <2>1
<1>6. refs' \in Int
  BY DEF FailGpu, LifeInv, LifeTypes
<1>7. res \subseteq live
  BY <1>2, <1>3
<1> HIDE DEF res
<1>8. QED
  BY <1>1, <1>4, <1>5, <1>6, <1>7, FailKeeps DEF FailGpu

(* A step that leaves the weights where they are.                          *)
LEMMA SameWeights ==
    ASSUME stage \notin {"load", "reload"}, onGpu' = onGpu, conf' = conf, staged' = staged,
           NEW new, new \subseteq FirstNames
    PROVE  BuildsWeights(new, {})
<1>1. \A w : w \in HostOwned' <=> w \in HostOwned
  BY OwnedIs, OwnedNext DEF Streaming
<1>2. QED
  BY <1>1 DEF BuildsWeights

(* A step within the bring-up that adds what is the first context's own.   *)
LEMMA AddKeeps ==
    ASSUME LifeInv, Early \/ OnGpuUp, stage \notin {"load", "reload"}, NEW new,
           new \subseteq FirstNames \ {"fe_stream"}, live' = Alloc(0, new),
           twice' = twice, conf' = conf, cur' = cur, slots' = slots, staged' = staged, onGpu' = onGpu, refs' \in Int,
           Early' \/ OnGpuUp' \/ stage' = "attach",
           Early' => Early,
           OnGpuUp' \/ stage' \in {"streams", "kv"} => conf.place # "cpu",
           stage' \in {"cpu", "reload"} => conf.place = "cpu",
           "kv" \in new => ~Early',
           "layers" \in new => conf.place # "cpu",
           "pool" \in new => conf.paged,
           conf.paged /\ ~Early' => ("pool" \in new \/ OnGpuUp) /\ refs' = 1,
           OnGpuUp' /\ stage' # "layers" => "layers" \in new \/ (OnGpuUp /\ stage # "layers"),
           OnGpuUp' /\ stage' \notin {"layers", "staging"} => "staging" \in new \/ (OnGpuUp /\ stage \notin {"layers", "staging"}),
           stage' = "attach" /\ conf.place # "cpu" => stage = "norm"
    PROVE  LifeInv'
<1>1. BuildsWeights(new, {})
  BY SameWeights
<1>2. live' = (live \cup Of(0, new)) \ Of(0, {})
  BY DEF Alloc, Of
<1>3. Early' => onGpu' = {}
  BY DEF LifeInv, PathIs
<1>4. Builds(new, {})
  BY <1>2, <1>3 DEF Builds, Names
<1>5. QED
  BY <1>1, <1>4, BuildKeeps

LEMMA LoadModelKeeps == ASSUME LifeInv, LoadModel PROVE LifeInv'
<1>1. stage = "load" /\ Early
  BY DEF LoadModel, Early
<1>2. CASE Free(Of(0, {"ctx"})) /\ Go("failed")
  BY <1>1, <1>2, NoModelKeeps
<1>3. CASE live' = Alloc(0, {"model"} \cup HostWeights) /\ Go("prepare") /\ UNCHANGED twice
  <2> DEFINE new == {"model"} \cup HostWeights
  <2>1. \A w : w \in new <=> w \in {"model", "h_embed", "h_encoders", "h_resident"} \/ (w = "h_streamed" /\ Streaming) \/ (w = "h_head" /\ ~conf.tied)
    BY HostWeightsIs
  <2>2. new \subseteq Names
    BY <2>1 DEF Names, WeightNames
  <2>3. /\ stage' = "prepare" /\ conf' = conf /\ cur' = cur /\ slots' = slots /\ refs' = refs /\ onGpu' = onGpu
        /\ staged' = staged /\ twice' = twice
    BY <1>3 DEF Go
  <2>4. live' = (live \cup Of(0, new)) \ Of(0, {})
    BY <1>3 DEF Alloc, Of
  <2>5. \A w : w \in HostOwned' <=> w \in HostOwned
    BY <2>3, OwnedIs, OwnedNext DEF Streaming
  <2>6. onGpu = {} /\ ~staged
    BY <1>1 DEF LifeInv, PathIs
  <2>7. \A w : w \in HostOwned <=> w \in new
    BY <2>1, <2>6, OwnedIs
  <2>8. "kv" \notin new /\ "layers" \notin new /\ "fe_stream" \notin new /\ "pool" \notin new
    BY <2>1
  <2> HIDE DEF new
  <2>9. BuildsWeights(new, {})
    BY <2>5, <2>7 DEF BuildsWeights
  <2>10. Early' /\ ~OnGpuUp' /\ refs \in Int
    BY <2>3 DEF Early, OnGpuUp, LifeInv, LifeTypes
  <2>11. Builds(new, {})
    BY <1>1, <2>2, <2>3, <2>4, <2>6, <2>8, <2>10 DEF Builds
  <2>12. QED
    BY <1>1, <2>9, <2>11, BuildKeeps
<1>4. QED
  BY <1>2, <1>3 DEF LoadModel

LEMMA NothingAdded == Alloc(0, {}) = live
  BY DEF Alloc, Of

LEMMA PrepareKeeps == ASSUME LifeInv, Prepare PROVE LifeInv'
<1>1. stage = "prepare" /\ Early /\ refs \in Int
  BY DEF Prepare, Early, LifeInv, LifeTypes
<1>2. CASE Free(ModelFree \cup Of(0, {"ctx"})) /\ Go("failed")
  BY <1>1, <1>2, GiveUpKeeps
<1>3. CASE Keep /\ Go("host")
  <2>1. /\ stage' = "host" /\ conf' = conf /\ cur' = cur /\ slots' = slots /\ refs' = refs /\ onGpu' = onGpu
        /\ staged' = staged /\ twice' = twice /\ live' = Alloc(0, {})
    BY <1>3, NothingAdded DEF Go, Keep
  <2>2. Early' /\ ~OnGpuUp'
    BY <2>1 DEF Early, OnGpuUp
  <2>3. QED
    BY <1>1, <2>1, <2>2, AddKeeps
<1>4. QED
  BY <1>2, <1>3 DEF Prepare

LEMMA BuildFrontendHostKeeps == ASSUME LifeInv, BuildFrontendHost PROVE LifeInv'
<1>1. stage = "host" /\ Early /\ refs \in Int
  BY DEF BuildFrontendHost, Early, LifeInv, LifeTypes
<1>2. PICK new \in {{}, {"encoders"}} : live' = Alloc(0, new)
  BY NothingAdded DEF BuildFrontendHost
<1>3. /\ stage' = "place" /\ conf' = conf /\ cur' = cur /\ slots' = slots /\ refs' = refs /\ onGpu' = onGpu
      /\ staged' = staged /\ twice' = twice
  BY DEF BuildFrontendHost, Go
<1>4. Early' /\ ~OnGpuUp'
  BY <1>3 DEF Early, OnGpuUp
<1>5. new \subseteq FirstNames \ {"fe_stream"} /\ "kv" \notin new /\ "layers" \notin new /\ "pool" \notin new
  BY DEF FirstNames
<1>6. QED
  BY <1>1, <1>2, <1>3, <1>4, <1>5, AddKeeps

LEMMA PlaceKeeps == ASSUME LifeInv, Place PROVE LifeInv'
<1>1. stage = "place" /\ Early /\ refs \in Int
  BY DEF Place, Early, LifeInv, LifeTypes
<1>2. CASE Keep /\ Go(IF conf.place = "cpu" THEN "cpu" ELSE "streams")
  <2>1. /\ stage' = (IF conf.place = "cpu" THEN "cpu" ELSE "streams")
        /\ conf' = conf /\ cur' = cur /\ slots' = slots /\ refs' = refs /\ onGpu' = onGpu
        /\ staged' = staged /\ twice' = twice /\ live' = Alloc(0, {})
    BY <1>2, NothingAdded DEF Go, Keep
  <2>2. Early' /\ ~OnGpuUp' /\ (stage' \in {"streams", "kv"} => conf.place # "cpu") /\ (stage' \in {"cpu", "reload"} => conf.place = "cpu")
    BY <2>1 DEF Early, OnGpuUp
  <2>3. stage' # "attach"
    BY <2>1
  <2>4. QED
    BY <1>1, <2>1, <2>2, <2>3, AddKeeps
<1>3. CASE /\ conf.place = "cpu" /\ conf.bitnet
           /\ Free(ModelFree \cup (live \cap Of(0, {"encoders"}))) /\ Go("reload")
  <2> DEFINE gone == HostOwned \cup {"encoders"}
  <2>1. ModelFree \subseteq live
    BY <1>1, ModelThere, StageIs
  <2>2. /\ stage' = "reload" /\ conf' = conf /\ cur' = cur /\ slots' = slots /\ refs' = refs /\ onGpu' = onGpu
        /\ staged' = staged /\ twice' = twice
    BY <1>3, <2>1 DEF Go, Free
  <2>3. live' = (live \cup Of(0, {})) \ Of(0, gone)
    BY <1>3 DEF Free, ModelFree, Of
  <2>4. gone \subseteq WeightNames \cup {"encoders"}
    BY OwnedIs DEF WeightNames
  <2>5. \A w : w \in HostOwned' <=> w \in HostOwned
    BY <2>2, OwnedIs, OwnedNext DEF Streaming
  <2>6. BuildsWeights({}, gone)
    BY <2>2, <2>5 DEF BuildsWeights
  <2> HIDE DEF gone
  <2>7. Early' /\ ~OnGpuUp' /\ onGpu = {}
    BY <1>1, <2>2 DEF Early, OnGpuUp, LifeInv, PathIs
  <2>8. Builds({}, gone)
    BY <1>1, <1>3, <2>2, <2>3, <2>4, <2>7 DEF Builds
  <2>9. QED
    BY <1>1, <2>6, <2>8, BuildKeeps
<1>4. QED
  BY <1>2, <1>3 DEF Place

LEMMA ReloadKeeps == ASSUME LifeInv, Reload PROVE LifeInv'
<1>1. stage = "reload" /\ Early /\ conf.place = "cpu"
  BY DEF Reload, Early, LifeInv, PathIs
<1>2. CASE Free(Of(0, {"ctx"})) /\ Go("failed")
  BY <1>1, <1>2, NoModelKeeps
<1>3. CASE /\ \E built \in {{}, {"encoders"}} : live' = Alloc(0, {"model"} \cup built \cup HostWeights)
           /\ Go("cpu") /\ UNCHANGED twice
  <2>0. PICK built \in {{}, {"encoders"}} : live' = Alloc(0, {"model"} \cup built \cup HostWeights)
    BY <1>3
  <2> DEFINE new == {"model"} \cup built \cup HostWeights
  <2>1. \A w : w \in new <=> w \in built \/ w \in {"model", "h_embed", "h_encoders", "h_resident"} \/ (w = "h_streamed" /\ Streaming) \/ (w = "h_head" /\ ~conf.tied)
    BY HostWeightsIs
  <2>2. new \subseteq Names
    BY <2>1 DEF Names, WeightNames, FirstNames
  <2>3. /\ stage' = "cpu" /\ conf' = conf /\ cur' = cur /\ slots' = slots /\ refs' = refs /\ onGpu' = onGpu
        /\ staged' = staged /\ twice' = twice
    BY <1>3 DEF Go
  <2>4. live' = (live \cup Of(0, new)) \ Of(0, {})
    BY <2>0 DEF Alloc, Of
  <2>5. \A w : w \in HostOwned' <=> w \in HostOwned
    BY <2>3, OwnedIs, OwnedNext DEF Streaming
  <2>6. onGpu = {} /\ ~staged
    BY <1>1 DEF LifeInv, PathIs
  <2>7. \A w : w \in HostOwned => w \in new
    BY <2>1, <2>6, OwnedIs
  <2>8. \A w : w \in new => w \in HostOwned \/ w = "encoders"
    BY <2>1, <2>6, OwnedIs
  <2>9. "kv" \notin new /\ "layers" \notin new /\ "fe_stream" \notin new /\ "pool" \notin new
    BY <2>1
  <2> HIDE DEF new
  <2>10. BuildsWeights(new, {})
    BY <2>5, <2>7, <2>8 DEF BuildsWeights, FirstNames
  <2>11. Early' /\ ~OnGpuUp' /\ refs \in Int
    BY <2>3 DEF Early, OnGpuUp, LifeInv, LifeTypes
  <2>12. Builds(new, {})
    BY <1>1, <2>2, <2>3, <2>4, <2>6, <2>9, <2>11 DEF Builds
  <2>13. QED
    BY <1>1, <2>10, <2>12, BuildKeeps
<1>4. QED
  BY <1>2, <1>3 DEF Reload

LEMMA CpuContextKeeps == ASSUME LifeInv, CpuContext PROVE LifeInv'
<1>1. stage = "cpu" /\ Early /\ conf.place = "cpu" /\ ~conf.paged /\ refs \in Int
  BY DEF CpuContext, Early, LifeInv, PathIs, LifeTypes, Confs
<1>2. CASE Free(ModelFree \cup Of(0, {"ctx"})) /\ Go("failed")
  BY <1>1, <1>2, GiveUpKeeps
<1>3. CASE live' = Alloc(0, {"kv", "ws"}) /\ Go("attach") /\ UNCHANGED twice
  <2>1. /\ stage' = "attach" /\ conf' = conf /\ cur' = cur /\ slots' = slots /\ refs' = refs /\ onGpu' = onGpu
        /\ staged' = staged /\ twice' = twice
    BY <1>3 DEF Go
  <2>2. ~Early' /\ ~OnGpuUp'
    BY <2>1 DEF Early, OnGpuUp
  <2>3. {"kv", "ws"} \subseteq FirstNames \ {"fe_stream"}
    BY DEF FirstNames, CloneNames
  <2>4. QED
    BY <1>1, <1>3, <2>1, <2>2, <2>3, AddKeeps
<1>4. QED
  BY <1>2, <1>3 DEF CpuContext

LEMMA MakeStreamsKeeps == ASSUME LifeInv, MakeStreams PROVE LifeInv'
<1>1. stage = "streams" /\ Early /\ conf.place # "cpu" /\ refs \in Int
  BY DEF MakeStreams, Early, LifeInv, PathIs, LifeTypes
<1>2. CASE Free(ModelFree \cup Of(0, {"ctx"})) /\ Go("failed")
  BY <1>1, <1>2, GiveUpKeeps
<1>3. CASE live' = Alloc(0, {"streams"}) /\ Go("kv") /\ UNCHANGED twice
  <2>1. /\ stage' = "kv" /\ conf' = conf /\ cur' = cur /\ slots' = slots /\ refs' = refs /\ onGpu' = onGpu
        /\ staged' = staged /\ twice' = twice
    BY <1>3 DEF Go
  <2>2. Early' /\ ~OnGpuUp'
    BY <2>1 DEF Early, OnGpuUp
  <2>3. {"streams"} \subseteq FirstNames \ {"fe_stream"}
    BY DEF FirstNames, CloneNames
  <2>4. QED
    BY <1>1, <1>3, <2>1, <2>2, <2>3, AddKeeps
<1>4. QED
  BY <1>2, <1>3 DEF MakeStreams

LEMMA MakeKvKeeps == ASSUME LifeInv, MakeKv PROVE LifeInv'
<1>1. stage = "kv" /\ Early /\ conf.place # "cpu"
  BY DEF MakeKv, Early, LifeInv, PathIs
<1>2. CASE FailGpu
  BY <1>1, <1>2, FailGpuKeeps
<1>3. CASE ~FailGpu
  <2> DEFINE new == {"kv"} \cup (IF conf.paged THEN {"pool"} ELSE {})
  <2>1. /\ live' = Alloc(0, new) /\ refs' = (IF conf.paged THEN 1 ELSE 0) /\ stage' = "layers"
        /\ conf' = conf /\ cur' = cur /\ slots' = slots /\ twice' = twice /\ onGpu' = onGpu /\ staged' = staged
    BY <1>3 DEF MakeKv
  <2>2. ~Early' /\ OnGpuUp'
    BY <2>1 DEF Early, OnGpuUp
  <2>3. new \subseteq FirstNames \ {"fe_stream"} /\ "layers" \notin new /\ ("pool" \in new <=> conf.paged)
    BY DEF FirstNames, CloneNames
  <2> HIDE DEF new
  <2>4. QED
    BY <1>1, <2>1, <2>2, <2>3, AddKeeps
<1>4. QED
  BY <1>2, <1>3

LEMMA UpFacts ==
    ASSUME LifeInv, OnGpuUp
    PROVE  /\ conf.place # "cpu" /\ refs \in Int /\ (conf.paged => refs = 1) /\ stage \notin {"load", "reload"}
  BY StageIs DEF LifeInv, PathIs, LifeTypes, PoolShared, OnGpuUp

LEMMA UploadLayersKeeps == ASSUME LifeInv, UploadLayers PROVE LifeInv'
<1>1. stage = "layers" /\ OnGpuUp
  BY DEF UploadLayers, OnGpuUp
<1>2. /\ stage' = "staging" /\ onGpu' = onGpu \cup {"layers"} /\ conf' = conf /\ cur' = cur /\ slots' = slots
      /\ twice' = twice /\ refs' = refs /\ staged' = staged
  BY DEF UploadLayers
<1>3. live' = (live \cup Of(0, {"layers"})) \ Of(0, {"h_resident"})
  BY DEF UploadLayers, Of
<1>4. ~Early' /\ OnGpuUp'
  BY <1>2 DEF Early, OnGpuUp
<1>5. \A w : w \in HostOwned' <=> w \in HostOwned /\ w # "h_resident"
  BY <1>2, OwnedIs, OwnedNext DEF Streaming
<1>6. BuildsWeights({"layers"}, {"h_resident"})
  BY <1>1, <1>5 DEF BuildsWeights, FirstNames
<1>7. Builds({"layers"}, {"h_resident"})
  BY <1>1, <1>2, <1>3, <1>4, UpFacts DEF Builds, Names, FirstNames, WeightNames
<1>8. QED
  BY <1>1, <1>6, <1>7, BuildKeeps

LEMMA UpAdds ==
    ASSUME LifeInv, OnGpuUp, NEW new, NEW to, live' = Alloc(0, new), Go(to), twice' = twice,
           new \subseteq FirstNames \ {"fe_stream", "pool"},
           to \in {"staging", "ws", "shards", "shard_failed", "tables", "norm", "attach"},
           to = "attach" => stage = "norm",
           stage = "layers" => "layers" \in new,
           stage \in {"layers", "staging"} => "staging" \in new
    PROVE  LifeInv'
<1>1. conf.place # "cpu" /\ refs \in Int /\ (conf.paged => refs = 1) /\ stage \notin {"load", "reload"}
  BY UpFacts
<1>2. /\ stage' = to /\ conf' = conf /\ cur' = cur /\ slots' = slots /\ refs' = refs /\ onGpu' = onGpu /\ staged' = staged
  BY DEF Go
<1>3. ~Early' /\ (OnGpuUp' \/ stage' = "attach") /\ stage' \notin {"streams", "kv", "cpu", "reload"}
  BY <1>2 DEF Early, OnGpuUp
<1>4. QED
  BY <1>1, <1>2, <1>3, AddKeeps

LEMMA MakeLayerPoolKeeps == ASSUME LifeInv, MakeLayerPool PROVE LifeInv'
<1>1. stage = "staging" /\ OnGpuUp
  BY DEF MakeLayerPool, OnGpuUp
<1>2. CASE FailGpu
  BY <1>1, <1>2, FailGpuKeeps
<1>3. CASE live' = Alloc(0, {"staging"}) /\ Go("ws") /\ UNCHANGED twice
  <2>1. {"staging"} \subseteq FirstNames \ {"fe_stream", "pool"}
    BY DEF FirstNames
  <2>2. QED
    BY <1>1, <1>3, <2>1, UpAdds
<1>4. QED
  BY <1>2, <1>3 DEF MakeLayerPool

LEMMA MakeWorkspaceKeeps == ASSUME LifeInv, MakeWorkspace PROVE LifeInv'
<1>1. stage = "ws" /\ OnGpuUp
  BY DEF MakeWorkspace, OnGpuUp
<1>2. CASE FailGpu
  BY <1>1, <1>2, FailGpuKeeps
<1>3. CASE live' = Alloc(0, {"ws"}) /\ UNCHANGED twice /\ Go(IF conf.sharded THEN "shards" ELSE "tables")
  <2>1. {"ws"} \subseteq FirstNames \ {"fe_stream", "pool"}
    BY DEF FirstNames, CloneNames
  <2>2. (IF conf.sharded THEN "shards" ELSE "tables") \in {"shards", "tables"}
    OBVIOUS
  <2>3. QED
    BY <1>1, <1>3, <2>1, <2>2, UpAdds
<1>4. QED
  BY <1>2, <1>3 DEF MakeWorkspace

LEMMA MakeShardsKeeps == ASSUME LifeInv, MakeShards PROVE LifeInv'
<1>1. stage = "shards" /\ OnGpuUp
  BY DEF MakeShards, OnGpuUp
<1>2. {"shards", "shard_done"} \subseteq FirstNames \ {"fe_stream", "pool"}
  BY DEF FirstNames, CloneNames
<1>3. QED
  BY <1>1, <1>2, UpAdds DEF MakeShards

LEMMA MakeShardsFailsKeeps == ASSUME LifeInv, MakeShardsFails PROVE LifeInv'
<1>1. stage = "shards" /\ OnGpuUp
  BY DEF MakeShardsFails, OnGpuUp
<1>2. PICK left \in {{}, {"shards"}, {"shards", "shard_done"}} : live' = Alloc(0, left)
  BY DEF MakeShardsFails
<1>3. left \subseteq FirstNames \ {"fe_stream", "pool"}
  BY DEF FirstNames, CloneNames
<1>4. QED
  BY <1>1, <1>2, <1>3, UpAdds DEF MakeShardsFails

LEMMA UploadNormKeeps == ASSUME LifeInv, UploadNorm PROVE LifeInv'
<1>1. stage = "norm" /\ OnGpuUp
  BY DEF UploadNorm, OnGpuUp
<1>2. PICK new \in {{}, {"norm"}} : live' = Alloc(0, new)
  BY NothingAdded DEF UploadNorm
<1>3. new \subseteq FirstNames \ {"fe_stream", "pool"}
  BY DEF FirstNames
<1>4. QED
  BY <1>1, <1>2, <1>3, UpAdds DEF UploadNorm

LEMMA UploadTablesKeeps == ASSUME LifeInv, UploadTables PROVE LifeInv'
<1>1. stage = "tables" /\ OnGpuUp
  BY DEF UploadTables, OnGpuUp
<1>2. PICK up \in SUBSET {"embed", "head"} :
         /\ conf.tied => "head" \notin up
         /\ live' = Alloc(0, up) \ Of(0, {HostCopy[t] : t \in share_uploaded(up)})
         /\ onGpu' = onGpu \cup share_uploaded(up)
  BY DEF UploadTables
<1>3. /\ stage' = "norm" /\ conf' = conf /\ cur' = cur /\ slots' = slots /\ twice' = twice /\ refs' = refs /\ staged' = staged
  BY DEF UploadTables
<1> DEFINE share == share_uploaded(up)
           gone == {HostCopy[t] : t \in share}
<1>4. share \subseteq {"embed", "head"}
  BY DEF share_uploaded
<1>5. \A w : w \in gone <=> (w = "h_embed" /\ "embed" \in share) \/ (w = "h_head" /\ "head" \in share)
  BY <1>4 DEF HostCopy
<1>6. live' = (live \cup Of(0, up)) \ Of(0, gone) /\ onGpu' = onGpu \cup share
  BY <1>2 DEF Alloc
<1> HIDE DEF share, gone
<1>7. \A w : w \in HostOwned' <=> w \in HostOwned /\ w \notin gone
  BY <1>3, <1>4, <1>5, <1>6, OwnedIs, OwnedNext DEF Streaming
<1>8. BuildsWeights(up, gone)
  BY <1>1, <1>7 DEF BuildsWeights, FirstNames
<1>9. ~Early' /\ OnGpuUp'
  BY <1>3 DEF Early, OnGpuUp
<1>10. up \subseteq Names /\ gone \subseteq WeightNames
  BY <1>5 DEF Names, FirstNames, WeightNames
<1>11. "kv" \notin up /\ "layers" \notin up /\ "fe_stream" \notin up /\ "pool" \notin up
  OBVIOUS
<1>12. Builds(up, gone)
  BY <1>1, <1>3, <1>6, <1>9, <1>10, <1>11, UpFacts DEF Builds
<1>13. QED
  BY <1>1, <1>8, <1>12, BuildKeeps

LEMMA FailStepsKeep == ASSUME LifeInv, UploadLayersFails \/ GiveUpShards PROVE LifeInv'
<1>1. OnGpuUp /\ FailGpu
  BY DEF UploadLayersFails, GiveUpShards, OnGpuUp
<1>2. QED
  BY <1>1, FailGpuKeeps

LEMMA RunningIs ==
    ASSUME stage \in {"attach", "clone", "up", "freeing"}
    PROVE  Served /\ ~Early /\ ~OnGpuUp /\ ~Ended
  BY DEF Served, Early, OnGpuUp, Ended

LEMMA RunningNext ==
    ASSUME stage' \in {"attach", "clone", "up", "freeing"}
    PROVE  Served' /\ ~Early' /\ ~OnGpuUp' /\ ~Ended'
  BY DEF Served, Early, OnGpuUp, Ended

(* A step that moves on without touching an allocation.                    *)
LEMMA MoveKeeps ==
    ASSUME LifeInv, stage \in {"clone", "up"}, stage' \in {"up", "freeing"}, Top' = Top,
           cur' \in Int, slots' = slots,
           stage' = "up" => slots >= 1 /\ slots <= MaxClones + 1,
           stage' = "freeing" => cur' >= 0 /\ cur' <= MaxClones,
           conf' = conf, live' = live, twice' = twice, refs' = refs, onGpu' = onGpu, staged' \in BOOLEAN,
           staged => staged', staged' => Streaming
    PROVE  LifeInv'
<1>1. Served /\ ~Early /\ ~OnGpuUp /\ ~Ended
  BY RunningIs
<1>2. Served' /\ ~Early' /\ ~OnGpuUp' /\ ~Ended' /\ Streaming' = Streaming
  BY RunningNext DEF Streaming
<1>3. \A c, w : Has(c, w)' <=> Has(c, w)
  BY DEF Has
<1>4. LifeTypes'
  BY <1>2 DEF LifeInv, LifeTypes
<1>5. PathIs'
  BY <1>1, <1>2 DEF LifeInv, PathIs
<1>6. PoolShared'
  BY <1>1, <1>2, <1>3 DEF LifeInv, PoolShared
<1>7. WeightsHeld'
  <2>1. \A w : w \in HostOwned' <=> w \in HostOwned /\ ~(w = "h_streamed" /\ staged')
    BY <1>2, OwnedIs, OwnedNext
  <2>2. \A w \in HostOwned' : Has(0, w)'
    BY <1>1, <1>3, <2>1 DEF LifeInv, WeightsHeld
  <2>3. \A w \in Names : Has(0, w)' => w \in FirstNames \cup HostOwned' \/ (w = "h_streamed" /\ staged')
    BY <1>3, <2>1 DEF LifeInv, WeightsHeld
  <2>4. QED
    BY <2>2, <2>3 DEF WeightsHeld
<1>8. OwnersExist'
  BY <1>1, <1>2, <1>3 DEF LifeInv, OwnersExist
<1>9. FreesOwn'
  BY DEF LifeInv, FreesOwn
<1>10. QED
  BY <1>4, <1>5, <1>6, <1>7, <1>8, <1>9 DEF LifeInv

LEMMA MovesKeep == ASSUME LifeInv, CloneRefused \/ CloneFails \/ Serve \/ EngineFree PROVE LifeInv'
<1>0. cur \in Int /\ slots \in Nat /\ staged \in BOOLEAN /\ (staged => Streaming) /\ MaxClones \in Nat
  BY LifeAssumption DEF LifeInv, LifeTypes
<1>1. CASE CloneRefused \/ CloneFails
  <2>1. /\ stage = "clone" /\ stage' = "up" /\ conf' = conf /\ cur' = cur /\ slots' = slots /\ onGpu' = onGpu
        /\ staged' = staged /\ live' = live /\ twice' = twice /\ refs' = refs
    BY <1>1 DEF CloneRefused, CloneFails, fill_device
  <2>2. Top' = Top /\ slots >= 1 /\ slots <= MaxClones + 1
    BY <1>0, <2>1 DEF Top, LifeInv, PathIs
  <2>3. QED
    BY <1>0, <2>1, <2>2, MoveKeeps
<1>2. CASE Serve
  <2>1. /\ stage = "up" /\ stage' = "up" /\ conf' = conf /\ cur' = cur /\ slots' = slots /\ onGpu' = onGpu
        /\ staged' = Streaming /\ live' = live /\ twice' = twice /\ refs' = refs
    BY <1>2 DEF Serve
  <2>2. Top' = Top /\ slots >= 1 /\ slots <= MaxClones + 1
    BY <2>1 DEF Top, LifeInv, PathIs
  <2>3. Streaming \in BOOLEAN
    BY DEF Streaming, LifeInv, LifeTypes, Confs
  <2>4. staged' \in BOOLEAN /\ (staged => staged') /\ (staged' => Streaming)
    BY <1>0, <2>1, <2>3
  <2>5. QED
    BY <1>0, <2>1, <2>2, <2>4, MoveKeeps
<1>3. CASE EngineFree
  <2>1. /\ stage = "up" /\ stage' = "freeing" /\ conf' = conf /\ cur' = slots - 1 /\ slots' = slots /\ onGpu' = onGpu
        /\ staged' = staged /\ live' = live /\ twice' = twice /\ refs' = refs
    BY <1>3 DEF EngineFree
  <2>2. slots >= 1 /\ slots <= MaxClones + 1
    BY <2>1 DEF LifeInv, PathIs
  <2>3. Top' = Top /\ cur' \in Int /\ cur' >= 0 /\ cur' <= MaxClones
    BY <1>0, <2>1, <2>2 DEF Top
  <2>4. QED
    BY <1>0, <2>1, <2>2, <2>3, MoveKeeps
<1>4. QED
  BY <1>1, <1>2, <1>3

LEMMA CloneKeeps == ASSUME LifeInv, Clone PROVE LifeInv'
<1>0. cur \in Int /\ slots \in Nat /\ refs \in Int /\ MaxClones \in Nat
  BY LifeAssumption DEF LifeInv, LifeTypes
<1>1. /\ stage = "clone" /\ conf.place = "all" /\ live' = Alloc(cur, Owns)
      /\ refs' = (IF conf.paged THEN refs + 1 ELSE refs) /\ stage' = "attach"
      /\ conf' = conf /\ cur' = cur /\ slots' = slots /\ twice' = twice /\ onGpu' = onGpu /\ staged' = staged
  BY DEF Clone, Clonable
<1>2. Served /\ ~Early /\ ~OnGpuUp /\ ~Ended /\ Served' /\ ~Early' /\ ~OnGpuUp' /\ ~Ended' /\ Streaming' = Streaming
  BY <1>1, RunningIs, RunningNext DEF Streaming
<1>3. cur = slots /\ slots >= 1 /\ slots <= MaxClones
  BY <1>1 DEF LifeInv, PathIs
<1>4. Top = cur - 1 /\ Top' = cur
  BY <1>1, <1>3 DEF Top
<1>5. \A c, w : Has(c, w)' <=> Has(c, w) \/ (c = cur /\ w \in Owns)
  BY <1>1, OfIs DEF Alloc, Has
<1>6. Owns \subseteq CloneNames /\ "ctx" \in Owns /\ "fe_stream" \notin Owns
  BY DEF Owns, CloneNames
<1>7. \A w : Has(0, w)' <=> Has(0, w)
  BY <1>0, <1>3, <1>5
<1>8. LifeTypes'
  <2>1. Of(cur, Owns) \subseteq Contexts \X Names
    BY <1>0, <1>3, <1>6 DEF Of, Contexts, Names, FirstNames
  <2>2. live' \subseteq Contexts \X Names
    BY <1>1, <2>1 DEF Alloc, LifeInv, LifeTypes
  <2>3. refs' \in Int
    BY <1>0, <1>1
  <2>4. QED
    BY <1>1, <1>2, <2>2, <2>3 DEF LifeInv, LifeTypes
<1>9. PathIs'
  BY <1>0, <1>1, <1>2, <1>3 DEF PathIs
<1>10. PoolShared'
  <2>1. conf.paged => Has(0, "pool") /\ refs = cur
    BY <1>0, <1>2, <1>4 DEF LifeInv, PoolShared
  <2>2. Has(0, "pool") => conf.paged
    BY DEF LifeInv, PoolShared
  <2>3. QED
    BY <1>0, <1>1, <1>4, <1>7, <2>1, <2>2 DEF PoolShared
<1>11. WeightsHeld'
  <2>1. \A w : w \in HostOwned' <=> w \in HostOwned
    BY <1>1, <1>2, OwnedIs, OwnedNext
  <2>2. QED
    BY <1>1, <1>2, <1>7, <2>1 DEF LifeInv, WeightsHeld
<1>12. OwnersExist'
  <2>1. \A c \in 0..Top' : Has(c, "ctx")'
    <3>1. \A c \in 0..(cur - 1) : Has(c, "ctx")
      BY <1>2, <1>4 DEF LifeInv, OwnersExist
    <3>2. <<cur, "ctx">> \in live'
      BY <1>5, <1>6 DEF Has
    <3>3. \A c \in 0..cur : c \in 0..(cur - 1) \/ c = cur
      BY <1>0
    <3>4. QED
      BY <1>4, <1>5, <3>1, <3>2, <3>3 DEF Has
  <2>2. ASSUME NEW c \in Contexts, NEW w \in Names, Has(c, w)', c # 0 PROVE c <= Top' /\ w \in CloneNames
    <3>1. CASE Has(c, w)
      <4>1. c <= cur - 1 /\ w \in CloneNames
        BY <1>4, <2>2, <3>1 DEF LifeInv, OwnersExist
      <4>2. QED
        BY <1>0, <1>4, <4>1 DEF Contexts
    <3>2. CASE c = cur /\ w \in Owns
      BY <1>0, <1>4, <1>6, <3>2
    <3>3. QED
      BY <1>5, <2>2, <3>1, <3>2
  <2>3. \A c \in Contexts : Has(c, "fe_stream")' => Has(0, "frontend")'
    BY <1>5, <1>6, <1>7 DEF LifeInv, OwnersExist
  <2>4. /\ Has(0, "layers")' => conf'.place # "cpu"
        /\ Has(0, "layers")' /\ Has(0, "staging")'
    BY <1>1, <1>2, <1>7 DEF LifeInv, OwnersExist
  <2>5. QED
    BY <1>2, <2>1, <2>2, <2>3, <2>4 DEF OwnersExist
<1>13. FreesOwn'
  BY <1>1 DEF LifeInv, FreesOwn
<1>14. QED
  BY <1>8, <1>9, <1>10, <1>11, <1>12, <1>13 DEF LifeInv

LEMMA AttachFrontendKeeps == ASSUME LifeInv, AttachFrontend PROVE LifeInv'
<1>0. cur \in Int /\ slots \in Nat /\ refs \in Int /\ MaxClones \in Nat
  BY LifeAssumption DEF LifeInv, LifeTypes
<1>1. stage = "attach" /\ cur = slots /\ cur <= MaxClones /\ Served /\ ~Early /\ ~OnGpuUp /\ ~Ended
  BY RunningIs DEF AttachFrontend, LifeInv, PathIs
<1>2. PICK got \in {{}, {"frontend"}, {"frontend", "fe_stream"}}, tok \in {{}, {"tokenizer"}}, built \in {{}, {"encoders"}} :
         LET host == <<0, "encoders">> \in live \/ built # {}
             up == IF cur # 0 THEN got \ {"frontend"}
                   ELSE IF conf.place = "cpu" \/ ~host THEN {} ELSE got
             gone == IF "frontend" \in up /\ conf.unified THEN {"h_encoders"} ELSE {}
         IN  /\ cur # 0 => built = {} /\ (up = {} \/ <<0, "frontend">> \in live)
             /\ live' = Alloc(cur, up \cup tok \cup built) \ Of(0, gone)
             /\ onGpu' = onGpu \cup {"encoders" : g \in gone}
  BY DEF AttachFrontend
<1> DEFINE up == IF cur # 0 THEN got \ {"frontend"}
                 ELSE IF conf.place = "cpu" \/ ~(<<0, "encoders">> \in live \/ built # {}) THEN {} ELSE got
           gone == IF "frontend" \in up /\ conf.unified THEN {"h_encoders"} ELSE {}
           new == up \cup tok \cup built
<1>3. /\ cur # 0 => built = {} /\ (up = {} \/ <<0, "frontend">> \in live)
      /\ live' = Alloc(cur, new) \ Of(0, gone)
      /\ onGpu' = onGpu \cup {"encoders" : g \in gone}
  BY <1>2
<1>4. /\ slots' = slots + 1 /\ stage' = (IF slots' <= MaxClones THEN "clone" ELSE "up")
      /\ cur' = (IF slots' <= MaxClones THEN slots' ELSE cur)
      /\ conf' = conf /\ twice' = twice /\ refs' = refs /\ staged' = staged
  BY DEF AttachFrontend
<1>5. /\ new \subseteq {"frontend", "fe_stream", "tokenizer", "encoders"}
      /\ cur # 0 => new \subseteq {"fe_stream", "tokenizer"}
      /\ "fe_stream" \in new => "frontend" \in new \/ <<0, "frontend">> \in live
      /\ "frontend" \in new => cur = 0
      /\ gone \in {{}, {"h_encoders"}}
  BY <1>3
<1> HIDE DEF up, gone, new
<1>6. \A w : w \in gone <=> w = "h_encoders" /\ "h_encoders" \in gone
  BY <1>5
<1>7. \A c, w : Has(c, w)' <=> (Has(c, w) \/ (c = cur /\ w \in new)) /\ ~(c = 0 /\ w \in gone)
  BY <1>3, OfIs DEF Alloc, Has
<1>8. stage' \in {"clone", "up"} /\ Served' /\ ~Early' /\ ~OnGpuUp' /\ ~Ended' /\ Streaming' = Streaming
  BY <1>4, RunningNext DEF Streaming
<1>9. Top = cur /\ Top' = cur /\ cur >= 0
  BY <1>0, <1>1, <1>4, <1>8 DEF Top
<1>10. LifeTypes'
  <2>1. Of(cur, new) \subseteq Contexts \X Names
    <3>1. new \subseteq Names
      BY <1>5 DEF Names, FirstNames, CloneNames
    <3>2. cur \in Contexts
      BY <1>0, <1>1, <1>9 DEF Contexts
    <3>3. QED
      BY <3>1, <3>2 DEF Of
  <2>2. live' \subseteq Contexts \X Names
    BY <1>3, <2>1 DEF Alloc, LifeInv, LifeTypes
  <2>3. cur' \in Int /\ slots' \in Nat
    BY <1>0, <1>4
  <2>4. QED
    BY <1>4, <1>8, <2>2, <2>3 DEF LifeInv, LifeTypes
<1>11. PathIs'
  <2>1. stage' = "clone" => cur' = slots' /\ slots' >= 1 /\ slots' <= MaxClones
    BY <1>0, <1>4
  <2>2. stage' = "up" => slots' >= 1 /\ slots' <= MaxClones + 1
    BY <1>0, <1>1, <1>4
  <2>3. Top' > 0 => conf.place = "all"
    BY <1>1, <1>9 DEF LifeInv, PathIs
  <2>4. QED
    BY <1>4, <1>8, <2>1, <2>2, <2>3 DEF PathIs
<1>12. PoolShared'
  <2>1. Has(0, "pool")' <=> Has(0, "pool")
    BY <1>5, <1>6, <1>7
  <2>2. QED
    BY <1>1, <1>4, <1>9, <2>1 DEF LifeInv, PoolShared
<1>13. WeightsHeld'
  <2>1. \A w : w \in HostOwned' <=> w \in HostOwned /\ w \notin gone
    <3>1. \A x : x \in onGpu' <=> x \in onGpu \/ (x = "encoders" /\ "h_encoders" \in gone)
      BY <1>3, <1>6
    <3>2. QED
      BY <1>4, <1>6, <1>8, <3>1, OwnedIs, OwnedNext
  <2>2. \A w \in HostOwned' : Has(0, w)'
    BY <1>1, <1>7, <2>1 DEF LifeInv, WeightsHeld
  <2>3. ASSUME NEW w \in Names, Has(0, w)' PROVE w \in FirstNames \cup HostOwned' \/ (w = "h_streamed" /\ staged')
    <3>1. CASE Has(0, w)
      BY <1>4, <1>7, <2>1, <2>3, <3>1 DEF LifeInv, WeightsHeld
    <3>2. CASE w \in new
      BY <1>5, <3>2 DEF FirstNames, CloneNames
    <3>3. QED
      BY <1>7, <2>3, <3>1, <3>2
  <2>4. QED
    BY <2>2, <2>3 DEF WeightsHeld
<1>14. OwnersExist'
  <2>1. \A c \in 0..Top' : Has(c, "ctx")'
    <3>1. \A c \in 0..Top : Has(c, "ctx")
      BY <1>1 DEF LifeInv, OwnersExist
    <3>2. QED
      BY <1>6, <1>7, <1>9, <3>1
  <2>2. ASSUME NEW c \in Contexts, NEW w \in Names, Has(c, w)', c # 0 PROVE c <= Top' /\ w \in CloneNames
    <3>1. CASE Has(c, w)
      BY <1>9, <2>2, <3>1 DEF LifeInv, OwnersExist
    <3>2. CASE c = cur /\ w \in new
      BY <1>0, <1>5, <1>9, <2>2, <3>2 DEF CloneNames
    <3>3. QED
      BY <1>7, <2>2, <3>1, <3>2
  <2>3. ASSUME NEW c \in Contexts, Has(c, "fe_stream")' PROVE Has(0, "frontend")'
    <3>1. "frontend" \in new \/ Has(0, "frontend")
      BY <1>5, <1>7, <2>3 DEF LifeInv, OwnersExist, Has
    <3>2. QED
      BY <1>5, <1>6, <1>7, <3>1
  <2>4. \A w \in {"layers", "staging"} : Has(0, w)' <=> Has(0, w)
    BY <1>5, <1>6, <1>7
  <2>5. /\ Has(0, "layers")' => conf'.place # "cpu"
        /\ conf'.place # "cpu" => Has(0, "layers")' /\ Has(0, "staging")'
    BY <1>1, <1>4, <2>4 DEF LifeInv, OwnersExist
  <2>6. QED
    BY <1>8, <2>1, <2>2, <2>3, <2>5 DEF OwnersExist
<1>15. FreesOwn'
  BY <1>4, <1>8 DEF LifeInv, FreesOwn
<1>16. QED
  BY <1>10, <1>11, <1>12, <1>13, <1>14, <1>15 DEF LifeInv

Gives == {"ws", "shards", "shard_done", "kv", "streams", "tokenizer", "fe_stream", "encoders"}

(* A clone gives back its own and leaves what it borrowed.                 *)
LEMMA FreeCloneKeeps == ASSUME LifeInv, FreeContext, cur # 0 PROVE LifeInv'
<1>0. cur \in Int /\ slots \in Nat /\ refs \in Int /\ MaxClones \in Nat
  BY LifeAssumption DEF LifeInv, LifeTypes
<1>1. stage = "freeing" /\ cur >= 1 /\ cur <= MaxClones /\ Served /\ ~Early /\ ~OnGpuUp /\ ~Ended /\ Top = cur
  BY <1>0, RunningIs DEF FreeContext, LifeInv, PathIs, Top
<1>2. /\ refs' = (IF conf.paged THEN refs - 1 ELSE refs) /\ cur' = cur - 1 /\ stage' = "freeing"
      /\ conf' = conf /\ slots' = slots /\ onGpu' = onGpu /\ staged' = staged
  BY DEF FreeContext
<1>3. ParentOnly(cur) = {} /\ PoolGone = {}
  <2>1. conf.paged => refs = cur + 1
    BY <1>1 DEF LifeInv, PoolShared
  <2>2. QED
    BY <1>0, <1>1, <2>1 DEF ParentOnly, PoolGone
<1> DEFINE res == (live \cap Of(cur, Gives)) \cup Of(cur, {"ctx"})
<1>4. live' = live \ res /\ twice' = twice \cup (res \ live)
  BY <1>3 DEF FreeContext, Free, Gives
<1>5. res \subseteq live
  <2>1. cur \in 0..Top
    BY <1>0, <1>1
  <2>2. Has(cur, "ctx")
    BY <1>1, <2>1 DEF LifeInv, OwnersExist
  <2>3. QED
    BY <2>2 DEF Has, Of
<1>6. twice' = twice /\ live' \subseteq live
  BY <1>4, <1>5
<1>7. \A c, w : Has(c, w)' <=> Has(c, w) /\ ~(c = cur /\ w \in Gives \cup {"ctx"})
  BY <1>4, OfIs DEF Has
<1> HIDE DEF res
<1>8. \A w : Has(0, w)' <=> Has(0, w)
  BY <1>0, <1>1, <1>7
<1>9. Served' /\ ~Early' /\ ~OnGpuUp' /\ ~Ended' /\ Streaming' = Streaming /\ Top' = cur - 1
  BY <1>2, RunningNext DEF Streaming, Top
<1>10. LifeTypes'
  BY <1>0, <1>2, <1>6, <1>9 DEF LifeInv, LifeTypes
<1>11. PathIs'
  <2>1. cur' >= 0 /\ cur' <= MaxClones
    BY <1>0, <1>1, <1>2
  <2>2. conf.place = "all"
    BY <1>0, <1>1 DEF LifeInv, PathIs
  <2>3. QED
    BY <1>2, <1>9, <2>1, <2>2 DEF PathIs
<1>12. PoolShared'
  <2>1. conf.paged => Has(0, "pool") /\ refs = cur + 1
    BY <1>1 DEF LifeInv, PoolShared
  <2>2. Has(0, "pool") => conf.paged
    BY DEF LifeInv, PoolShared
  <2>3. QED
    BY <1>0, <1>2, <1>8, <1>9, <2>1, <2>2 DEF PoolShared
<1>13. WeightsHeld'
  <2>1. \A w : w \in HostOwned' <=> w \in HostOwned
    BY <1>2, <1>9, OwnedIs, OwnedNext
  <2>2. QED
    BY <1>1, <1>2, <1>8, <2>1 DEF LifeInv, WeightsHeld
<1>14. OwnersExist'
  <2>1. \A c \in 0..Top' : Has(c, "ctx")'
    <3>1. \A c \in 0..Top : Has(c, "ctx")
      BY <1>1 DEF LifeInv, OwnersExist
    <3>2. \A c \in 0..(cur - 1) : c \in 0..cur /\ c # cur
      BY <1>0
    <3>3. QED
      BY <1>1, <1>7, <1>9, <3>1, <3>2
  <2>2. ASSUME NEW c \in Contexts, NEW w \in Names, Has(c, w)', c # 0 PROVE c <= Top' /\ w \in CloneNames
    <3>1. c <= cur /\ w \in CloneNames
      BY <1>1, <1>7, <2>2 DEF LifeInv, OwnersExist
    <3>2. c # cur
      BY <1>7, <2>2, <3>1 DEF CloneNames, Gives
    <3>3. QED
      BY <1>0, <1>9, <3>1, <3>2 DEF Contexts
  <2>3. \A c \in Contexts : Has(c, "fe_stream")' => Has(0, "frontend")'
    BY <1>7, <1>8 DEF LifeInv, OwnersExist
  <2>4. /\ Has(0, "layers")' => conf'.place # "cpu"
        /\ conf'.place # "cpu" => Has(0, "layers")' /\ Has(0, "staging")'
    BY <1>1, <1>2, <1>8 DEF LifeInv, OwnersExist
  <2>5. QED
    BY <1>9, <2>1, <2>2, <2>3, <2>4 DEF OwnersExist
<1>15. FreesOwn'
  BY <1>2, <1>6 DEF LifeInv, FreesOwn
<1>16. QED
  BY <1>10, <1>11, <1>12, <1>13, <1>14, <1>15 DEF LifeInv

(* The first context goes last and takes everything with it.               *)
LEMMA FreeFirstKeeps == ASSUME LifeInv, FreeContext, cur = 0 PROVE LifeInv'
<1>0. refs \in Int /\ MaxClones \in Nat /\ 0 \in Contexts /\ conf \in Confs
  BY LifeAssumption DEF LifeInv, LifeTypes, Contexts
<1>1. stage = "freeing" /\ Served /\ ~Early /\ ~OnGpuUp /\ ~Ended /\ Top = 0
  BY RunningIs DEF FreeContext, Top
<1>2. /\ refs' = (IF conf.paged THEN refs - 1 ELSE refs) /\ cur' = cur - 1 /\ stage' = "gone"
      /\ conf' = conf /\ slots' = slots /\ onGpu' = onGpu /\ staged' = staged
  BY DEF FreeContext
<1> DEFINE own == live \cap Of(0, {"embed", "head", "norm", "staging", "frontend"})
           layers == IF conf.place = "all" THEN Of(0, {"layers"}) ELSE {}
           wrong == IF conf.place = "all" /\ staged THEN Of(0, {"slot"}) ELSE {}
           mine == live \cap Of(0, Gives)
           res == mine \cup (own \cup layers \cup wrong \cup ModelFree) \cup PoolGone \cup Of(0, {"ctx"})
<1>3. live' = live \ res /\ twice' = twice \cup (res \ live)
  BY DEF FreeContext, Free, Gives, ParentOnly
<1>4. Of(0, {"ctx"}) \subseteq live /\ ModelFree \subseteq live
  <2>1. Has(0, "ctx")
    BY <1>1 DEF LifeInv, OwnersExist
  <2>2. QED
    BY <1>1, <2>1, ModelThere DEF Has, Of
<1>5. layers \subseteq live
  <2>1. conf.place = "all" => Has(0, "layers")
    BY <1>1 DEF LifeInv, OwnersExist
  <2>2. QED
    BY <2>1 DEF Has, Of
<1>6. conf.paged => refs = 1 /\ Has(0, "pool")
  BY <1>1 DEF LifeInv, PoolShared
<1>7. PoolGone \subseteq live
  BY <1>6 DEF PoolGone, Has, Of
<1>8. res \ live \subseteq wrong
  BY <1>4, <1>5, <1>7
<1>9. wrong \subseteq {<<0, "slot">>} /\ (conf.place # "all" \/ ~conf.part => wrong = {})
  <2>1. staged => Streaming
    BY DEF LifeInv, LifeTypes
  <2>2. QED
    BY <2>1 DEF Streaming, Of
<1>10. \A w : w \in Gives \cup {"ctx", "embed", "head", "norm", "staging", "frontend"} \cup HostOwned => ~Has(0, w)'
  BY <1>3, OfIs DEF Has, ModelFree
<1>11. conf.place = "all" => ~Has(0, "layers")'
  BY <1>3, OfIs DEF Has
<1>12. ~Has(0, "pool")'
  <2>1. Has(0, "pool") => conf.paged
    BY DEF LifeInv, PoolShared
  <2>2. conf.paged => <<0, "pool">> \in PoolGone
    BY <1>6, OfIs DEF PoolGone
  <2>3. QED
    BY <1>3, <2>1, <2>2 DEF Has
<1>13. live' \subseteq live /\ twice' \subseteq twice \cup wrong
  BY <1>3, <1>8
<1> HIDE DEF res, wrong, layers, own, mine
<1>14. \A c, w : Has(c, w)' => Has(c, w)
  BY <1>13 DEF Has
<1>15. Ended' /\ ~Served' /\ ~Early' /\ ~OnGpuUp' /\ Streaming' = Streaming /\ Top' = 0
  BY <1>2 DEF Ended, Served, Early, OnGpuUp, Streaming, Top
<1>16. LifeTypes'
  BY <1>0, <1>2, <1>13, <1>15 DEF LifeInv, LifeTypes
<1>17. PathIs'
  BY <1>2, <1>15 DEF PathIs
<1>18. PoolShared'
  BY <1>12, <1>15 DEF PoolShared
<1>19. WeightsHeld'
  <2>1. \A w : w \in HostOwned' <=> w \in HostOwned
    BY <1>2, <1>15, OwnedIs, OwnedNext
  <2>2. QED
    BY <1>2, <1>14, <1>15, <2>1 DEF LifeInv, WeightsHeld
<1>20. \A c \in Contexts, w \in Names : c # 0 => ~Has(c, w)
  BY <1>1 DEF LifeInv, OwnersExist, Contexts
<1>21. OwnersExist'
  <2>1. \A c \in Contexts : ~Has(c, "kv")' /\ ~Has(c, "fe_stream")'
    <3>1. ~Has(0, "kv")' /\ ~Has(0, "fe_stream")'
      BY <1>10 DEF Gives
    <3>2. "kv" \in Names /\ "fe_stream" \in Names
      BY DEF Names, FirstNames, CloneNames
    <3>3. QED
      BY <1>14, <1>20, <3>1, <3>2
  <2>2. QED
    BY <1>2, <1>14, <1>15, <1>20, <2>1 DEF LifeInv, OwnersExist
<1>22. FreesOwn'
  <2>1. ASSUME conf.place # "stream", ~conf.part PROVE live' = {}
    <3>1. ASSUME NEW x \in live' PROVE FALSE
      <4>1. PICK c \in Contexts, w \in Names : x = <<c, w>>
        BY <1>13 DEF LifeInv, LifeTypes
      <4>2. Has(c, w)' /\ Has(c, w)
        BY <1>14, <4>1 DEF Has
      <4>3. c = 0
        BY <1>20, <4>2
      <4>4. w \in FirstNames \cup HostOwned \/ (w = "h_streamed" /\ staged)
        BY <4>2, <4>3 DEF LifeInv, WeightsHeld
      <4>5. ~staged
        BY <2>1 DEF LifeInv, LifeTypes, Streaming
      <4>6. w \notin HostOwned
        BY <1>10, <4>2, <4>3
      <4>7. w \in {"pool", "layers"}
        BY <1>10, <4>2, <4>3, <4>4, <4>5, <4>6 DEF FirstNames, CloneNames, Gives
      <4>8. w = "layers"
        BY <1>12, <4>2, <4>3, <4>7
      <4>9. conf.place # "cpu"
        BY <4>2, <4>3, <4>8 DEF LifeInv, OwnersExist
      <4>10. conf.place = "all"
        BY <1>0, <2>1, <4>9 DEF Confs
      <4>11. QED
        BY <1>11, <4>2, <4>3, <4>8, <4>10
    <3>2. QED
      BY <3>1
  <2>2. twice \subseteq {<<0, "slot">>} /\ (conf.place # "all" \/ ~conf.part => twice = {})
    BY DEF LifeInv, FreesOwn
  <2>3. QED
    BY <1>2, <1>9, <1>13, <2>1, <2>2 DEF FreesOwn
<1>23. QED
  BY <1>16, <1>17, <1>18, <1>19, <1>21, <1>22 DEF LifeInv

LEMMA LifeStarts == LifeInit => LifeInv
<1> SUFFICES ASSUME LifeInit PROVE LifeInv
  OBVIOUS
<1>1. /\ conf \in Confs /\ stage = "load" /\ cur = 0 /\ slots = 0 /\ live = Of(0, {"ctx"}) /\ twice = {} /\ refs = 0
      /\ onGpu = {} /\ staged = FALSE
  BY DEF LifeInit
<1>2. Early /\ ~OnGpuUp /\ ~Served /\ ~Ended /\ Top = 0
  BY <1>1 DEF Early, OnGpuUp, Served, Ended, Top
<1>3. \A c, w : Has(c, w) <=> c = 0 /\ w = "ctx"
  BY <1>1, OfIs DEF Has
<1>a. 0 \in Contexts /\ "ctx" \in Names
  BY LifeAssumption DEF Contexts, Names, FirstNames, CloneNames
<1>b. live \subseteq Contexts \X Names
  BY <1>1, <1>a DEF Of
<1>c. staged \in BOOLEAN /\ (staged => Streaming)
  BY <1>1, Zenon
<1>4. LifeTypes
  BY <1>1, <1>b, <1>c DEF LifeTypes
<1>5. PathIs
  BY <1>1, <1>2 DEF PathIs
<1>6. PoolShared
  BY <1>2, <1>3 DEF PoolShared
<1>7. WeightsHeld
  BY <1>1, <1>3 DEF WeightsHeld, FirstNames, CloneNames
<1>8. OwnersExist
  BY <1>2, <1>3 DEF OwnersExist
<1>9. FreesOwn
  BY <1>1 DEF FreesOwn
<1>10. QED
  BY <1>4, <1>5, <1>6, <1>7, <1>8, <1>9 DEF LifeInv

LEMMA LifeStays == ASSUME LifeInv, UNCHANGED lifeVars PROVE LifeInv'
<1>1. /\ conf' = conf /\ stage' = stage /\ cur' = cur /\ slots' = slots /\ live' = live /\ twice' = twice
      /\ refs' = refs /\ onGpu' = onGpu /\ staged' = staged
  BY DEF lifeVars
<1>2. /\ Early' = Early /\ OnGpuUp' = OnGpuUp /\ Served' = Served /\ Ended' = Ended /\ Top' = Top /\ Streaming' = Streaming
  BY <1>1 DEF Early, OnGpuUp, Served, Ended, Top, Streaming
<1>3. \A c, w : Has(c, w)' = Has(c, w)
  BY <1>1 DEF Has
<1>4. HostOwned' = HostOwned
  BY <1>1, <1>2, Zenon DEF HostOwned, HostWeights
<1>5. LifeTypes' /\ PathIs'
  BY <1>1, <1>2 DEF LifeInv, LifeTypes, PathIs
<1>6. PoolShared' /\ WeightsHeld'
  BY <1>1, <1>2, <1>3, <1>4 DEF LifeInv, PoolShared, WeightsHeld
<1>7. OwnersExist' /\ FreesOwn'
  BY <1>1, <1>2, <1>3 DEF LifeInv, OwnersExist, FreesOwn
<1>8. QED
  BY <1>5, <1>6, <1>7 DEF LifeInv

LEMMA LifeGoesOn == LifeInv /\ [LifeNext]_lifeVars => LifeInv'
<1> SUFFICES ASSUME LifeInv, [LifeNext]_lifeVars PROVE LifeInv'
  OBVIOUS
<1>1. CASE LoadModel \/ Prepare \/ BuildFrontendHost \/ Place \/ Reload
  BY <1>1, LoadModelKeeps, PrepareKeeps, BuildFrontendHostKeeps, PlaceKeeps, ReloadKeeps
<1>2. CASE CpuContext \/ MakeStreams \/ MakeKv \/ UploadLayers
  BY <1>2, CpuContextKeeps, MakeStreamsKeeps, MakeKvKeeps, UploadLayersKeeps
<1>3. CASE UploadLayersFails \/ GiveUpShards
  BY <1>3, FailStepsKeep
<1>4. CASE MakeLayerPool \/ MakeWorkspace \/ MakeShards \/ MakeShardsFails
  BY <1>4, MakeLayerPoolKeeps, MakeWorkspaceKeeps, MakeShardsKeeps, MakeShardsFailsKeeps
<1>5. CASE UploadTables \/ UploadNorm \/ AttachFrontend
  BY <1>5, UploadTablesKeeps, UploadNormKeeps, AttachFrontendKeeps
<1>6. CASE CloneRefused \/ CloneFails \/ Serve \/ EngineFree
  BY <1>6, MovesKeep
<1>7. CASE Clone
  BY <1>7, CloneKeeps
<1>8. CASE FreeContext
  BY <1>8, FreeCloneKeeps, FreeFirstKeeps
<1>9. CASE Over \/ UNCHANGED lifeVars
  BY <1>9, LifeStays DEF Over
<1>10. QED
  BY <1>1, <1>2, <1>3, <1>4, <1>5, <1>6, <1>7, <1>8, <1>9 DEF LifeNext

LEMMA LenderOutlives == LifeInv => BorrowedOutlives
<1> SUFFICES ASSUME LifeInv, NEW c \in Contexts, <<c, "kv">> \in live
             PROVE  /\ <<0, "model">> \in live /\ <<0, "ctx">> \in live
                    /\ conf.paged => <<0, "pool">> \in live /\ refs >= 1
                    /\ <<c, "fe_stream">> \in live => <<0, "frontend">> \in live
                    /\ c # 0 => {<<0, "staging">>, <<0, "layers">>} \subseteq live
  BY DEF BorrowedOutlives
<1>1. OnGpuUp \/ Served
  BY DEF LifeInv, OwnersExist, Has
<1>2. ~Ended /\ stage \notin {"load", "reload"} /\ ~Early
  BY <1>1 DEF OnGpuUp, Served, Ended, Early
<1>3. Top \in Nat
  BY <1>1 DEF LifeInv, LifeTypes, PathIs, Top, OnGpuUp, Served
<1>4. Has(0, "model")
  <2>1. "model" \in HostOwned
    BY OwnedIs
  <2>2. QED
    BY <1>2, <2>1 DEF LifeInv, WeightsHeld
<1>5. Has(0, "ctx")
  <2>1. 0 \in 0..Top
    BY <1>3
  <2>2. QED
    BY <1>2, <2>1 DEF LifeInv, OwnersExist
<1>6. conf.paged => Has(0, "pool") /\ refs >= 1
  BY <1>1, <1>3 DEF LifeInv, PoolShared
<1>7. Has(c, "fe_stream") => Has(0, "frontend")
  BY DEF LifeInv, OwnersExist
<1>8. ASSUME c # 0 PROVE Has(0, "staging") /\ Has(0, "layers")
  <2>1. c <= Top
    BY <1>8 DEF LifeInv, OwnersExist, Has, Names, FirstNames, CloneNames
  <2>2. Top > 0
    BY <1>3, <1>8, <2>1 DEF Contexts
  <2>3. Served
    BY <1>1, <2>2, StageIs
  <2>4. conf.place = "all"
    BY <2>2, <2>3 DEF LifeInv, PathIs
  <2>5. QED
    BY <2>3, <2>4 DEF LifeInv, OwnersExist
<1>9. QED
  BY <1>4, <1>5, <1>6, <1>7, <1>8 DEF Has

(* Whatever failed on the way up and whatever was asked for, nothing       *)
(* borrowed is freed before its borrower, and the one thing ever freed that*)
(* is not an allocation of its own is a layer that --gpu-layers staged in a*)
(* model that fits the device (vv_inference_init, vv_inference_clone,      *)
(* vv_inference_free).                                                     *)
THEOREM OnlyStagedLayersFreedWrong == LifeSpec => [](BorrowedOutlives /\ FreesOwn)
<1>1. LifeInv => BorrowedOutlives /\ FreesOwn
  BY LenderOutlives DEF LifeInv
<1>2. QED
  BY <1>1, LifeStarts, LifeGoesOn, PTL DEF LifeSpec

(* Without that option, for any number of slots, every placement and every *)
(* failure: each allocation is freed once, by its owner, after its last    *)
(* borrower, and an engine that is gone, unless it streamed its layers, has*)
(* left none (vv_inference_free, vv_engine_free, vv_model_free).           *)
THEOREM ContextsFreeOnce ==
    ASSUME Asked = {FALSE}
    PROVE  LifeSpec => []FreedOnce
<1>1. LifeInv => FreedOnce
  <2> SUFFICES ASSUME LifeInv PROVE FreedOnce
    OBVIOUS
  <2>1. ~conf.part
    BY DEF LifeInv, LifeTypes, Confs
  <2>2. QED
    BY <2>1, LenderOutlives DEF LifeInv, FreesOwn, FreedOnce, NoWrongFree, GoneLeavesNothing
<1>2. QED
  BY <1>1, LifeStarts, LifeGoesOn, PTL DEF LifeSpec

-----------------------------------------------------------------------------
(* The streaming sessions of a slot: where every buffer is between the     *)
(* session and the context, what the device buffers hold that a step may   *)
(* read, and the texts of a clip.                                          *)

(* The names of the buffers.                                               *)
LEMMA NamesApart ==
    /\ Range(Rows) = {"hidden", "ids_dev", "ids_pin"}
    /\ Range(Fixed) = {"normed", "hidden_one", "tok_dev", "tok_pin"}
    /\ Range(DevHead) = {"logits", "am_v", "am_i"}
    /\ Range(Ahead) \subseteq {"ahead", "ev0", "ev1", "ev2", "ev3", "ev4", "ev5", "ev6", "ev7"}
<1>1. Range(Rows) = {"hidden", "ids_dev", "ids_pin"}
  <2>1. DOMAIN Rows = 1..3 /\ Rows[1] = "hidden" /\ Rows[2] = "ids_dev" /\ Rows[3] = "ids_pin"
    BY DEF Rows
  <2>2. 1..3 = {1, 2, 3}
    OBVIOUS
  <2>3. QED
    BY <2>1, <2>2 DEF Range
<1>2. Range(Fixed) = {"normed", "hidden_one", "tok_dev", "tok_pin"}
  <2>1. DOMAIN Fixed = 1..4 /\ Fixed[1] = "normed" /\ Fixed[2] = "hidden_one" /\ Fixed[3] = "tok_dev" /\ Fixed[4] = "tok_pin"
    BY DEF Fixed
  <2>2. 1..4 = {1, 2, 3, 4}
    OBVIOUS
  <2>3. QED
    BY <2>1, <2>2 DEF Range
<1>3. Range(DevHead) = {"logits", "am_v", "am_i"}
  <2>1. DOMAIN DevHead = 1..3 /\ DevHead[1] = "logits" /\ DevHead[2] = "am_v" /\ DevHead[3] = "am_i"
    BY DEF DevHead
  <2>2. 1..3 = {1, 2, 3}
    OBVIOUS
  <2>3. QED
    BY <2>1, <2>2 DEF Range
<1>4. Range(Ahead) \subseteq {"ahead", "ev0", "ev1", "ev2", "ev3", "ev4", "ev5", "ev6", "ev7"}
  <2>1. AheadMax \in 0..8
    BY BackendAssumption
  <2>2. /\ AheadEv[1] = "ev0" /\ AheadEv[2] = "ev1" /\ AheadEv[3] = "ev2" /\ AheadEv[4] = "ev3"
        /\ AheadEv[5] = "ev4" /\ AheadEv[6] = "ev5" /\ AheadEv[7] = "ev6" /\ AheadEv[8] = "ev7"
    BY DEF AheadEv
  <2>3. ASSUME NEW i \in 1..(AheadMax + 1)
        PROVE  (IF i = 1 THEN "ahead" ELSE AheadEv[i - 1]) \in {"ahead", "ev0", "ev1", "ev2", "ev3", "ev4", "ev5", "ev6", "ev7"}
    <3>1. CASE i = 1
      BY <3>1
    <3>2. CASE i # 1
      <4>1. i - 1 \in {1, 2, 3, 4, 5, 6, 7, 8}
        BY <2>1, <3>2
      <4>2. QED
        BY <2>2, <3>2, <4>1
    <3>3. QED
      BY <3>1, <3>2
  <2>4. QED
    BY <2>3 DEF Range, Ahead
<1>5. QED
  BY <1>1, <1>2, <1>3, <1>4

LEMMA Apart ==
    /\ Range(Rows) \subseteq Device /\ Range(Fixed) \subseteq Device /\ Range(DevHead) \subseteq Device
    /\ Range(Ahead) \subseteq Device /\ "hidden" \in Range(Rows)
    /\ Range(Fixed) \cap Range(Rows) = {} /\ Range(DevHead) \cap Range(Rows) = {} /\ Range(Ahead) \cap Range(Rows) = {}
    /\ Device \cap Host = {} /\ "parked" \notin Device /\ "parked" \notin Host
    /\ {"host_h", "host_f", "one32", "norm32", "sbe", "hid32"} \subseteq Host
<1>1. Range(Rows) \subseteq Device /\ Range(Fixed) \subseteq Device /\ Range(DevHead) \subseteq Device /\ Range(Ahead) \subseteq Device
  BY DEF Device
<1>2. {"host_h", "host_f", "one32", "norm32", "sbe", "hid32"} \subseteq Host /\ Host \subseteq {"host_h", "host_f", "one32", "norm32", "sbe", "hid32"}
  BY DEF Host, HostHead
<1>3. \A x \in Device : x \in {"hidden", "ids_dev", "ids_pin"} \/ x \in {"normed", "hidden_one", "tok_dev", "tok_pin"}
        \/ x \in {"logits", "am_v", "am_i"} \/ x \in {"ahead", "ev0", "ev1", "ev2", "ev3", "ev4", "ev5", "ev6", "ev7"}
  BY NamesApart, Zenon DEF Device
<1>4. Device \cap Host = {} /\ "parked" \notin Device /\ "parked" \notin Host
  BY <1>2, <1>3
<1>5. Range(Fixed) \cap Range(Rows) = {} /\ Range(DevHead) \cap Range(Rows) = {} /\ Range(Ahead) \cap Range(Rows) = {} /\ "hidden" \in Range(Rows)
  BY NamesApart
<1>6. QED
  BY <1>1, <1>2, <1>4, <1>5

\* Nothing but what the session holds is allocated or freed.
Keeps(r, s) == IsMem(s) /\ \A x \in Allocs : Unheld(s, x) = Unheld(r, x)

LEMMA KeepsOn ==
    ASSUME NEW r, NEW s, NEW t, Keeps(r, s), Keeps(s, t)
    PROVE  Keeps(r, t)
  BY DEF Keeps

LEMMA KeepsSelf ==
    ASSUME NEW r, IsMem(r)
    PROVE  Keeps(r, r)
  BY DEF Keeps

\* What is not about a buffer may change.
LEMMA CapSet ==
    ASSUME NEW r, IsMem(r), NEW n \in Nat
    PROVE  /\ Keeps(r, [r EXCEPT !.cap = n]) /\ [r EXCEPT !.cap = n].held = r.held /\ [r EXCEPT !.cap = n].cap = n
           /\ [r EXCEPT !.cap = n].ok = r.ok
  BY DEF Keeps, IsMem, Unheld

LEMMA OkSet ==
    ASSUME NEW r, IsMem(r), NEW b
    PROVE  /\ Keeps(r, [r EXCEPT !.ok = b]) /\ [r EXCEPT !.ok = b].held = r.held /\ [r EXCEPT !.ok = b].cap = r.cap
           /\ [r EXCEPT !.ok = b].ok = b
  BY DEF Keeps, IsMem, Unheld

LEMMA LeftSet ==
    ASSUME NEW r, IsMem(r), NEW b
    PROVE  /\ Keeps(r, [r EXCEPT !.left = b]) /\ [r EXCEPT !.left = b].held = r.held /\ [r EXCEPT !.left = b].cap = r.cap
  BY DEF Keeps, IsMem, Unheld

LEMMA GainIs ==
    ASSUME NEW r, IsMem(r), NEW X, X \subseteq (Device \cup Host) \ r.held
    PROVE  /\ Keeps(r, Gain(r, X)) /\ Gain(r, X).held = r.held \cup X /\ Gain(r, X).cap = r.cap
<1> DEFINE g == Gain(r, X)
           l == [x \in Allocs |-> IF x \in X THEN r.live[x] + 1 ELSE r.live[x]]
           n == r.left - Cardinality(X)
<1>1. Gain(r, X) = [r EXCEPT !.held = r.held \cup X, !.left = n, !.live = l]
  BY DEF Gain
<1>2. l \in [Allocs -> Int] /\ \A x \in Allocs : l[x] = IF x \in X THEN r.live[x] + 1 ELSE r.live[x]
  BY DEF IsMem
<1> HIDE DEF l, n
<1>3. Gain(r, X) = [held |-> r.held \cup X, cap |-> r.cap, live |-> l, ok |-> r.ok, left |-> n]
  BY <1>1 DEF IsMem
<1>4. /\ Gain(r, X).held = r.held \cup X /\ Gain(r, X).cap = r.cap /\ Gain(r, X).live = l
      /\ Gain(r, X) = [held |-> Gain(r, X).held, cap |-> Gain(r, X).cap, live |-> Gain(r, X).live, ok |-> Gain(r, X).ok, left |-> Gain(r, X).left]
  BY <1>3
<1>5. IsMem(Gain(r, X))
  BY <1>2, <1>4 DEF IsMem
<1>6. \A x \in Allocs : Unheld(Gain(r, X), x) = Unheld(r, x)
  BY <1>2, <1>4 DEF Unheld, IsMem
<1>7. QED
  BY <1>4, <1>5, <1>6 DEF Keeps

LEMMA ReleaseIs ==
    ASSUME NEW r, IsMem(r), NEW X
    PROVE  /\ Keeps(r, Release(r, X)) /\ Release(r, X).held = r.held \ X /\ Release(r, X).cap = r.cap
<1> DEFINE l == [x \in Allocs |-> IF x \in X \cap r.held THEN r.live[x] - 1 ELSE r.live[x]]
<1>1. Release(r, X) = [r EXCEPT !.held = r.held \ X, !.live = l]
  BY DEF Release
<1>2. l \in [Allocs -> Int] /\ \A x \in Allocs : l[x] = IF x \in X \cap r.held THEN r.live[x] - 1 ELSE r.live[x]
  BY DEF IsMem
<1> HIDE DEF l
<1>3. Release(r, X) = [held |-> r.held \ X, cap |-> r.cap, live |-> l, ok |-> r.ok, left |-> r.left]
  BY <1>1 DEF IsMem
<1>4. /\ Release(r, X).held = r.held \ X /\ Release(r, X).cap = r.cap /\ Release(r, X).live = l
      /\ Release(r, X) = [held |-> Release(r, X).held, cap |-> Release(r, X).cap, live |-> Release(r, X).live,
                          ok |-> Release(r, X).ok, left |-> Release(r, X).left]
  BY <1>3
<1>5. IsMem(Release(r, X))
  BY <1>2, <1>4 DEF IsMem
<1>6. \A x \in Allocs : Unheld(Release(r, X), x) = Unheld(r, x)
  BY <1>2, <1>4 DEF Unheld, IsMem
<1>7. QED
  BY <1>4, <1>5, <1>6 DEF Keeps

LEMMA TryAllIs ==
    ASSUME NEW r, IsMem(r), NEW xs, Range(xs) \subseteq Device \cup Host
    PROVE  /\ Keeps(r, TryAll(r, xs)) /\ r.held \subseteq TryAll(r, xs).held
           /\ TryAll(r, xs).held \subseteq r.held \cup Range(xs) /\ TryAll(r, xs).cap = r.cap
           /\ TryAll(r, xs).ok => Range(xs) \subseteq TryAll(r, xs).held \/ ~r.ok
<1> DEFINE X == Granted(r, xs)
           b == Range(xs) \subseteq r.held \cup X
           g == Gain(r, X)
<1>1. X \subseteq Range(xs) /\ X \cap r.held = {}
  BY DEF Granted, Missing, Range
<1>2. TryAll(r, xs) = IF r.ok THEN [g EXCEPT !.ok = b] ELSE r
  BY DEF TryAll
<1> HIDE DEF X
<1>3. Keeps(r, g) /\ g.held = r.held \cup X /\ g.cap = r.cap
  BY <1>1, GainIs
<1> HIDE DEF g
<1>4. CASE r.ok
  <2>1. TryAll(r, xs) = [g EXCEPT !.ok = b] /\ IsMem(g) /\ 0 \in Nat
    BY <1>2, <1>3, <1>4 DEF Keeps
  <2>2. \A c : /\ Keeps(g, [g EXCEPT !.ok = c]) /\ [g EXCEPT !.ok = c].held = g.held /\ [g EXCEPT !.ok = c].cap = g.cap
               /\ [g EXCEPT !.ok = c].ok = c
    BY <2>1, OkSet
  <2> DEFINE t == [g EXCEPT !.ok = b]
  <2>3. Keeps(g, t) /\ t.held = g.held /\ t.cap = g.cap /\ t.ok = b
    BY <2>2, Zenon
  <2>4. t.ok => Range(xs) \subseteq t.held
    BY <1>3, <2>3
  <2> HIDE DEF t
  <2>5. Keeps(r, t)
    BY <1>3, <2>3, KeepsOn
  <2>6. TryAll(r, xs) = t
    BY <2>1 DEF t
  <2>7. QED
    BY <1>1, <1>3, <2>3, <2>4, <2>5, <2>6
<1>5. CASE ~r.ok
  <2>1. TryAll(r, xs) = r
    BY <1>2, <1>5
  <2>2. QED
    BY <1>5, <2>1, KeepsSelf
<1>6. QED
  BY <1>4, <1>5

LEMMA TryBothIs ==
    ASSUME NEW r, IsMem(r), NEW x \in Host, NEW y \in Host
    PROVE  /\ Keeps(r, TryBoth(r, x, y)) /\ r.held \subseteq TryBoth(r, x, y).held
           /\ TryBoth(r, x, y).held \subseteq r.held \cup Host /\ TryBoth(r, x, y).cap = r.cap
<1> DEFINE X == Either(r, x, y)
           b == r.left >= 2
           g == Gain(r, X)
<1>1. X \subseteq Host /\ X \cap r.held = {}
  BY DEF Either
<1>2. TryBoth(r, x, y) = IF r.ok THEN [g EXCEPT !.ok = b] ELSE r
  BY DEF TryBoth
<1> HIDE DEF X, b
<1>3. Keeps(r, g) /\ g.held = r.held \cup X /\ g.cap = r.cap
  BY <1>1, GainIs
<1> HIDE DEF g
<1>4. CASE r.ok
  <2> DEFINE t == [g EXCEPT !.ok = b]
  <2>1. TryBoth(r, x, y) = t /\ IsMem(g) /\ 0 \in Nat
    BY <1>2, <1>3, <1>4 DEF Keeps
  <2>2. Keeps(g, t) /\ t.held = g.held /\ t.cap = g.cap
    BY <2>1, OkSet
  <2> HIDE DEF t
  <2>3. Keeps(r, t)
    BY <1>3, <2>2, KeepsOn
  <2>4. QED
    BY <1>1, <1>3, <2>1, <2>2, <2>3
<1>5. CASE ~r.ok
  <2>1. TryBoth(r, x, y) = r
    BY <1>2, <1>5
  <2>2. QED
    BY <2>1, KeepsSelf
<1>6. QED
  BY <1>4, <1>5

LEMMA FreeRowsIs ==
    ASSUME NEW r, IsMem(r)
    PROVE  /\ Keeps(r, gpu_free_rows(r)) /\ gpu_free_rows(r).held = r.held \ Range(Rows) /\ gpu_free_rows(r).cap = 0
<1> DEFINE f == Release(r, Range(Rows))
<1>1. Keeps(r, f) /\ f.held = r.held \ Range(Rows)
  BY ReleaseIs
<1>2. gpu_free_rows(r) = [f EXCEPT !.cap = 0]
  BY DEF gpu_free_rows
<1> HIDE DEF f
<1>3. IsMem(f) /\ 0 \in Nat
  BY <1>1 DEF Keeps
<1>4. \A n \in Nat : Keeps(f, [f EXCEPT !.cap = n]) /\ [f EXCEPT !.cap = n].held = f.held /\ [f EXCEPT !.cap = n].cap = n
  BY <1>3, CapSet
<1>5. Keeps(f, gpu_free_rows(r)) /\ gpu_free_rows(r).held = f.held /\ gpu_free_rows(r).cap = 0
  BY <1>2, <1>3, <1>4, Zenon
<1>6. QED
  BY <1>1, <1>5, KeepsOn

LEMMA FreeBufsIs ==
    ASSUME NEW r, IsMem(r)
    PROVE  Keeps(r, gpu_free_bufs(r)) /\ gpu_free_bufs(r).held = r.held \ Device
<1> DEFINE f == gpu_free_rows(r)
<1>1. Keeps(r, f) /\ f.held = r.held \ Range(Rows) /\ IsMem(f)
  BY FreeRowsIs DEF Keeps
<1>2. gpu_free_bufs(r) = Release(f, Device)
  BY DEF gpu_free_bufs
<1> HIDE DEF f
<1>3. Keeps(f, Release(f, Device)) /\ Release(f, Device).held = f.held \ Device
  BY <1>1, ReleaseIs
<1>4. f.held \ Device = r.held \ Device
  BY <1>1, Apart
<1>5. QED
  BY <1>1, <1>2, <1>3, <1>4, KeepsOn

LEMMA KeptOn ==
    ASSUME NEW r, NEW s, NEW p, AllKept(r, p), Keeps(r, s)
    PROVE  AllKept(s, p) /\ IsMem(s)
  BY DEF AllKept, Keeps

LEMMA MemoryIs ==
    ASSUME NEW l \in [Allocs -> Int], NEW n
    PROVE  /\ IsMem(Memory(l, n)) /\ Memory(l, n).held = {} /\ Memory(l, n).cap = 0 /\ Memory(l, n).live = l
           /\ \A x \in Allocs : Unheld(Memory(l, n), x) = l[x]
  BY DEF Memory, IsMem, Unheld

LEMMA RangeOfOne == ASSUME NEW x PROVE Range(<<x>>) = {x}
  BY DEF Range

LEMMA NoRows ==
    ASSUME NEW H, H \cap Range(Rows) = {}
    PROVE  RowsRight(0, H)
  BY Apart DEF RowsRight

LEMMA RowsIs ==
    ASSUME NEW r, IsMem(r), NEW n \in Nat \ {0}, RowsRight(r.cap, r.held)
    PROVE  Keeps(r, gpu_rows(r, n)) /\ RowsRight(gpu_rows(r, n).cap, gpu_rows(r, n).held)
<1> DEFINE e == gpu_free_rows(r)
           f == TryAll(e, Rows)
           g == gpu_free_rows(f)
           h == [f EXCEPT !.cap = n]
<1>1. gpu_rows(r, n) = IF ~r.ok \/ n <= r.cap THEN r ELSE IF f.ok THEN h ELSE g
  BY DEF gpu_rows
<1>2. Keeps(r, e) /\ IsMem(e)
  BY FreeRowsIs DEF Keeps
<1>3. e.ok = r.ok
  BY DEF gpu_free_rows, Release, IsMem
<1> HIDE DEF e
<1>4. Keeps(e, f) /\ IsMem(f) /\ (f.ok => Range(Rows) \subseteq f.held \/ ~e.ok)
  BY <1>2, TryAllIs, Apart DEF Keeps
<1> HIDE DEF f
<1>5. Keeps(f, g) /\ g.held = f.held \ Range(Rows) /\ g.cap = 0
  BY <1>4, FreeRowsIs
<1>6. Keeps(f, h) /\ h.held = f.held /\ h.cap = n
  BY <1>4, CapSet
<1> HIDE DEF g, h
<1>7. CASE ~r.ok \/ n <= r.cap
  BY <1>1, <1>7, KeepsSelf
<1>8. CASE ~(~r.ok \/ n <= r.cap) /\ f.ok
  <2>1. gpu_rows(r, n) = h
    BY <1>1, <1>8
  <2>2. Range(Rows) \subseteq h.held /\ n > 0
    BY <1>3, <1>4, <1>6, <1>8
  <2>3. RowsRight(h.cap, h.held)
    BY <1>6, <2>2 DEF RowsRight
  <2>4. Keeps(r, h)
    BY <1>2, <1>4, <1>6, KeepsOn
  <2>5. QED
    BY <2>1, <2>3, <2>4
<1>9. CASE ~(~r.ok \/ n <= r.cap) /\ ~f.ok
  <2>1. gpu_rows(r, n) = g
    BY <1>1, <1>9
  <2>2. g.held \cap Range(Rows) = {}
    BY <1>5
  <2>3. RowsRight(g.cap, g.held)
    BY <1>5, <2>2, NoRows
  <2>4. Keeps(r, g)
    BY <1>2, <1>4, <1>5, KeepsOn
  <2>5. QED
    BY <2>1, <2>3, <2>4
<1>10. QED
  BY <1>7, <1>8, <1>9

\* What was parked is the session's again.
LEMMA AdoptIs ==
    ASSUME NEW r, IsMem(r), NEW p, IsParked(p), ParkedRight(p), AllKept(r, p), r.held \cap Device = {}, r.cap = 0
    PROVE  /\ IsMem(Adopt(r, p)) /\ AllKept(Adopt(r, p), Unparked)
           /\ RowsRight(Adopt(r, p).cap, Adopt(r, p).held) /\ Adopt(r, p).held \subseteq r.held \cup Device
<1> DEFINE a == Adopt(r, p)
           l == [r.live EXCEPT !["parked"] = r.live["parked"] - 1]
<1>1. CASE ~p.is
  <2>1. a = r /\ p = Unparked
    BY <1>1 DEF Adopt, ParkedRight
  <2>2. r.held \cap Range(Rows) = {}
    BY Apart
  <2>3. QED
    BY <2>1, <2>2, NoRows
<1>2. CASE p.is
  <2>1. a = [r EXCEPT !.held = r.held \cup p.bufs, !.cap = p.cap, !.live = l]
    BY <1>2 DEF Adopt, IsMem
  <2>2. l \in [Allocs -> Int] /\ \A x \in Allocs : l[x] = IF x = "parked" THEN r.live[x] - 1 ELSE r.live[x]
    <3>1. "parked" \in Allocs /\ r.live \in [Allocs -> Int]
      BY DEF Allocs, IsMem
    <3>2. QED
      BY <3>1
  <2> HIDE DEF l
  <2>3. a = [held |-> r.held \cup p.bufs, cap |-> p.cap, live |-> l, ok |-> r.ok, left |-> r.left]
    BY <2>1 DEF IsMem
  <2> HIDE DEF a
  <2>4. a.held = r.held \cup p.bufs /\ a.cap = p.cap /\ a.live = l /\ IsMem(a)
    BY <2>2, <2>3 DEF IsMem, IsParked
  <2>5. ASSUME NEW x \in Allocs PROVE Unheld(a, x) = 0
    <3>1. r.live[x] \in Int /\ r.live[x] = (IF x \in ParkedBufs(p) THEN 1 ELSE 0) + (IF x \in r.held THEN 1 ELSE 0)
      BY DEF AllKept, Unheld, IsMem
    <3>2. CASE x = "parked"
      <4>1. x \in ParkedBufs(p) /\ x \notin r.held /\ x \notin a.held
        BY <1>2, <2>4, <3>2, Apart DEF ParkedBufs, IsMem, IsParked
      <4>2. r.live[x] = 1 /\ a.live[x] = r.live[x] - 1
        BY <2>2, <2>4, <3>1, <3>2, <4>1
      <4>3. a.live[x] = 0
        BY <4>2
      <4>4. (IF x \in a.held THEN 1 ELSE 0) = 0
        BY <4>1
      <4>5. Unheld(a, x) = 0 - 0
        BY <4>3, <4>4, Zenon DEF Unheld
      <4>6. QED
        BY <4>5
    <3>3. CASE x # "parked"
      <4>1. a.live[x] = r.live[x] /\ (x \in ParkedBufs(p) <=> x \in p.bufs)
        BY <2>2, <2>4, <3>3 DEF ParkedBufs
      <4>2. ~(x \in p.bufs /\ x \in r.held)
        BY DEF IsParked
      <4>3. QED
        BY <2>4, <3>1, <4>1, <4>2 DEF Unheld
    <3>4. QED
      BY <3>2, <3>3
  <2>6. AllKept(a, Unparked)
    BY <2>5 DEF AllKept, ParkedBufs, Unparked
  <2>7. RowsRight(a.cap, a.held)
    <3>1. Range(Rows) \subseteq a.held <=> Range(Rows) \subseteq p.bufs
      BY <2>4, Apart
    <3>2. QED
      BY <2>4, <3>1 DEF RowsRight, ParkedRight
  <2>8. QED
    BY <2>4, <2>6, <2>7 DEF a, IsParked
<1>3. QED
  BY <1>1, <1>2

\* Buffers other than rows come without touching the rows.
LEMMA RowsStay ==
    ASSUME NEW r, NEW s, RowsRight(r.cap, r.held), s.cap = r.cap, r.held \subseteq s.held,
           NEW X, s.held \subseteq r.held \cup X, X \cap Range(Rows) = {}
    PROVE  RowsRight(s.cap, s.held)
<1>1. Range(Rows) \subseteq s.held <=> Range(Rows) \subseteq r.held
  OBVIOUS
<1>2. QED
  BY <1>1 DEF RowsRight

LEMMA TryStays ==
    ASSUME NEW r, IsMem(r), RowsRight(r.cap, r.held), NEW xs, Range(xs) \subseteq Device, Range(xs) \cap Range(Rows) = {}
    PROVE  Keeps(r, TryAll(r, xs)) /\ RowsRight(TryAll(r, xs).cap, TryAll(r, xs).held)
<1>1. /\ Keeps(r, TryAll(r, xs)) /\ r.held \subseteq TryAll(r, xs).held
      /\ TryAll(r, xs).held \subseteq r.held \cup Range(xs) /\ TryAll(r, xs).cap = r.cap
  BY TryAllIs
<1>2. QED
  BY <1>1, RowsStay

LEMMA BothStay ==
    ASSUME NEW r, IsMem(r), RowsRight(r.cap, r.held), NEW x \in Host, NEW y \in Host
    PROVE  Keeps(r, TryBoth(r, x, y)) /\ RowsRight(TryBoth(r, x, y).cap, TryBoth(r, x, y).held)
<1>1. /\ Keeps(r, TryBoth(r, x, y)) /\ r.held \subseteq TryBoth(r, x, y).held
      /\ TryBoth(r, x, y).held \subseteq r.held \cup Host /\ TryBoth(r, x, y).cap = r.cap
  BY TryBothIs
<1>2. Host \cap Range(Rows) = {}
  BY Apart
<1>3. QED
  BY <1>1, <1>2, RowsStay

\* A session that opens, on either device, whether it gets all it asks for or not.
LEMMA GpuOpenIs ==
    ASSUME NEW r, IsMem(r), NEW c, IsParked(c.parked), ParkedRight(c.parked), AllKept(r, c.parked),
           r.held \cap Device = {}, r.cap = 0, NEW n \in Nat \ {0}
    PROVE  LET o == gpu_open(r, c, n) IN IsMem(o) /\ AllKept(o, Unparked) /\ RowsRight(o.cap, o.held)
<1> DEFINE a == Adopt(r, c.parked)
           w == gpu_rows(a, n)
           f == TryAll(w, Fixed)
           h == IF c.headDev THEN TryAll(f, DevHead) ELSE TryBoth(f, "host_h", "host_f")
           o == OpenAhead(h, c)
<1>1. gpu_open(r, c, n) = o
  BY DEF gpu_open
<1>2. IsMem(a) /\ AllKept(a, Unparked) /\ RowsRight(a.cap, a.held)
  BY AdoptIs
<1> HIDE DEF a
<1>3. Keeps(a, w) /\ IsMem(w) /\ RowsRight(w.cap, w.held)
  BY <1>2, RowsIs DEF Keeps
<1> HIDE DEF w
<1>4. Keeps(w, f) /\ IsMem(f) /\ RowsRight(f.cap, f.held)
  BY <1>3, TryStays, Apart DEF Keeps
<1> HIDE DEF f
<1>5. Keeps(f, h) /\ IsMem(h) /\ RowsRight(h.cap, h.held)
  <2>1. CASE c.headDev
    <3>1. h = TryAll(f, DevHead)
      BY <2>1
    <3>2. QED
      BY <1>4, <3>1, TryStays, Apart DEF Keeps
  <2>2. CASE ~c.headDev
    <3>1. h = TryBoth(f, "host_h", "host_f") /\ "host_h" \in Host /\ "host_f" \in Host
      BY <2>2, Apart
    <3>2. QED
      BY <1>4, <3>1, BothStay DEF Keeps
  <2>3. QED
    BY <2>1, <2>2
<1> HIDE DEF h
<1>6. Keeps(h, o) /\ IsMem(o) /\ RowsRight(o.cap, o.held)
  <2>1. o = TryAll(h, Ahead) \/ o = h
    BY DEF OpenAhead
  <2>2. CASE o = TryAll(h, Ahead)
    <3>1. Keeps(h, TryAll(h, Ahead)) /\ RowsRight(TryAll(h, Ahead).cap, TryAll(h, Ahead).held)
      BY <1>5, TryStays, Apart
    <3> HIDE DEF o
    <3>2. QED
      BY <2>2, <3>1 DEF Keeps
  <2>3. CASE o = h
    <3> HIDE DEF o
    <3>1. QED
      BY <1>5, <2>3, KeepsSelf
  <2> HIDE DEF o
  <2>4. QED
    BY <2>1, <2>2, <2>3
<1> HIDE DEF o
<1>7. Keeps(a, o)
  BY <1>3, <1>4, <1>5, <1>6, KeepsOn
<1>8. AllKept(o, Unparked)
  BY <1>2, <1>7, KeptOn
<1>9. QED
  BY <1>1, <1>6, <1>8

LEMMA CpuOpenIs ==
    ASSUME NEW r, IsMem(r), r.held \subseteq Host, NEW n \in Nat
    PROVE  Keeps(r, cpu_open(r, n)) /\ cpu_open(r, n).held \subseteq Host
<1> DEFINE f == TryAll(r, <<"hid32">>)
           h == [f EXCEPT !.cap = n]
           w == cpu_rows(r, n)
<1>1. w = r \/ w = f \/ w = h
  BY DEF cpu_rows
<1>2. Range(<<"hid32">>) \subseteq Host
  BY RangeOfOne, Apart
<1>3. Keeps(r, f) /\ IsMem(f) /\ f.held \subseteq Host
  BY <1>2, TryAllIs DEF Keeps
<1> HIDE DEF f
<1>4. Keeps(f, h) /\ h.held = f.held
  BY <1>3, CapSet
<1> HIDE DEF h
<1>5. Keeps(r, h)
  BY <1>3, <1>4, KeepsOn
<1>6. Keeps(r, w) /\ IsMem(w) /\ w.held \subseteq Host
  <2> HIDE DEF w
  <2>1. QED
    BY <1>1, <1>3, <1>4, <1>5, KeepsSelf DEF Keeps
<1>7. cpu_open(r, n) = TryBoth(w, "one32", "norm32")
  BY DEF cpu_open
<1> HIDE DEF w
<1>8. "one32" \in Host /\ "norm32" \in Host
  BY Apart
<1>9. Keeps(w, TryBoth(w, "one32", "norm32")) /\ TryBoth(w, "one32", "norm32").held \subseteq w.held \cup Host
  BY <1>6, <1>8, TryBothIs
<1>10. QED
  BY <1>6, <1>7, <1>9, KeepsOn

\* With nothing held, the record of the session says no more than its allocations.
LEMMA AllLetGo ==
    ASSUME NEW r, IsMem(r), NEW p, AllKept(r, p), r.held = {}, NEW k
    PROVE  r.live \in [Allocs -> Int] /\ AllKept(Memory(r.live, k), p)
<1>1. r.live \in [Allocs -> Int]
  BY DEF IsMem
<1>2. \A x \in Allocs : Unheld(Memory(r.live, k), x) = r.live[x]
  BY <1>1, MemoryIs
<1>3. \A x \in Allocs : Unheld(r, x) = r.live[x]
  BY <1>1 DEF Unheld
<1>4. QED
  BY <1>1, <1>2, <1>3 DEF AllKept

LEMMA MemSet ==
    ASSUME NEW r, IsMem(r), NEW H, NEW n, NEW e, e = [r EXCEPT !.held = H, !.cap = n]
    PROVE  e = [held |-> H, cap |-> n, live |-> r.live, ok |-> r.ok, left |-> r.left]
  BY DEF IsMem

\* What the session held on the device is parked.
LEMMA ParkIs ==
    ASSUME NEW r, IsMem(r), AllKept(r, Unparked), RowsRight(r.cap, r.held)
    PROVE  LET m == [park_move(r) EXCEPT !.live["parked"] = @ + 1]
           IN IsMem(m) /\ AllKept(m, Park(r)) /\ IsParked(Park(r)) /\ ParkedRight(Park(r)) /\ Park(r).is
<1> DEFINE m == [park_move(r) EXCEPT !.live["parked"] = @ + 1]
           l == [r.live EXCEPT !["parked"] = r.live["parked"] + 1]
           p == Park(r)
<1>1. "parked" \in Allocs /\ r.live \in [Allocs -> Int] /\ r.held \subseteq Device \cup Host
  BY DEF Allocs, IsMem
<1>2. park_move(r) = [held |-> r.held \ Device, cap |-> 0, live |-> r.live, ok |-> r.ok, left |-> r.left]
  BY MemSet, Zenon DEF park_move
<1>3. m = [held |-> r.held \ Device, cap |-> 0, live |-> l, ok |-> r.ok, left |-> r.left]
  BY <1>2
<1>4. l \in [Allocs -> Int] /\ \A x \in Allocs : l[x] = IF x = "parked" THEN r.live[x] + 1 ELSE r.live[x]
  BY <1>1
<1> HIDE DEF l, m
<1>5. m.held = r.held \ Device /\ m.live = l /\ IsMem(m)
  BY <1>1, <1>3, <1>4 DEF IsMem
<1>6. p = [is |-> TRUE, bufs |-> r.held \cap Device, cap |-> r.cap]
  BY DEF Park
<1> HIDE DEF p
<1>7. p.bufs = r.held \cap Device /\ p.cap = r.cap /\ p.is /\ IsParked(p)
  BY <1>6 DEF IsParked, IsMem
<1>8. ParkedRight(p)
  <2>1. Range(Rows) \subseteq p.bufs <=> Range(Rows) \subseteq r.held
    BY <1>7, Apart
  <2>2. QED
    BY <1>7, <2>1 DEF ParkedRight, RowsRight
<1>9. ASSUME NEW x \in Allocs PROVE Unheld(m, x) = IF x \in ParkedBufs(p) THEN 1 ELSE 0
  <2>1. r.live[x] \in Int /\ r.live[x] = IF x \in r.held THEN 1 ELSE 0
    BY <1>1 DEF AllKept, Unheld, ParkedBufs, Unparked
  <2>2. x \in ParkedBufs(p) <=> x \in r.held \cap Device \/ x = "parked"
    BY <1>7 DEF ParkedBufs
  <2>3. m.live[x] = IF x = "parked" THEN r.live[x] + 1 ELSE r.live[x]
    BY <1>4, <1>5
  <2>4. x \in m.held <=> x \in r.held /\ x \notin Device
    BY <1>5
  <2>5. x = "parked" => x \notin r.held
    BY <1>1, Apart
  <2> HIDE DEF m
  <2>6. m.live[x] - (IF x \in m.held THEN 1 ELSE 0) = IF x \in ParkedBufs(p) THEN 1 ELSE 0
    BY <2>1, <2>2, <2>3, <2>4, <2>5
  <2>7. QED
    BY <2>6, Zenon DEF Unheld
<1>10. AllKept(m, p)
  BY <1>9 DEF AllKept
<1>11. QED
  BY <1>5, <1>7, <1>8, <1>10 DEF m, p

\* What a session leaves behind when it is destroyed.
Left(c, g) ==
  /\ IsContext(g.ctx) /\ ParkedRight(g.ctx.parked) /\ g.ctx.mapped = 0 /\ ~g.ctx.no_wait
  /\ g.ctx.gpu = c.gpu /\ (g.ctx.parked.is => c.gpu)
  /\ g.mem.live \in [Allocs -> Int] /\ AllKept(Memory(g.mem.live, 0), g.ctx.parked)

LEMMA GpuDestroyIs ==
    ASSUME NEW c, IsContext(c), c.gpu, NEW r, IsMem(r), AllKept(r, c.parked), ParkedRight(c.parked),
           RowsRight(r.cap, r.held), NEW memory
    PROVE  Left(c, gpu_destroy(c, r, memory))
<1> DEFINE park == ~c.parked.is /\ memory
           moved == IF park THEN [park_move(r) EXCEPT !.live["parked"] = @ + 1] ELSE r
           P == IF park THEN Park(r) ELSE c.parked
           d == [c EXCEPT !.parked = P, !.mapped = 0, !.len = 0, !.no_wait = FALSE]
           f == gpu_free_bufs(moved)
           R == Release(f, Host)
           g == gpu_destroy(c, r, memory)
<1>1. g = [ctx |-> d, mem |-> R]
  BY DEF gpu_destroy
<1>2. IsMem(moved) /\ AllKept(moved, P) /\ IsParked(P) /\ ParkedRight(P)
  <2>1. CASE park
    <3>1. c.parked = Unparked
      BY <2>1 DEF ParkedRight
    <3>2. moved = [park_move(r) EXCEPT !.live["parked"] = @ + 1] /\ P = Park(r)
      BY <2>1
    <3>3. AllKept(r, Unparked)
      BY <3>1
    <3> HIDE DEF moved, P
    <3>4. QED
      BY <3>2, <3>3, ParkIs
  <2>2. CASE ~park
    <3>1. moved = r /\ P = c.parked
      BY <2>2
    <3>2. QED
      BY <3>1 DEF IsContext
  <2>3. QED
    BY <2>1, <2>2
<1> HIDE DEF park, moved, P
<1> DEFINE no == FALSE
           z == 0
<1>3. d = [c EXCEPT !.parked = P, !.mapped = z, !.len = z, !.no_wait = no] /\ ~no /\ z = 0
  OBVIOUS
<1> HIDE DEF d, no, z
<1>a. d = [gpu |-> c.gpu, embedDev |-> c.embedDev, headDev |-> c.headDev, ahead |-> c.ahead, freed |-> c.freed,
           parked |-> P, len |-> z, mapped |-> z, no_wait |-> no]
  BY <1>3 DEF IsContext
<1>b. /\ d.parked = P /\ d.mapped = z /\ d.len = z /\ d.no_wait = no /\ d.gpu = c.gpu
      /\ d = [gpu |-> d.gpu, embedDev |-> d.embedDev, headDev |-> d.headDev, ahead |-> d.ahead, freed |-> d.freed,
              parked |-> d.parked, len |-> d.len, mapped |-> d.mapped, no_wait |-> d.no_wait]
  BY <1>a
<1>4. IsContext(d) /\ d.parked = P /\ d.mapped = 0 /\ d.no_wait = no /\ d.gpu = c.gpu
  BY <1>2, <1>3, <1>b DEF IsContext
<1>5. Keeps(moved, f) /\ f.held = moved.held \ Device /\ IsMem(f)
  BY <1>2, FreeBufsIs DEF Keeps
<1> HIDE DEF f
<1>6. Keeps(f, R) /\ R.held = f.held \ Host /\ IsMem(R)
  BY <1>5, ReleaseIs DEF Keeps
<1> HIDE DEF R
<1>7. R.held = {}
  BY <1>2, <1>5, <1>6 DEF IsMem
<1>8. Keeps(moved, R)
  BY <1>5, <1>6, KeepsOn
<1>9. AllKept(R, P)
  BY <1>2, <1>8, KeptOn
<1>10. R.live \in [Allocs -> Int] /\ AllKept(Memory(R.live, 0), P)
  BY <1>6, <1>7, <1>9, AllLetGo
<1>11. g.ctx = d /\ g.mem = R
  BY <1>1
<1> HIDE DEF g
<1>12. QED
  BY <1>2, <1>3, <1>4, <1>10, <1>11 DEF Left, g

LEMMA UnparkedRight == IsParked(Unparked) /\ ParkedRight(Unparked) /\ ~Unparked.is
<1>1. {} \cap Range(Rows) = {} /\ Unparked.cap = 0 /\ Unparked.bufs = {}
  BY DEF Unparked
<1>2. RowsRight(Unparked.cap, Unparked.bufs)
  BY <1>1, NoRows
<1>3. QED
  BY <1>2 DEF ParkedRight, Unparked, IsParked

LEMMA CpuDestroyIs ==
    ASSUME NEW c, IsContext(c), ~c.gpu, c.parked = Unparked, c.mapped = 0, ~c.no_wait,
           NEW r, IsMem(r), AllKept(r, Unparked), r.held \subseteq Host
    PROVE  Left(c, cpu_destroy(c, r))
<1> DEFINE R == Release(r, Host)
<1>1. Keeps(r, R) /\ R.held = r.held \ Host /\ IsMem(R)
  BY ReleaseIs DEF Keeps
<1>2. cpu_destroy(c, r).ctx = c /\ cpu_destroy(c, r).mem = R
  BY DEF cpu_destroy
<1> HIDE DEF R
<1>3. R.held = {}
  BY <1>1
<1>4. AllKept(R, Unparked)
  BY <1>1, KeptOn
<1>5. R.live \in [Allocs -> Int] /\ AllKept(Memory(R.live, 0), Unparked)
  BY <1>1, <1>3, <1>4, AllLetGo
<1>6. QED
  BY <1>2, <1>5, UnparkedRight DEF Left

\* A session that may be destroyed.
Closable(c, r) ==
  /\ IsContext(c) /\ IsMem(r) /\ AllKept(r, c.parked) /\ ParkedRight(c.parked)
  /\ c.gpu => RowsRight(r.cap, r.held)
  /\ ~c.gpu => c.parked = Unparked /\ c.mapped = 0 /\ ~c.no_wait /\ r.held \subseteq Host

LEMMA DestroyIs ==
    ASSUME NEW c, NEW r, Closable(c, r), NEW memory
    PROVE  Left(c, destroy(c, r, memory))
<1>1. CASE c.gpu
  <2>1. destroy(c, r, memory) = gpu_destroy(c, r, memory)
    BY <1>1 DEF destroy
  <2>2. QED
    BY <1>1, <2>1, GpuDestroyIs DEF Closable
<1>2. CASE ~c.gpu
  <2>1. destroy(c, r, memory) = cpu_destroy(c, r)
    BY <1>2 DEF destroy
  <2>2. AllKept(r, Unparked)
    BY <1>2 DEF Closable
  <2>3. QED
    BY <1>2, <2>1, <2>2, CpuDestroyIs DEF Closable
<1>3. QED
  BY <1>1, <1>2

LEMMA CountIs ==
    ASSUME BackendTypes, NEW bad, Count(bad)
    PROVE  /\ count' = [sessions |-> count'.sessions, fails |-> count'.fails]
           /\ count'.sessions = count.sessions /\ count'.sessions \in Nat
<1> DEFINE n == count.fails + IF bad THEN 1 ELSE 0
<1>1. count' = [count EXCEPT !.fails = n] /\ count = [sessions |-> count.sessions, fails |-> count.fails] /\ count.sessions \in Nat
  BY DEF Count, BackendTypes
<1> HIDE DEF n
<1>2. QED
  BY <1>1

LEMMA ContextLonger ==
    ASSUME NEW c, IsContext(c), NEW n \in Nat, NEW e, e = [c EXCEPT !.len = n]
    PROVE  /\ IsContext(e) /\ e.len = n /\ e.mapped = c.mapped
           /\ e.gpu = c.gpu /\ e.parked = c.parked /\ e.no_wait = c.no_wait
<1>1. /\ e.len = n /\ e.mapped = c.mapped /\ e.gpu = c.gpu /\ e.parked = c.parked /\ e.no_wait = c.no_wait
      /\ e = [gpu |-> e.gpu, embedDev |-> e.embedDev, headDev |-> e.headDev, ahead |-> e.ahead, freed |-> e.freed,
              parked |-> e.parked, len |-> e.len, mapped |-> e.mapped, no_wait |-> e.no_wait]
  BY DEF IsContext
<1>2. QED
  BY <1>1 DEF IsContext

\* A step of an open session that leaves its buffers alone.
SlotServed(c, d) ==
  /\ IsContext(d) /\ d.gpu = c.gpu /\ d.parked = c.parked /\ d.no_wait = c.no_wait
  /\ c.gpu => d.mapped >= d.len
  /\ ~c.gpu => d.mapped = c.mapped

LEMMA BuffersQuiet ==
    ASSUME BuffersKept, be.open, be'.open, mem' = mem, SlotServed(ctx, ctx')
    PROVE  BuffersKept'
  BY DEF BuffersKept, SlotServed

LEMMA SlotServedSelf ==
    ASSUME BackendTypes, BuffersKept, be.open
    PROVE  SlotServed(ctx, ctx)
  BY DEF BackendTypes, BuffersKept, SlotServed

\* The rows the pages were taken for.
LEMMA PagesForIs ==
    ASSUME BackendTypes, NEW n \in Nat
    PROVE  PagesFor(n) \in Nat /\ PagesFor(n) >= n
  BY DEF BackendTypes, IsContext, PagesFor

\* A failed step leaves a session that can only be closed.
LEMMA DiesIs ==
    ASSUME BackendTypes, Dies
    PROVE  /\ IsSession(be') /\ be'.open = be.open /\ be'.tok_dev_id = -1 /\ be'.first = be.first /\ be'.n = be.n
           /\ be'.at = be.at /\ be'.chunk = be.chunk /\ be'.tok = be.tok
<1> DEFINE yes == TRUE
           gone == -1
<1>1. be' = [be EXCEPT !.failed = yes, !.tok_dev_id = gone] /\ IsSession(be)
  BY DEF Dies, BackendTypes
<1> HIDE DEF yes, gone
<1>2. /\ be'.open = be.open /\ be'.tok_dev_id = gone /\ be'.first = be.first /\ be'.n = be.n
      /\ be'.at = be.at /\ be'.chunk = be.chunk /\ be'.tok = be.tok /\ be'.steps = be.steps
      /\ be' = [open |-> be'.open, failed |-> be'.failed, tok_dev_id |-> be'.tok_dev_id, first |-> be'.first, n |-> be'.n,
                at |-> be'.at, chunk |-> be'.chunk, steps |-> be'.steps, tok |-> be'.tok]
  BY <1>1 DEF IsSession
<1>3. IsSession(be')
  BY <1>1, <1>2 DEF IsSession
<1>4. QED
  BY <1>2, <1>3 DEF gone

\* Windows encoded ahead.
LEMMA AheadKeeps ==
    ASSUME BackendInv, NEW n \in 2..AheadMax, NEW bad \in BOOLEAN, gpu_encode_ahead(n, bad)
    PROVE  BackendInv'
<1> DEFINE held == "ahead" \in mem.held
           ok == held /\ ~bad /\ \A i \in 1..n : AheadEv[i] \in mem.held
           m == IF ok THEN n ELSE 0
           f == IF ok THEN be.chunk ELSE be.first
           x == ~ok
           row == IF held THEN [i \in 1..AheadMax |-> IF i > n THEN dev.ahead[i] ELSE IF bad THEN Junk ELSE Window(be.chunk + i - 1)] ELSE dev.ahead
<1>1. /\ be.open /\ be' = [be EXCEPT !.n = m, !.first = f, !.failed = x]
      /\ dev' = [dev EXCEPT !.ahead = row] /\ Count(bad)
      /\ ctx' = ctx /\ mem' = mem /\ col' = col /\ computed' = computed
  BY DEF gpu_encode_ahead, Serving
<1>2. BackendTypes /\ BuffersKept /\ DeviceHolds /\ ClipTold /\ computed.read = computed.asked
  BY DEF BackendInv
<1>3. IsSession(be) /\ dev = [tok |-> dev.tok, ahead |-> dev.ahead] /\ AheadMax \in Nat /\ n \in Nat /\ n <= AheadMax
  BY <1>2, BackendAssumption DEF BackendTypes
<1>4. m \in Nat /\ f \in Nat /\ m <= AheadMax
  BY <1>3 DEF IsSession
<1>5. \A i \in 1..m : row[i] = <<count.sessions, f + i - 1>>
  <2> SUFFICES ASSUME NEW i \in 1..m PROVE row[i] = <<count.sessions, f + i - 1>>
    OBVIOUS
  <2>1. ok /\ i \in 1..AheadMax /\ ~(i > n) /\ held /\ ~bad /\ f = be.chunk
    BY <1>3
  <2>2. row[i] = Window(be.chunk + i - 1)
    BY <2>1
  <2>3. QED
    BY <2>1, <2>2 DEF Window
<1> HIDE DEF held, ok, m, f, x, row
<1>6. /\ be'.open = be.open /\ be'.tok_dev_id = be.tok_dev_id /\ be'.first = f /\ be'.n = m
      /\ be'.at = be.at /\ be'.chunk = be.chunk /\ be'.tok = be.tok /\ be'.steps = be.steps
      /\ be' = [open |-> be'.open, failed |-> be'.failed, tok_dev_id |-> be'.tok_dev_id, first |-> be'.first, n |-> be'.n,
                at |-> be'.at, chunk |-> be'.chunk, steps |-> be'.steps, tok |-> be'.tok]
  BY <1>1, <1>3 DEF IsSession
<1>7. IsSession(be')
  BY <1>3, <1>4, <1>6 DEF IsSession
<1>8. dev'.tok = dev.tok /\ dev'.ahead = row /\ dev' = [tok |-> dev'.tok, ahead |-> dev'.ahead]
  BY <1>1, <1>3
<1>9. count' = [sessions |-> count'.sessions, fails |-> count'.fails] /\ count'.sessions = count.sessions /\ count'.sessions \in Nat
  BY <1>1, <1>2, CountIs
<1>10. BackendTypes'
  BY <1>1, <1>2, <1>7, <1>8, <1>9 DEF BackendTypes
<1>11. BuffersKept'
  BY <1>1, <1>2, <1>6, SlotServedSelf, BuffersQuiet
<1>12. DeviceHolds'
  BY <1>2, <1>4, <1>5, <1>6, <1>8, <1>9 DEF DeviceHolds
<1>13. ClipTold'
  BY <1>1, <1>2, <1>6, <1>9 DEF ClipTold
<1>14. QED
  BY <1>1, <1>2, <1>10, <1>11, <1>12, <1>13 DEF BackendInv

\* What a step of a session leaves: token t is the next one, on the device if
\* the head is there.
Decided(b, t, id) ==
  /\ IsSession(b) /\ b.open /\ b.tok = t /\ b.tok_dev_id = id /\ b.at = "decode"
  /\ b.first = be.first /\ b.n = be.n /\ b.chunk = be.chunk

LEMMA DecidedHolds ==
    ASSUME BackendInv, NEW t \in TokenIds, NEW id, be.open, Decided(be', t, id), id \in {-1, dev'.tok},
           dev' = [tok |-> dev'.tok, ahead |-> dev'.ahead], dev'.ahead = dev.ahead,
           SlotServed(ctx, ctx'), mem' = mem, col' = col, NEW bad, Count(bad), computed'.read = computed'.asked
    PROVE  BackendInv'
<1>1. BackendTypes /\ BuffersKept /\ DeviceHolds /\ ClipTold
  BY DEF BackendInv
<1>2. count' = [sessions |-> count'.sessions, fails |-> count'.fails] /\ count'.sessions = count.sessions /\ count'.sessions \in Nat
  BY <1>1, CountIs
<1>3. BackendTypes'
  BY <1>1, <1>2 DEF BackendTypes, Decided, SlotServed
<1>4. BuffersKept'
  BY <1>1, BuffersQuiet DEF Decided
<1>5. DeviceHolds'
  BY <1>1, <1>2 DEF DeviceHolds, Decided
<1>6. ClipTold'
  BY <1>1, <1>2 DEF ClipTold, Decided
<1>7. QED
  BY <1>3, <1>4, <1>5, <1>6 DEF BackendInv

LEMMA DeadHolds ==
    ASSUME BackendInv, be.open, Dies, dev' = [tok |-> dev'.tok, ahead |-> dev'.ahead], dev'.ahead = dev.ahead,
           ctx' = ctx, mem' = mem, col' = col, NEW bad, Count(bad), computed'.read = computed'.asked
    PROVE  BackendInv'
<1>1. BackendTypes /\ BuffersKept /\ DeviceHolds /\ ClipTold
  BY DEF BackendInv
<1>2. count' = [sessions |-> count'.sessions, fails |-> count'.fails] /\ count'.sessions = count.sessions /\ count'.sessions \in Nat
  BY <1>1, CountIs
<1>3. /\ IsSession(be') /\ be'.open = be.open /\ be'.tok_dev_id = -1 /\ be'.first = be.first /\ be'.n = be.n
      /\ be'.at = be.at /\ be'.chunk = be.chunk /\ be'.tok = be.tok
  BY <1>1, DiesIs
<1>4. BackendTypes'
  BY <1>1, <1>2, <1>3 DEF BackendTypes
<1>5. BuffersKept'
  BY <1>1, <1>3, SlotServedSelf, BuffersQuiet
<1>6. DeviceHolds'
  BY <1>1, <1>2, <1>3 DEF DeviceHolds
<1>7. ClipTold'
  BY <1>1, <1>2, <1>3 DEF ClipTold
<1>8. QED
  BY <1>4, <1>5, <1>6, <1>7 DEF BackendInv

\* A window that was encoded ahead is the one asked for.
LEMMA FeaturesAre ==
    ASSUME BackendTypes, DeviceHolds
    PROVE  Features(be.chunk) = Window(be.chunk)
<1> DEFINE i == be.chunk - be.first + 1
<1>1. be.chunk \in Nat /\ be.first \in Nat /\ be.n \in Nat
  BY DEF BackendTypes, IsSession
<1>2. CASE be.n > 0 /\ be.chunk >= be.first /\ be.chunk < be.first + be.n
  <2>1. i \in 1..be.n /\ be.first + i - 1 = be.chunk
    BY <1>1, <1>2
  <2>2. Features(be.chunk) = dev.ahead[i]
    BY <1>2 DEF Features
  <2> HIDE DEF i
  <2>3. dev.ahead[i] = <<count.sessions, be.first + i - 1>>
    BY <2>1 DEF DeviceHolds
  <2>4. QED
    BY <2>1, <2>2, <2>3 DEF Window
<1>3. CASE ~(be.n > 0 /\ be.chunk >= be.first /\ be.chunk < be.first + be.n)
  BY <1>3 DEF Features
<1>4. QED
  BY <1>2, <1>3

LEMMA GpuPrefillKeeps ==
    ASSUME BackendInv, NEW t \in TokenIds, NEW bad \in BOOLEAN, gpu_prefill_chunk(t, bad)
    PROVE  BackendInv'
<1>1. /\ be.open /\ ctx.gpu /\ Count(bad) /\ mem' = mem /\ col' = col
      /\ computed' = [asked |-> Window(be.chunk), read |-> Features(be.chunk)]
  BY DEF gpu_prefill_chunk, Serving
<1>2. BackendTypes /\ BuffersKept /\ DeviceHolds
  BY DEF BackendInv
<1>3. computed'.read = computed'.asked
  BY <1>1, <1>2, FeaturesAre
<1>4. IsSession(be) /\ IsContext(ctx) /\ dev = [tok |-> dev.tok, ahead |-> dev.ahead]
  BY <1>2 DEF BackendTypes
<1>5. CASE bad \/ ChunkRows > mem.cap
  <2>1. Dies /\ ctx' = ctx /\ dev' = dev
    BY <1>5 DEF gpu_prefill_chunk
  <2>2. QED
    BY <1>1, <1>3, <1>4, <2>1, DeadHolds
<1>6. CASE ~(bad \/ ChunkRows > mem.cap)
  <2> DEFINE id == IF ctx.headDev THEN t ELSE -1
             d == IF ctx.headDev THEN t ELSE dev.tok
             n == ctx.len + ChunkRows
             z == 0
             on == "decode"
  <2>1. /\ ctx' = [ctx EXCEPT !.len = n, !.mapped = PagesFor(n + 1)]
        /\ be' = [[be EXCEPT !.tok = t, !.tok_dev_id = id] EXCEPT !.at = on, !.steps = z]
        /\ dev' = [dev EXCEPT !.tok = d]
    BY <1>6 DEF gpu_prefill_chunk, Decoding, gpu_head, vv_pipeline_head_argmax
  <2>2. n \in Nat /\ n + 1 \in Nat
    BY <1>4, BackendAssumption DEF IsContext
  <2>3. id \in {-1, d} /\ z \in Nat
    OBVIOUS
  <2> HIDE DEF n, id, d, z, on
  <2> DEFINE m == PagesFor(n + 1)
  <2>4. m \in Nat /\ m >= n + 1
    BY <1>2, <2>2, PagesForIs
  <2>a. ctx' = [ctx EXCEPT !.len = n, !.mapped = m]
    BY <2>1
  <2> HIDE DEF m
  <2>b. /\ ctx'.len = n /\ ctx'.mapped = m
        /\ ctx'.gpu = ctx.gpu /\ ctx'.parked = ctx.parked /\ ctx'.no_wait = ctx.no_wait
        /\ ctx' = [gpu |-> ctx'.gpu, embedDev |-> ctx'.embedDev, headDev |-> ctx'.headDev, ahead |-> ctx'.ahead, freed |-> ctx'.freed,
                   parked |-> ctx'.parked, len |-> ctx'.len, mapped |-> ctx'.mapped, no_wait |-> ctx'.no_wait]
    BY <1>4, <2>a DEF IsContext
  <2>c. IsContext(ctx')
    BY <1>4, <2>2, <2>4, <2>b DEF IsContext
  <2>5. SlotServed(ctx, ctx')
    BY <1>1, <2>2, <2>4, <2>b, <2>c DEF SlotServed
  <2>6. dev'.tok = d /\ dev'.ahead = dev.ahead /\ dev' = [tok |-> dev'.tok, ahead |-> dev'.ahead]
    BY <1>4, <2>1
  <2>7. /\ be'.open = be.open /\ be'.tok_dev_id = id /\ be'.first = be.first /\ be'.n = be.n
        /\ be'.at = on /\ be'.chunk = be.chunk /\ be'.tok = t /\ be'.steps = z
        /\ be' = [open |-> be'.open, failed |-> be'.failed, tok_dev_id |-> be'.tok_dev_id, first |-> be'.first, n |-> be'.n,
                  at |-> be'.at, chunk |-> be'.chunk, steps |-> be'.steps, tok |-> be'.tok]
    BY <1>4, <2>1 DEF IsSession
  <2>8. IsSession(be')
    BY <1>4, <2>3, <2>7 DEF IsSession
  <2>9. Decided(be', t, id)
    BY <1>1, <2>7, <2>8 DEF Decided, on
  <2>10. QED
    BY <1>1, <1>3, <2>3, <2>5, <2>6, <2>9, DecidedHolds
<1>7. QED
  BY <1>5, <1>6

LEMMA CpuPrefillKeeps ==
    ASSUME BackendInv, NEW t \in TokenIds, NEW bad \in BOOLEAN, cpu_prefill_chunk(t, bad)
    PROVE  BackendInv'
<1>1. /\ be.open /\ ~ctx.gpu /\ Count(bad) /\ mem' = mem /\ col' = col /\ dev' = dev
      /\ computed' = [asked |-> Window(be.chunk), read |-> Window(be.chunk)]
  BY DEF cpu_prefill_chunk, Serving
<1>2. BackendTypes /\ BuffersKept /\ DeviceHolds
  BY DEF BackendInv
<1>3. computed'.read = computed'.asked
  BY <1>1
<1>4. IsSession(be) /\ IsContext(ctx) /\ dev = [tok |-> dev.tok, ahead |-> dev.ahead]
  BY <1>2 DEF BackendTypes
<1>5. CASE bad
  <2>1. Dies /\ ctx' = ctx
    BY <1>5 DEF cpu_prefill_chunk
  <2>2. QED
    BY <1>1, <1>3, <1>4, <2>1, DeadHolds
<1>6. CASE ~bad
  <2> DEFINE n == ctx.len + ChunkRows
             z == 0
             on == "decode"
  <2>1. /\ ctx' = [ctx EXCEPT !.len = n]
        /\ be' = [[be EXCEPT !.tok = t] EXCEPT !.at = on, !.steps = z]
    BY <1>6 DEF cpu_prefill_chunk, Decoding, cpu_head
  <2>2. n \in Nat /\ z \in Nat
    BY <1>4, BackendAssumption DEF IsContext
  <2> HIDE DEF n, z, on
  <2>3. SlotServed(ctx, ctx')
    BY <1>1, <1>4, <2>1, <2>2, ContextLonger DEF SlotServed
  <2>4. /\ be'.open = be.open /\ be'.tok_dev_id = be.tok_dev_id /\ be'.first = be.first /\ be'.n = be.n
        /\ be'.at = on /\ be'.chunk = be.chunk /\ be'.tok = t /\ be'.steps = z
        /\ be' = [open |-> be'.open, failed |-> be'.failed, tok_dev_id |-> be'.tok_dev_id, first |-> be'.first, n |-> be'.n,
                  at |-> be'.at, chunk |-> be'.chunk, steps |-> be'.steps, tok |-> be'.tok]
    BY <1>4, <2>1 DEF IsSession
  <2>5. IsSession(be')
    BY <1>4, <2>2, <2>4 DEF IsSession
  <2>6. Decided(be', t, be.tok_dev_id)
    BY <1>1, <2>4, <2>5 DEF Decided, on
  <2>7. be.tok_dev_id \in {-1, dev'.tok}
    BY <1>1, <1>2 DEF DeviceHolds
  <2>8. QED
    BY <1>1, <1>3, <1>4, <2>3, <2>6, <2>7, DecidedHolds
<1>7. QED
  BY <1>5, <1>6

LEMMA GpuDecodeKeeps ==
    ASSUME BackendInv, NEW t \in TokenIds, NEW bad \in BOOLEAN, gpu_decode_step(t, bad)
    PROVE  BackendInv'
<1> DEFINE on == IF Travels(be.tok) THEN be.tok ELSE dev.tok
           sent == IF Travels(be.tok) THEN be.tok ELSE be.tok_dev_id
<1>1. /\ be.open /\ ctx.gpu /\ be.at = "decode" /\ Count(bad) /\ mem' = mem /\ col' = col
      /\ computed' = [asked |-> <<be.tok>>, read |-> IF ctx.embedDev THEN <<on>> ELSE <<be.tok>>]
  BY DEF gpu_decode_step, Serving
<1>2. BackendTypes /\ BuffersKept /\ DeviceHolds
  BY DEF BackendInv
<1>3. computed'.read = computed'.asked
  <2>1. CASE ctx.embedDev
    <3>1. be.tok \in Nat
      BY <1>1, <1>2, BackendAssumption DEF DeviceHolds
    <3>2. be.tok_dev_id \in {-1, dev.tok}
      BY <1>2 DEF DeviceHolds
    <3>3. on = be.tok
      BY <2>1, <3>1, <3>2 DEF Travels
    <3> HIDE DEF on
    <3>4. QED
      BY <1>1, <2>1, <3>3
  <2>2. CASE ~ctx.embedDev
    BY <1>1, <2>2
  <2>3. QED
    BY <2>1, <2>2
<1>4. IsSession(be) /\ IsContext(ctx) /\ dev = [tok |-> dev.tok, ahead |-> dev.ahead]
  BY <1>2 DEF BackendTypes
<1>5. CASE bad
  <2>1. Dies /\ ctx' = ctx /\ dev' = [dev EXCEPT !.tok = on]
    BY <1>5 DEF gpu_decode_step
  <2> HIDE DEF on
  <2>2. dev' = [tok |-> dev'.tok, ahead |-> dev'.ahead] /\ dev'.ahead = dev.ahead
    BY <1>4, <2>1
  <2>3. QED
    BY <1>1, <1>3, <2>1, <2>2, DeadHolds
<1>6. CASE ~bad
  <2> DEFINE id == IF ctx.headDev THEN t ELSE -1
             d == IF ctx.headDev THEN t ELSE on
             n == ctx.len + 1
             s == be.steps + 1
             m == PagesFor(n)
  <2>1. /\ be' = [[be EXCEPT !.steps = s, !.tok_dev_id = sent] EXCEPT !.tok = t, !.tok_dev_id = id]
        /\ dev' = [dev EXCEPT !.tok = d]
        /\ ctx' = [ctx EXCEPT !.len = n, !.mapped = m]
    BY <1>6 DEF gpu_decode_step, gpu_head, vv_pipeline_head_argmax
  <2>2. n \in Nat /\ s \in Nat
    BY <1>4 DEF IsContext, IsSession
  <2>3. id \in {-1, d}
    OBVIOUS
  <2> HIDE DEF n, s, id, d, on, sent
  <2>4. m \in Nat /\ m >= n
    BY <1>2, <2>2, PagesForIs
  <2> HIDE DEF m
  <2>5. /\ ctx'.len = n /\ ctx'.mapped = m
        /\ ctx'.gpu = ctx.gpu /\ ctx'.parked = ctx.parked /\ ctx'.no_wait = ctx.no_wait
        /\ ctx' = [gpu |-> ctx'.gpu, embedDev |-> ctx'.embedDev, headDev |-> ctx'.headDev, ahead |-> ctx'.ahead, freed |-> ctx'.freed,
                   parked |-> ctx'.parked, len |-> ctx'.len, mapped |-> ctx'.mapped, no_wait |-> ctx'.no_wait]
    BY <1>4, <2>1 DEF IsContext
  <2>a. IsContext(ctx')
    BY <1>4, <2>2, <2>4, <2>5 DEF IsContext
  <2>6. SlotServed(ctx, ctx')
    BY <1>1, <2>2, <2>4, <2>5, <2>a DEF SlotServed
  <2>7. dev'.tok = d /\ dev'.ahead = dev.ahead /\ dev' = [tok |-> dev'.tok, ahead |-> dev'.ahead]
    BY <1>4, <2>1
  <2>8. /\ be'.open = be.open /\ be'.tok_dev_id = id /\ be'.first = be.first /\ be'.n = be.n
        /\ be'.at = be.at /\ be'.chunk = be.chunk /\ be'.tok = t /\ be'.steps = s
        /\ be' = [open |-> be'.open, failed |-> be'.failed, tok_dev_id |-> be'.tok_dev_id, first |-> be'.first, n |-> be'.n,
                  at |-> be'.at, chunk |-> be'.chunk, steps |-> be'.steps, tok |-> be'.tok]
    BY <1>4, <2>1 DEF IsSession
  <2>9. IsSession(be')
    BY <1>4, <2>2, <2>8 DEF IsSession
  <2>10. Decided(be', t, id)
    BY <1>1, <2>8, <2>9 DEF Decided
  <2>11. QED
    BY <1>1, <1>3, <2>3, <2>6, <2>7, <2>10, DecidedHolds
<1>7. QED
  BY <1>5, <1>6

LEMMA CpuDecodeKeeps ==
    ASSUME BackendInv, NEW t \in TokenIds, NEW bad \in BOOLEAN, cpu_decode_step(t, bad)
    PROVE  BackendInv'
<1>1. /\ be.open /\ ~ctx.gpu /\ be.at = "decode" /\ Count(bad) /\ mem' = mem /\ col' = col /\ dev' = dev
      /\ computed' = [asked |-> <<be.tok>>, read |-> <<be.tok>>]
  BY DEF cpu_decode_step, Serving
<1>2. BackendTypes /\ BuffersKept /\ DeviceHolds
  BY DEF BackendInv
<1>3. computed'.read = computed'.asked
  BY <1>1
<1>4. IsSession(be) /\ IsContext(ctx) /\ dev = [tok |-> dev.tok, ahead |-> dev.ahead]
  BY <1>2 DEF BackendTypes
<1>5. CASE bad
  <2>1. Dies /\ ctx' = ctx
    BY <1>5 DEF cpu_decode_step
  <2>2. QED
    BY <1>1, <1>3, <1>4, <2>1, DeadHolds
<1>6. CASE ~bad
  <2> DEFINE n == ctx.len + 1
             s == be.steps + 1
  <2>1. ctx' = [ctx EXCEPT !.len = n] /\ be' = [[be EXCEPT !.steps = s] EXCEPT !.tok = t]
    BY <1>6 DEF cpu_decode_step, cpu_head
  <2>2. n \in Nat /\ s \in Nat
    BY <1>4 DEF IsContext, IsSession
  <2> HIDE DEF n, s
  <2>3. SlotServed(ctx, ctx')
    BY <1>1, <1>4, <2>1, <2>2, ContextLonger DEF SlotServed
  <2>4. /\ be'.open = be.open /\ be'.tok_dev_id = be.tok_dev_id /\ be'.first = be.first /\ be'.n = be.n
        /\ be'.at = be.at /\ be'.chunk = be.chunk /\ be'.tok = t /\ be'.steps = s
        /\ be' = [open |-> be'.open, failed |-> be'.failed, tok_dev_id |-> be'.tok_dev_id, first |-> be'.first, n |-> be'.n,
                  at |-> be'.at, chunk |-> be'.chunk, steps |-> be'.steps, tok |-> be'.tok]
    BY <1>4, <2>1 DEF IsSession
  <2>5. IsSession(be')
    BY <1>4, <2>2, <2>4 DEF IsSession
  <2>6. Decided(be', t, be.tok_dev_id)
    BY <1>1, <2>4, <2>5 DEF Decided
  <2>7. be.tok_dev_id \in {-1, dev'.tok}
    BY <1>1, <1>2 DEF DeviceHolds
  <2>8. QED
    BY <1>1, <1>3, <1>4, <2>3, <2>6, <2>7, DecidedHolds
<1>7. QED
  BY <1>5, <1>6

LEMMA TextsOneMore ==
    ASSUME NEW s, NEW n \in Nat
    PROVE  Append(Texts(s, n), <<s, n>>) = Texts(s, n + 1)
<1> DEFINE a == Texts(s, n)
           b == Texts(s, n + 1)
           S == {s} \X Nat
<1>1. a \in Seq(S) /\ Len(a) = n
  BY DEF Texts
<1>2. b \in Seq(S) /\ Len(b) = n + 1
  BY DEF Texts
<1>3. <<s, n>> \in S
  OBVIOUS
<1>4. /\ Append(a, <<s, n>>) \in Seq(S) /\ Len(Append(a, <<s, n>>)) = n + 1
      /\ \A i \in 1..n : Append(a, <<s, n>>)[i] = a[i]
      /\ Append(a, <<s, n>>)[n + 1] = <<s, n>>
  BY <1>1, <1>3, AppendProperties
<1>5. ASSUME NEW i \in 1..(n + 1) PROVE Append(a, <<s, n>>)[i] = b[i]
  <2>1. b[i] = <<s, i - 1>>
    BY DEF Texts
  <2>2. CASE i \in 1..n
    BY <1>4, <2>1, <2>2 DEF Texts
  <2>3. CASE i = n + 1
    <3>1. i - 1 = n
      BY <2>3
    <3>2. QED
      BY <1>4, <2>1, <2>3, <3>1
  <2>4. i \in 1..n \/ i = n + 1
    OBVIOUS
  <2>5. QED
    BY <2>2, <2>3, <2>4, Zenon
<1> HIDE DEF a, b, S
<1>6. Append(a, <<s, n>>) = b
  BY <1>2, <1>4, <1>5, SeqEqual
<1>7. QED
  BY <1>6 DEF a, b

\* A chunk's text.
LEMMA CollectKeeps ==
    ASSUME BackendInv, NEW bad \in BOOLEAN, collect_event(bad)
    PROVE  BackendInv'
<1> DEFINE k == be.chunk + 1
           rest == "idle"
<1>1. /\ be.open /\ Count(bad) /\ be' = [be EXCEPT !.at = rest, !.chunk = k]
      /\ ctx' = ctx /\ mem' = mem /\ dev' = dev /\ computed' = computed
  BY DEF collect_event, Serving
<1>2. BackendTypes /\ BuffersKept /\ DeviceHolds /\ ClipTold /\ computed.read = computed.asked
  BY DEF BackendInv
<1>3. IsSession(be) /\ be.chunk \in Nat /\ k \in Nat /\ rest # "decode"
  BY <1>2 DEF BackendTypes, IsSession
<1>4. count' = [sessions |-> count'.sessions, fails |-> count'.fails] /\ count'.sessions = count.sessions /\ count'.sessions \in Nat
  BY <1>1, <1>2, CountIs
<1>5. /\ col' = [on |-> col'.on, texts |-> col'.texts, oom |-> col'.oom, sent |-> col'.sent, result |-> col'.result]
      /\ col'.sent \in Nat /\ col'.on = col.on /\ col'.result = col.result
      /\ col.on => /\ col'.sent = k
                   /\ (~col'.oom => col'.texts = Texts(count.sessions, k))
  <2>1. CASE ~col.on
    <3>1. col' = col
      BY <2>1 DEF collect_event
    <3>2. QED
      BY <1>2, <2>1, <3>1 DEF BackendTypes
  <2>2. CASE col.on
    <3> DEFINE n == col.sent + 1
               o == col.oom \/ bad
               x == IF bad THEN col.texts ELSE Append(col.texts, Window(be.chunk))
    <3>1. col' = [col EXCEPT !.sent = n, !.oom = o, !.texts = x]
      BY <2>2 DEF collect_event
    <3>2. col.sent = be.chunk /\ (~col.oom => col.texts = Texts(count.sessions, col.sent))
      BY <1>1, <1>2, <2>2 DEF ClipTold
    <3>3. n \in Nat /\ n = k
      BY <1>3, <3>2
    <3>4. ~o => x = Texts(count.sessions, k)
      <4> SUFFICES ASSUME ~o PROVE x = Texts(count.sessions, k)
        OBVIOUS
      <4>1. x = Append(Texts(count.sessions, be.chunk), <<count.sessions, be.chunk>>)
        BY <3>2 DEF Window
      <4>2. QED
        BY <1>3, <4>1, TextsOneMore
    <3>5. col = [on |-> col.on, texts |-> col.texts, oom |-> col.oom, sent |-> col.sent, result |-> col.result]
      BY <1>2 DEF BackendTypes
    <3> HIDE DEF n, o, x, k
    <3>6. /\ col'.sent = n /\ col'.oom = o /\ col'.texts = x /\ col'.on = col.on /\ col'.result = col.result
          /\ col' = [on |-> col'.on, texts |-> col'.texts, oom |-> col'.oom, sent |-> col'.sent, result |-> col'.result]
      BY <3>1, <3>5
    <3>7. QED
      BY <3>3, <3>4, <3>6
  <2>3. QED
    BY <2>1, <2>2
<1> HIDE DEF k, rest
<1>6. /\ be'.open = be.open /\ be'.tok_dev_id = be.tok_dev_id /\ be'.first = be.first /\ be'.n = be.n
      /\ be'.at = rest /\ be'.chunk = k /\ be'.tok = be.tok /\ be'.steps = be.steps
      /\ be' = [open |-> be'.open, failed |-> be'.failed, tok_dev_id |-> be'.tok_dev_id, first |-> be'.first, n |-> be'.n,
                at |-> be'.at, chunk |-> be'.chunk, steps |-> be'.steps, tok |-> be'.tok]
  BY <1>1, <1>3 DEF IsSession
<1>7. IsSession(be')
  BY <1>3, <1>6 DEF IsSession
<1>8. BackendTypes'
  BY <1>1, <1>2, <1>4, <1>5, <1>7 DEF BackendTypes
<1>9. BuffersKept'
  BY <1>1, <1>2, <1>6, SlotServedSelf, BuffersQuiet
<1>10. DeviceHolds'
  BY <1>1, <1>2, <1>3, <1>4, <1>6 DEF DeviceHolds
<1>11. ClipTold'
  BY <1>1, <1>2, <1>4, <1>5, <1>6 DEF ClipTold
<1>12. QED
  BY <1>1, <1>2, <1>8, <1>9, <1>10, <1>11 DEF BackendInv

LEMMA NoTexts == ASSUME NEW s PROVE Texts(s, 0) = <<>>
  BY DEF Texts

LEMMA ClosedIs == IsSession(Closed) /\ ~Closed.open /\ Closed.tok_dev_id = -1 /\ Closed.at = "idle" /\ Closed.n = 0 /\ Closed.chunk = 0
  BY DEF Closed, Blank, IsSession

LEMMA NewSessionIs == IsSession(NewSession) /\ NewSession.open /\ NewSession.tok_dev_id = -1 /\ NewSession.at = "idle" /\ NewSession.n = 0 /\ NewSession.chunk = 0
  BY DEF NewSession, Blank, IsSession

LEMMA LeftHolds ==
    ASSUME NEW c, NEW g, Left(c, g), ctx' = g.ctx, mem' = Memory(g.mem.live, 0), be' = Closed
    PROVE  IsContext(ctx') /\ IsMem(mem') /\ IsSession(be') /\ BuffersKept'
<1>1. IsMem(mem') /\ mem'.held = {}
  BY MemoryIs DEF Left
<1>2. IsSession(be') /\ ~be'.open
  BY ClosedIs
<1>3. QED
  BY <1>1, <1>2 DEF Left, BuffersKept

\* The device and its buffers when no session, or a new one, is there.
LEMMA NothingSaid ==
    ASSUME be' \in {Closed, NewSession}
    PROVE  DeviceHolds'
<1>1. be'.tok_dev_id = -1 /\ be'.at = "idle" /\ be'.n = 0
  BY ClosedIs, NewSessionIs
<1>2. QED
  BY <1>1, BackendAssumption DEF DeviceHolds

LEMMA StreamCloseKeeps ==
    ASSUME BackendInv, NEW memory \in BOOLEAN, vv_stream_close(memory)
    PROVE  BackendInv'
<1> DEFINE g == destroy(ctx, mem, memory)
<1>1. /\ be.open /\ ctx' = g.ctx /\ mem' = Memory(g.mem.live, 0) /\ be' = Closed /\ computed' = NoStep /\ dev' = dev
      /\ Count(~memory)
  BY DEF vv_stream_close
<1>2. BackendTypes /\ BuffersKept /\ ClipTold
  BY DEF BackendInv
<1>3. ctx.parked = Unparked
  BY <1>1, <1>2 DEF BuffersKept, ParkedRight
<1>4. Closable(ctx, mem)
  BY <1>1, <1>2, <1>3 DEF Closable, BuffersKept, BackendTypes
<1>5. Left(ctx, g)
  BY <1>4, DestroyIs
<1> HIDE DEF g
<1>6. IsContext(ctx') /\ IsMem(mem') /\ IsSession(be') /\ BuffersKept'
  BY <1>1, <1>5, LeftHolds
<1>7. count' = [sessions |-> count'.sessions, fails |-> count'.fails] /\ count'.sessions = count.sessions /\ count'.sessions \in Nat
  BY <1>1, <1>2, CountIs
<1>8. /\ col' = [on |-> col'.on, texts |-> col'.texts, oom |-> col'.oom, sent |-> col'.sent, result |-> col'.result]
      /\ col'.sent = col.sent /\ col'.sent \in Nat
      /\ col'.result \in {<<"none">>, <<"error">>} \/ col'.result = <<"texts">> \o Texts(count.sessions, col.sent)
  <2>1. /\ col = [on |-> col.on, texts |-> col.texts, oom |-> col.oom, sent |-> col.sent, result |-> col.result]
        /\ col.sent \in Nat
    BY <1>2 DEF BackendTypes
  <2>2. CASE ~col.on
    <3>1. col' = col
      BY <2>2 DEF vv_stream_close
    <3>2. col.result \in {<<"none">>, <<"error">>}
      BY <1>1, <1>2 DEF ClipTold
    <3>3. QED
      BY <2>1, <3>1, <3>2
  <2>3. CASE col.on
    <3> DEFINE x == IF be.failed \/ col.oom THEN <<"error">> ELSE <<"texts">> \o col.texts
    <3>1. col' = [col EXCEPT !.result = x]
      BY <2>3 DEF vv_stream_close
    <3>2. ~col.oom => col.texts = Texts(count.sessions, col.sent)
      BY <1>1, <1>2, <2>3 DEF ClipTold
    <3>3. x = <<"error">> \/ x = <<"texts">> \o Texts(count.sessions, col.sent)
      BY <3>2
    <3> HIDE DEF x
    <3>4. /\ col' = [on |-> col'.on, texts |-> col'.texts, oom |-> col'.oom, sent |-> col'.sent, result |-> col'.result]
          /\ col'.sent = col.sent /\ col'.result = x
      BY <2>1, <3>1
    <3>5. QED
      BY <2>1, <3>3, <3>4
  <2>4. QED
    BY <2>2, <2>3
<1>9. BackendTypes'
  BY <1>1, <1>2, <1>6, <1>7, <1>8 DEF BackendTypes
<1>10. DeviceHolds'
  BY <1>1, NothingSaid
<1>11. ClipTold'
  BY <1>1, <1>7, <1>8, ClosedIs DEF ClipTold
<1>12. computed'.read = computed'.asked
  BY <1>1 DEF NoStep
<1>13. QED
  BY <1>6, <1>9, <1>10, <1>11, <1>12 DEF BackendInv

LEMMA DropKeeps ==
    ASSUME BackendInv, vv_stream_ctx_drop_cache
    PROVE  BackendInv'
<1> DEFINE r == Memory(mem.live, 0)
           a == Adopt(r, ctx.parked)
           f == gpu_free_bufs(a)
           yes == TRUE
<1>1. /\ ~be.open /\ ctx' = [ctx EXCEPT !.parked = Unparked, !.freed = yes] /\ mem' = f
      /\ be' = be /\ dev' = dev /\ col' = col /\ computed' = computed /\ count' = count
  BY DEF vv_stream_ctx_drop_cache
<1>2. BackendTypes /\ BuffersKept /\ DeviceHolds /\ ClipTold /\ computed.read = computed.asked
  BY DEF BackendInv
<1>3. /\ IsMem(mem) /\ AllKept(mem, ctx.parked) /\ mem.held = {} /\ ParkedRight(ctx.parked) /\ IsContext(ctx)
      /\ IsParked(ctx.parked) /\ mem.live \in [Allocs -> Int] /\ ctx.mapped = 0 /\ ~ctx.no_wait
  BY <1>1, <1>2 DEF BackendTypes, BuffersKept, IsMem, IsContext
<1>4. IsMem(r) /\ r.held = {} /\ r.cap = 0 /\ AllKept(r, ctx.parked)
  BY <1>3, MemoryIs, AllLetGo
<1> HIDE DEF r
<1>5. IsMem(a) /\ AllKept(a, Unparked) /\ a.held \subseteq Device
  BY <1>3, <1>4, AdoptIs
<1> HIDE DEF a
<1>6. Keeps(a, f) /\ f.held = a.held \ Device /\ IsMem(f)
  BY <1>5, FreeBufsIs DEF Keeps
<1> HIDE DEF f
<1>7. AllKept(f, Unparked) /\ f.held = {}
  BY <1>5, <1>6, KeptOn
<1> HIDE DEF yes
<1>8. /\ ctx'.parked = Unparked /\ ctx'.gpu = ctx.gpu /\ ctx'.mapped = ctx.mapped /\ ctx'.no_wait = ctx.no_wait /\ ctx'.len = ctx.len
      /\ ctx' = [gpu |-> ctx'.gpu, embedDev |-> ctx'.embedDev, headDev |-> ctx'.headDev, ahead |-> ctx'.ahead, freed |-> ctx'.freed,
                 parked |-> ctx'.parked, len |-> ctx'.len, mapped |-> ctx'.mapped, no_wait |-> ctx'.no_wait]
  BY <1>1, <1>3 DEF IsContext
<1>9. IsContext(ctx')
  BY <1>3, <1>8, UnparkedRight DEF IsContext
<1>10. BackendTypes'
  BY <1>1, <1>2, <1>6, <1>9 DEF BackendTypes
<1>11. BuffersKept'
  BY <1>1, <1>3, <1>7, <1>8, UnparkedRight DEF BuffersKept
<1>12. DeviceHolds' /\ ClipTold' /\ computed'.read = computed'.asked
  BY <1>1, <1>2 DEF DeviceHolds, ClipTold
<1>13. QED
  BY <1>10, <1>11, <1>12 DEF BackendInv

\* What an open gets, before it is known whether that is enough.
Opening(p, outcome, k) ==
  LET b == TryAll(Memory(mem.live, k), <<"sbe">>)
  IN IF outcome = "unbound" THEN [b EXCEPT !.ok = FALSE]
     ELSE IF ctx.gpu THEN gpu_open(b, ctx, p.rows) ELSE cpu_open(b, p.rows)
Taking(outcome) == IF outcome = "unbound" THEN ctx ELSE [ctx EXCEPT !.parked = Unparked]

LEMMA TakingIs ==
    ASSUME BackendTypes, NEW outcome, outcome # "unbound"
    PROVE  /\ IsContext(Taking(outcome)) /\ Taking(outcome).parked = Unparked /\ Taking(outcome).gpu = ctx.gpu
           /\ Taking(outcome).mapped = ctx.mapped /\ Taking(outcome).no_wait = ctx.no_wait
<1> DEFINE e == Taking(outcome)
<1>1. e = [ctx EXCEPT !.parked = Unparked] /\ IsContext(ctx)
  BY DEF Taking, BackendTypes
<1> HIDE DEF e
<1>2. /\ e.parked = Unparked /\ e.gpu = ctx.gpu /\ e.mapped = ctx.mapped /\ e.no_wait = ctx.no_wait /\ e.len = ctx.len
      /\ e = [gpu |-> e.gpu, embedDev |-> e.embedDev, headDev |-> e.headDev, ahead |-> e.ahead, freed |-> e.freed,
              parked |-> e.parked, len |-> e.len, mapped |-> e.mapped, no_wait |-> e.no_wait]
  BY <1>1 DEF IsContext
<1>3. IsContext(e)
  BY <1>1, <1>2, UnparkedRight DEF IsContext
<1>4. QED
  BY <1>2, <1>3 DEF e

LEMMA OpeningClosable ==
    ASSUME BackendTypes, BuffersKept, ~be.open, NEW p \in OpenParams, NEW outcome, outcome = "unbound" => ctx.gpu, NEW k
    PROVE  Closable(Taking(outcome), Opening(p, outcome, k))
<1> DEFINE m == Memory(mem.live, k)
           b == TryAll(m, <<"sbe">>)
           o == Opening(p, outcome, k)
<1>1. /\ IsMem(mem) /\ AllKept(mem, ctx.parked) /\ mem.held = {} /\ ParkedRight(ctx.parked) /\ IsContext(ctx)
      /\ IsParked(ctx.parked) /\ mem.live \in [Allocs -> Int] /\ (ctx.parked.is => ctx.gpu)
      /\ ctx.mapped = 0 /\ ~ctx.no_wait
  BY DEF BackendTypes, BuffersKept, IsMem, IsContext
<1>2. IsMem(m) /\ m.held = {} /\ m.cap = 0 /\ AllKept(m, ctx.parked)
  <2>1. IsMem(m) /\ m.held = {} /\ m.cap = 0
    BY <1>1, MemoryIs
  <2>2. AllKept(Memory(mem.live, k), ctx.parked)
    BY <1>1, AllLetGo, Zenon
  <2>3. QED
    BY <2>1, <2>2 DEF m
<1> HIDE DEF m
<1>3. Range(<<"sbe">>) \subseteq Host
  BY RangeOfOne, Apart
<1>4. Keeps(m, b) /\ b.held \subseteq Host /\ b.cap = 0
  BY <1>2, <1>3, TryAllIs
<1>5. IsMem(b) /\ AllKept(b, ctx.parked)
  BY <1>2, <1>4, KeptOn
<1>6. o = IF outcome = "unbound" THEN [b EXCEPT !.ok = FALSE] ELSE IF ctx.gpu THEN gpu_open(b, ctx, p.rows) ELSE cpu_open(b, p.rows)
  BY DEF Opening, m
<1>7. p.rows \in Nat \ {0} /\ b.held \cap Device = {} /\ b.held \cap Range(Rows) = {}
  BY <1>4, Apart, BackendAssumption
<1> HIDE DEF b, o
<1>8. CASE outcome = "unbound"
  <2> DEFINE no == FALSE
  <2>1. o = [b EXCEPT !.ok = no]
    BY <1>6, <1>8
  <2> HIDE DEF no
  <2>2. Keeps(b, o) /\ o.held = b.held /\ o.cap = b.cap
    BY <1>5, <2>1, OkSet
  <2>3. AllKept(o, ctx.parked) /\ IsMem(o) /\ RowsRight(o.cap, o.held)
    BY <1>4, <1>5, <1>7, <2>2, KeptOn, NoRows
  <2>4. Taking(outcome) = ctx /\ ctx.gpu
    BY <1>8 DEF Taking
  <2>5. QED
    BY <1>1, <2>3, <2>4 DEF Closable, o
<1>9. CASE outcome # "unbound" /\ ctx.gpu
  <2>1. o = gpu_open(b, ctx, p.rows)
    BY <1>6, <1>9
  <2>2. IsMem(o) /\ AllKept(o, Unparked) /\ RowsRight(o.cap, o.held)
    BY <1>1, <1>4, <1>5, <1>7, <2>1, GpuOpenIs
  <2> DEFINE c == Taking(outcome)
  <2>3. IsContext(c) /\ c.parked = Unparked /\ c.gpu = ctx.gpu
    BY <1>9, TakingIs
  <2> HIDE DEF c
  <2>4. Closable(c, o)
    BY <1>9, <2>2, <2>3, UnparkedRight DEF Closable
  <2>5. QED
    BY <2>4 DEF o, c
<1>10. CASE outcome # "unbound" /\ ~ctx.gpu
  <2>1. o = cpu_open(b, p.rows) /\ p.rows \in Nat
    BY <1>6, <1>7, <1>10
  <2>2. Keeps(b, o) /\ o.held \subseteq Host
    BY <1>4, <1>5, <2>1, CpuOpenIs
  <2>3. ctx.parked = Unparked
    BY <1>1, <1>10 DEF ParkedRight
  <2>4. IsMem(o) /\ AllKept(o, Unparked)
    BY <1>5, <2>2, <2>3, KeptOn
  <2> DEFINE c == Taking(outcome)
  <2>5. IsContext(c) /\ c.parked = Unparked /\ c.gpu = ctx.gpu /\ c.mapped = ctx.mapped /\ c.no_wait = ctx.no_wait
    BY <1>10, TakingIs
  <2> HIDE DEF c
  <2>6. Closable(c, o)
    BY <1>1, <1>10, <2>2, <2>4, <2>5, UnparkedRight DEF Closable
  <2>7. QED
    BY <2>6 DEF o, c
<1>11. QED
  BY <1>8, <1>9, <1>10

LEMMA PromptIs ==
    ASSUME NEW c, IsContext(c), ~c.gpu => c.mapped = 0 /\ ~c.no_wait, NEW p \in OpenParams
    PROVE  LET d == prefill_prompt(c, p)
           IN /\ IsContext(d) /\ d.gpu = c.gpu /\ d.parked = c.parked
              /\ c.gpu => d.mapped >= d.len
              /\ ~c.gpu => d.mapped = 0 /\ ~d.no_wait
<1> DEFINE d == prefill_prompt(c, p)
           m == IF p.rows > p.reserve THEN p.rows ELSE p.reserve
<1>1. p.rows \in Nat /\ p.reserve \in Nat /\ m \in Nat /\ m >= p.rows
  BY BackendAssumption
<1>2. CASE c.gpu
  <2>1. d = [c EXCEPT !.len = p.rows, !.no_wait = p.no_wait, !.mapped = m]
    BY <1>2 DEF prefill_prompt, gpu_prefill_prompt
  <2> HIDE DEF d, m
  <2>2. /\ d.gpu = c.gpu /\ d.parked = c.parked /\ d.mapped = m /\ d.len = p.rows
        /\ d = [gpu |-> d.gpu, embedDev |-> d.embedDev, headDev |-> d.headDev, ahead |-> d.ahead, freed |-> d.freed,
                parked |-> d.parked, len |-> d.len, mapped |-> d.mapped, no_wait |-> d.no_wait]
    BY <2>1 DEF IsContext
  <2>3. IsContext(d)
    BY <1>1, <2>2 DEF IsContext
  <2>4. QED
    BY <1>1, <1>2, <2>2, <2>3 DEF d
<1>3. CASE ~c.gpu
  <2>1. d = [c EXCEPT !.len = p.rows]
    BY <1>3 DEF prefill_prompt, cpu_prefill_prompt
  <2> HIDE DEF d
  <2>2. IsContext(d) /\ d.mapped = c.mapped /\ d.gpu = c.gpu /\ d.parked = c.parked /\ d.no_wait = c.no_wait
    BY <1>1, <2>1, ContextLonger
  <2>3. QED
    BY <1>3, <2>2 DEF d
<1>4. QED
  BY <1>2, <1>3

LEMMA StreamOpenKeeps ==
    ASSUME BackendInv, NEW p \in OpenParams, NEW outcome, NEW left, NEW memory, vv_stream_open(p, outcome, left, memory)
    PROVE  BackendInv'
<1> DEFINE k == IF outcome = "short" THEN left ELSE Cardinality(Allocs)
           r == Opening(p, outcome, k)
           c == Taking(outcome)
           g == destroy(c, r, memory)
<1>1. /\ ~be.open /\ dev' = dev /\ computed' = NoStep /\ (outcome = "unbound" => ctx.gpu)
      /\ count' = [sessions |-> count.sessions + 1, fails |-> count.fails + IF outcome = "open" THEN 0 ELSE 1]
      /\ col' = [NoClip EXCEPT !.on = p.clip, !.result = IF outcome = "open" THEN @ ELSE <<"error">>]
  BY DEF vv_stream_open
<1>2. IF outcome = "open" THEN ctx' = prefill_prompt(c, p) /\ be' = NewSession /\ mem' = [r EXCEPT !.left = 0]
      ELSE ctx' = g.ctx /\ be' = Closed /\ mem' = Memory(g.mem.live, 0)
  BY DEF vv_stream_open, Opening, Taking
<1>3. BackendTypes /\ BuffersKept
  BY DEF BackendInv
<1> HIDE DEF k
<1>4. Closable(c, r)
  BY <1>1, <1>3, OpeningClosable
<1>5. outcome # "unbound" => /\ c.parked = Unparked /\ c.gpu = ctx.gpu
                             /\ c.mapped = ctx.mapped /\ c.no_wait = ctx.no_wait
  BY <1>3, TakingIs
<1> HIDE DEF r, c
<1>6. IsContext(ctx') /\ IsMem(mem') /\ IsSession(be') /\ BuffersKept' /\ be' \in {Closed, NewSession}
  <2>1. CASE outcome = "open"
    <3> DEFINE m == [r EXCEPT !.left = 0]
               d == prefill_prompt(c, p)
    <3>1. ctx' = d /\ be' = NewSession /\ mem' = m
      BY <1>2, <2>1
    <3>2. IsMem(r) /\ Keeps(r, m) /\ m.held = r.held /\ m.cap = r.cap
      BY <1>4, LeftSet DEF Closable
    <3> HIDE DEF m
    <3>3. IsContext(c) /\ (~c.gpu => c.mapped = 0 /\ ~c.no_wait) /\ c.parked = Unparked /\ AllKept(r, Unparked)
      BY <1>4, <1>5, <2>1 DEF Closable
    <3>4. IsContext(d) /\ d.gpu = c.gpu /\ d.parked = Unparked /\ (c.gpu => d.mapped >= d.len)
          /\ (~c.gpu => d.mapped = 0 /\ ~d.no_wait)
      BY <3>3, PromptIs
    <3> HIDE DEF d
    <3>5. AllKept(m, Unparked) /\ IsMem(m)
      BY <3>2, <3>3, KeptOn
    <3>6. /\ c.gpu => RowsRight(m.cap, m.held)
          /\ ~c.gpu => m.held \subseteq Host
      BY <1>4, <3>2 DEF Closable
    <3>7. BuffersKept'
      BY <3>1, <3>4, <3>5, <3>6, NewSessionIs, UnparkedRight DEF BuffersKept
    <3>8. QED
      BY <3>1, <3>4, <3>5, <3>7, NewSessionIs
  <2>2. CASE outcome # "open"
    <3>1. ctx' = g.ctx /\ be' = Closed /\ mem' = Memory(g.mem.live, 0)
      BY <1>2, <2>2
    <3>2. Left(c, g)
      BY <1>4, DestroyIs
    <3> HIDE DEF g
    <3>3. QED
      BY <3>1, <3>2, LeftHolds
  <2>3. QED
    BY <2>1, <2>2
<1>7. /\ col' = [on |-> col'.on, texts |-> col'.texts, oom |-> col'.oom, sent |-> col'.sent, result |-> col'.result]
      /\ col'.sent = 0 /\ col'.texts = <<>> /\ col'.result \in {<<"none">>, <<"error">>}
  <2> DEFINE x == IF outcome = "open" THEN <<"none">> ELSE <<"error">>
             o == p.clip
  <2>1. x \in {<<"none">>, <<"error">>}
    OBVIOUS
  <2>2. col' = [NoClip EXCEPT !.on = o, !.result = x]
    BY <1>1 DEF NoClip
  <2> HIDE DEF x, o
  <2>3. col' = [on |-> o, texts |-> <<>>, oom |-> FALSE, sent |-> 0, result |-> x]
    BY <2>2 DEF NoClip
  <2>4. QED
    BY <2>1, <2>3
<1>8. count' = [sessions |-> count'.sessions, fails |-> count'.fails] /\ count'.sessions \in Nat
  BY <1>1, <1>3 DEF BackendTypes
<1>9. BackendTypes'
  BY <1>1, <1>3, <1>6, <1>7, <1>8 DEF BackendTypes
<1>10. DeviceHolds'
  BY <1>6, NothingSaid
<1>11. ClipTold'
  <2>1. be'.chunk = 0
    BY <1>6, ClosedIs, NewSessionIs
  <2>2. col'.texts = Texts(count'.sessions, col'.sent)
    BY <1>7, NoTexts
  <2>3. QED
    BY <1>7, <2>1, <2>2 DEF ClipTold
<1>12. computed'.read = computed'.asked
  BY <1>1 DEF NoStep
<1>13. QED
  BY <1>6, <1>9, <1>10, <1>11, <1>12 DEF BackendInv

LEMMA BackendStarts == BackendInit => BackendInv
<1> SUFFICES ASSUME BackendInit PROVE BackendInv
  OBVIOUS
<1> DEFINE l == [x \in Allocs |-> 0]
<1>1. be = Closed /\ mem = Memory(l, 0) /\ col = NoClip /\ computed = NoStep /\ count = [sessions |-> 0, fails |-> 0]
  BY DEF BackendInit
<1>2. dev = [tok |-> dev.tok, ahead |-> dev.ahead]
  BY DEF BackendInit
<1>3. IsContext(ctx) /\ ctx.parked = Unparked /\ ctx.mapped = 0 /\ ~ctx.no_wait
  <2>1. PICK gpu, embedDev, headDev, near \in BOOLEAN :
          ctx = [gpu |-> gpu, embedDev |-> embedDev, headDev |-> headDev, ahead |-> near, freed |-> FALSE,
                 parked |-> Unparked, len |-> 0, mapped |-> 0, no_wait |-> FALSE]
    BY DEF BackendInit
  <2>2. QED
    BY <2>1, UnparkedRight DEF IsContext
<1>4. l \in [Allocs -> Int] /\ \A x \in Allocs : l[x] = 0
  OBVIOUS
<1> HIDE DEF l
<1>5. IsMem(mem) /\ mem.held = {} /\ \A x \in Allocs : Unheld(mem, x) = 0
  <2>1. \A x \in Allocs : Unheld(Memory(l, 0), x) = l[x]
    BY <1>4, MemoryIs
  <2>2. IsMem(Memory(l, 0)) /\ Memory(l, 0).held = {}
    BY <1>4, MemoryIs
  <2>3. QED
    BY <1>1, <1>4, <2>1, <2>2
<1>6. AllKept(mem, ctx.parked)
  BY <1>3, <1>5 DEF AllKept, ParkedBufs, Unparked
<1>7. BuffersKept
  BY <1>1, <1>3, <1>5, <1>6, ClosedIs, UnparkedRight DEF BuffersKept
<1>8. /\ col = [on |-> col.on, texts |-> col.texts, oom |-> col.oom, sent |-> col.sent, result |-> col.result]
      /\ col.sent \in Nat /\ col.result = <<"none">>
  BY <1>1 DEF NoClip
<1>9. BackendTypes
  BY <1>1, <1>2, <1>3, <1>5, <1>8, ClosedIs DEF BackendTypes
<1>10. DeviceHolds
  BY <1>1, ClosedIs, BackendAssumption DEF DeviceHolds
<1>11. ClipTold
  BY <1>1, <1>8, ClosedIs DEF ClipTold
<1>12. QED
  BY <1>1, <1>7, <1>9, <1>10, <1>11 DEF BackendInv, NoStep

LEMMA BackendStays == BackendInv /\ [BackendNext]_backendVars => BackendInv'
<1> SUFFICES ASSUME BackendInv, [BackendNext]_backendVars PROVE BackendInv'
  OBVIOUS
<1>1. ASSUME NEW p \in OpenParams, NEW memory \in BOOLEAN, NEW outcome \in {"unbound", "unprompted", "open"},
             vv_stream_open(p, outcome, 0, memory)
      PROVE  BackendInv'
  BY <1>1, StreamOpenKeeps
<1>2. ASSUME NEW p \in OpenParams, NEW memory \in BOOLEAN, NEW left \in 1..Cardinality(Device),
             vv_stream_open(p, "short", left, memory)
      PROVE  BackendInv'
  BY <1>2, StreamOpenKeeps
<1>3. ASSUME NEW n \in 2..AheadMax, NEW bad \in BOOLEAN, gpu_encode_ahead(n, bad)
      PROVE  BackendInv'
  BY <1>3, AheadKeeps
<1>4. ASSUME NEW t \in TokenIds, NEW bad \in BOOLEAN,
             \/ gpu_prefill_chunk(t, bad) \/ gpu_decode_step(t, bad)
             \/ cpu_prefill_chunk(t, bad) \/ cpu_decode_step(t, bad)
      PROVE  BackendInv'
  BY <1>4, GpuPrefillKeeps, GpuDecodeKeeps, CpuPrefillKeeps, CpuDecodeKeeps
<1>5. ASSUME NEW bad \in BOOLEAN, collect_event(bad)
      PROVE  BackendInv'
  BY <1>5, CollectKeeps
<1>6. ASSUME NEW memory \in BOOLEAN, vv_stream_close(memory)
      PROVE  BackendInv'
  BY <1>6, StreamCloseKeeps
<1>7. ASSUME vv_stream_ctx_drop_cache
      PROVE  BackendInv'
  BY <1>7, DropKeeps
<1>8. ASSUME UNCHANGED backendVars
      PROVE  BackendInv'
  BY <1>8 DEF backendVars, BackendInv, BackendTypes, BuffersKept, DeviceHolds, ClipTold
<1>9. QED
  BY <1>1, <1>2, <1>3, <1>4, <1>5, <1>6, <1>7, <1>8 DEF BackendNext

LEMMA AfterFirst ==
    ASSUME NEW S, NEW x \in S, NEW t \in Seq(S)
    PROVE  Tail(<<x>> \o t) = t
<1> DEFINE u == <<x>> \o t
<1>1. <<x>> \in Seq(S) /\ Len(<<x>>) = 1 /\ <<x>>[1] = x
  OBVIOUS
<1>2. u \in Seq(S) /\ Len(u) = 1 + Len(t) /\ \A i \in 1..Len(u) : u[i] = IF i <= 1 THEN <<x>>[i] ELSE t[i - 1]
  BY <1>1, ConcatProperties
<1> HIDE DEF u
<1>3. Len(t) \in Nat /\ u # <<>>
  BY <1>2
<1>4. Tail(u) \in Seq(S) /\ Len(Tail(u)) = Len(u) - 1 /\ \A i \in 1..Len(Tail(u)) : Tail(u)[i] = u[i + 1]
  BY <1>2, <1>3, HeadTailProperties
<1>5. Len(Tail(u)) = Len(t)
  BY <1>2, <1>3, <1>4
<1>6. \A i \in 1..Len(t) : Tail(u)[i] = t[i]
  BY <1>2, <1>3, <1>4, <1>5
<1>7. Tail(u) = t
  BY <1>4, <1>5, <1>6, SeqEqual
<1>8. QED
  BY <1>7 DEF u

LEMMA SlotIsClean == BackendInv => SlotLeftClean
<1> SUFFICES ASSUME BackendInv PROVE SlotLeftClean
  OBVIOUS
<1>1. BackendTypes /\ BuffersKept
  BY DEF BackendInv
<1>2. ASSUME NEW x \in Allocs
      PROVE  mem.live[x] = (IF x \in mem.held THEN 1 ELSE 0) + (IF x \in ParkedBufs(ctx.parked) THEN 1 ELSE 0)
  <2>1. mem.live[x] \in Int /\ Unheld(mem, x) = IF x \in ParkedBufs(ctx.parked) THEN 1 ELSE 0
    BY <1>1 DEF BackendTypes, IsMem, BuffersKept, AllKept
  <2>2. QED
    BY <2>1 DEF Unheld
<1>3. QED
  BY <1>1, <1>2 DEF SlotLeftClean, BuffersKept, RowsRight

LEMMA ReadIsAsked == BackendInv => ReadsWhatWasAsked
<1> SUFFICES ASSUME BackendInv PROVE ReadsWhatWasAsked
  OBVIOUS
<1>1. BackendTypes /\ ClipTold /\ computed.read = computed.asked
  BY DEF BackendInv
<1> DEFINE n == col.sent
           s == count.sessions
           t == Texts(s, n)
<1>2. n \in Nat /\ [i \in 1..n |-> Window(i - 1)] = t
  BY <1>1 DEF BackendTypes, Texts, Window
<1>3. ASSUME col.result[1] = "texts" PROVE Tail(col.result) = t
  <2>1. <<"none">>[1] # "texts" /\ <<"error">>[1] # "texts"
    OBVIOUS
  <2>2. col.result = <<"texts">> \o t
    BY <1>1, <1>3, <2>1 DEF ClipTold
  <2> DEFINE S == {"texts"} \cup ({s} \X Nat)
  <2>3. t \in Seq(S)
    BY <1>2, SMTT(40) DEF Texts
  <2> HIDE DEF t
  <2>4. Tail(<<"texts">> \o t) = t
    BY <2>3, AfterFirst
  <2>5. QED
    BY <2>2, <2>4
<1>4. QED
  BY <1>1, <1>2, <1>3 DEF ReadsWhatWasAsked

(* Whatever fails on the way, and in whatever order sessions are opened,   *)
(* served and closed on a context: every buffer is the session's or parked *)
(* and is freed once, an idle slot keeps no pages, and a session has pages *)
(* for its cache and the rows it counts (gpu_open, gpu_destroy, park_move).*)
THEOREM SlotsLeftClean == BackendSpec => []SlotLeftClean
<1>1. BackendInit => BackendInv
  BY BackendStarts
<1>2. BackendInv /\ [BackendNext]_backendVars => BackendInv'
  BY BackendStays
<1>3. BackendInv => SlotLeftClean
  BY SlotIsClean
<1>4. QED
  BY <1>1, <1>2, <1>3, PTL DEF BackendSpec

(* A window's features and a step's token are always the ones asked for,   *)
(* though the buffers outlive batches, steps and sessions, and a clip that *)
(* is transcribed has the text of each of its chunks, once and in order    *)
(* (gpu_prefill_chunk, gpu_decode_step, collect_event).                    *)
THEOREM SessionsReadWhatWasAsked == BackendSpec => []ReadsWhatWasAsked
<1>1. BackendInit => BackendInv
  BY BackendStarts
<1>2. BackendInv /\ [BackendNext]_backendVars => BackendInv'
  BY BackendStays
<1>3. BackendInv => ReadsWhatWasAsked
  BY ReadIsAsked
<1>4. QED
  BY <1>1, <1>2, <1>3, PTL DEF BackendSpec
=============================================================================
