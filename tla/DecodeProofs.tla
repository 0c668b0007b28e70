---------------------------- MODULE DecodeProofs ----------------------------
(***************************************************************************)
(* Proofs about DecodeLoop for every window, page size, chunk, number of   *)
(* devices and set of prompts.                                             *)
(***************************************************************************)
EXTENDS DecodeLoop, TLAPS

USE DecodeAssumption

-----------------------------------------------------------------------------
(* The operators of the model *)

(* A number of positions takes enough pages, and a larger number of pages  *)
(* holds at least as many positions.                                       *)
LEMMA PagesEnough ==
    ASSUME NEW k \in Nat, NEW q \in Nat, PagesFor(k) <= q
    PROVE  PagesFor(k) \in Nat /\ k <= q * PageSize
<1> DEFINE x == k + PageSize - 1
           d == x \div PageSize
<1>1. x \in Nat /\ PageSize \in Nat \ {0}
  OBVIOUS
<1>2. d \in Nat /\ x = PageSize * d + (x % PageSize) /\ x % PageSize \in 0..(PageSize - 1)
  <2> HIDE DEF x
  <2> QED
    BY <1>1
<1>3. k <= PageSize * d
  BY <1>2
<1>4. \A e \in Nat : d <= e => PageSize * d <= e * PageSize
  <2> HIDE DEF d, x
  <2> SUFFICES ASSUME NEW e \in Nat, d <= e PROVE PageSize * d <= e * PageSize
    OBVIOUS
  <2>1. PICK j \in Nat : e = d + j
    BY <1>2
  <2>2. e * PageSize = PageSize * d + PageSize * j /\ PageSize * j \in Nat
    BY <1>2, <2>1
  <2>3. PageSize * d \in Nat
    BY <1>2
  <2>4. QED
    BY <2>2, <2>3
<1>5. PagesFor(k) = d
  BY DEF PagesFor
<1>6. d <= q => PageSize * d <= q * PageSize
  BY <1>4
<1>7. q * PageSize \in Nat /\ PageSize * d \in Nat
  BY <1>2
<1> HIDE DEF d, x
<1>8. QED
  BY <1>2, <1>3, <1>5, <1>6, <1>7

(* What the placements of a context have in common.                        *)
LEMMA ConfFacts ==
    ASSUME conf \in Conf
    PROVE  /\ conf.shards \in 0..MaxShards
           /\ Devices \subseteq 0..MaxShards /\ 0 \in Devices
           /\ conf.cpu => conf.shards = 0 /\ ~conf.paged /\ ~conf.graphs
           /\ conf.paged => conf.shards = 0
BY DEF Conf, Devices

(* The device after the last one is the first again.                       *)
LEMMA NextSlice ==
    ASSUME NEW s \in Nat, NEW i \in 0..s
    PROVE  (i + 1) % (s + 1) = IF i = s THEN 0 ELSE i + 1
<1>1. \A a \in Nat, b \in Nat \ {0} : a < b => a % b = a
  OBVIOUS
<1>2. \A b \in Nat \ {0} : b % b = 0
  OBVIOUS
<1>3. s + 1 \in Nat \ {0} /\ i + 1 \in Nat
  OBVIOUS
<1>4. CASE i = s
  <2>1. (s + 1) % (s + 1) = 0
    BY <1>2, <1>3
  <2>2. QED
    BY <1>4, <2>1
<1>5. CASE i # s
  <2>1. i + 1 < s + 1
    BY <1>5
  <2>2. QED
    BY <1>1, <1>3, <1>5, <2>1
<1>6. QED
  BY <1>4, <1>5

(* The lengths of a cache start over on every device.                      *)
LEMMA Zeroes ==
    ASSUME NEW x, NEW i \in 0..MaxShards
    PROVE  Everywhere(x)[i] = x
BY DEF Everywhere

(* A context before its first call.                                        *)
LEMMA InitInv == Init => IInv
<1> SUFFICES ASSUME Init PROVE IInv
  OBVIOUS
<1>1. conf \in Conf /\ \A i \in Devices : i \in 0..MaxShards
  BY ConfFacts DEF Init
<1>2. stray \in BOOLEAN /\ ~stray
  BY Zenon DEF Init
<1>3. TypeOK
  <2>1. ret \in Results
    BY DEF Init, Results, Whys
  <2>2. QED
    BY <1>1, <1>2, <2>1 DEF Init, TypeOK, Everywhere, None
<1>4. AnswersComplete
  BY <1>1 DEF Init, AnswersComplete, OkMeansComplete, GenerationFits, IdleHoldsNothing,
     Everywhere
<1>5. CallSane
  BY <1>1, ConfFacts DEF Init, CallSane, Whys
<1>6. LengthsAgree /\ PagesCover /\ HeldIsOurs
  BY <1>1 DEF Init, LengthsAgree, PagesCover, HeldIsOurs, HeldAt
<1>7. RowsPlaced
  BY <1>1 DEF Init, RowsPlaced, Everywhere, Positions
<1>8. QED
  BY <1>2, <1>3, <1>4, <1>5, <1>6, <1>7 DEF IInv, WritesAreOwned

-----------------------------------------------------------------------------
(* The ways out *)

(* An answer leaves an idle context that holds nothing of the request.     *)
LEMMA AnswerInv ==
    ASSUME IInv, Stay, NEW status \in {"ok", "error", "OVERFLOW", "EXHAUSTED"},
           NEW freed, Answer(status, freed),
           why' \in Whys,
           op # "none", HeldAt \subseteq freed \cup {"out"},
           op = "generate" => why' # "window",
           why' = "fail" => status # "ok" \/ (conf.cpu /\ op = "transcribe")
    PROVE  IInv'
<1>1. /\ UNCHANGED <<conf, op, prompt, maxNew, slice, start, n, tok, stray>>
      /\ UNCHANGED <<host, dev, nxt, cells, att>>
  BY DEF Stay, call, lens
<1>2. /\ pc' = "idle" /\ pages' = 0 /\ graph' = Everywhere(None)
      /\ held' \subseteq {"out"}
      /\ ret' = [op |-> op, status |-> status, n |-> n, why |-> why']
  BY DEF Answer, IInv, HeldIsOurs
<1>3. TypeOK'
  <2>2. ret' \in Results
    BY <1>2 DEF Results, IInv, TypeOK
  <2>3. QED
    BY <1>1, <1>2, <2>2 DEF IInv, TypeOK, Positions, Owned0, Loaned, Everywhere, None
<1>4. CallSane' /\ WritesAreOwned'
  BY <1>1, <1>2 DEF IInv, CallSane, WritesAreOwned, Devices
<1>5. LengthsAgree' /\ PagesCover'
  BY <1>2 DEF LengthsAgree, PagesCover
<1>6. RowsPlaced'
  BY <1>1 DEF IInv, RowsPlaced, OneRowTail, Devices, Positions
<1>7. HeldIsOurs'
  BY <1>2 DEF HeldIsOurs
<1>8. AnswersComplete'
  <2>1. conf' \in Conf /\ Devices' \subseteq 0..MaxShards
    BY <1>1, ConfFacts DEF IInv, TypeOK, Devices
  <2>2. OkMeansComplete'
    BY <1>1, <1>2 DEF OkMeansComplete
  <2>3. GenerationFits' /\ IdleHoldsNothing'
    BY <1>1, <1>2, <2>1 DEF GenerationFits, IdleHoldsNothing, Everywhere
  <2>4. QED
    BY <2>2, <2>3 DEF AnswersComplete
<1>9. QED
  BY <1>3, <1>4, <1>5, <1>6, <1>7, <1>8 DEF IInv

(* So does a request that fails, wherever it does.                         *)
LEMMA FailInv ==
    ASSUME IInv, op # "none", NEW status \in {"error", "OVERFLOW", "EXHAUSTED"},
           NEW freed, Fail(status, freed), HeldAt \subseteq freed \cup {"out"}
    PROVE  IInv'
<1>1. why' = "fail" /\ Answer(status, freed) /\ Stay
  BY DEF Fail
<1>2. why' \in Whys
  BY <1>1 DEF Whys
<1>3. QED
  BY <1>1, <1>2, AnswerInv

(* The end of the three loops.                                             *)
LEMMA FinishInv == ASSUME IInv, Finish \/ FinishCpu \/ FinishAnswer PROVE IInv'
<1>1. PICK status \in {"ok", "error"},
           freed \in {{"work", "out"}, {"ids", "answer", "work"}} :
           /\ Answer(status, freed)
           /\ op = "generate" => freed = {"ids", "answer", "work"}
           /\ op # "generate" => freed = {"work", "out"}
  BY DEF Finish, FinishCpu, FinishAnswer
<1>2. pc = "finish" /\ why' = why /\ Stay
  BY DEF Finish, FinishCpu, FinishAnswer
<1>3. HeldAt \subseteq freed \cup {"out"}
  BY <1>1, <1>2 DEF HeldAt
<1>4. op # "none" /\ why' \in Whys
  BY <1>2 DEF IInv, CallSane
<1>5. /\ op = "generate" => why' # "window"
      /\ why' = "fail" => conf.cpu /\ op = "transcribe"
  BY <1>2 DEF IInv, CallSane, AnswersComplete, GenerationFits
<1>6. QED
  BY <1>1, <1>2, <1>3, <1>4, <1>5, AnswerInv

-----------------------------------------------------------------------------
(* The start of a call *)

(* Every call starts with empty caches, whatever the last one left.        *)
LEMMA StartInv ==
    ASSUME IInv, NEW kind \in {"transcribe", "generate"}, NEW p \in Nat \ {0},
           NEW m \in Nat, NEW mem, Start(kind, p, m, mem),
           pc' \in {"admit", "encode", "build"},
           kind = "generate" => p + m <= Window,
           pc' = "admit" => ~conf.cpu,
           pc' = "encode" => conf.cpu /\ kind = "transcribe",
           pc' = "build" => ~conf.paged,
           mem \subseteq HeldAt'
    PROVE  IInv'
<1> DEFINE Empty == [q \in Positions |-> 0]
<1>1. /\ pc = "idle" /\ op' = kind /\ prompt' = p /\ maxNew' = m
      /\ n' = 0 /\ tok' = "none" /\ why' = "none" /\ slice' = 0 /\ start' = 0
      /\ conf' = conf /\ ret' = ret /\ stray' = stray
      /\ pages' = 0 /\ graph' = Everywhere(None) /\ held' = held \cup mem
  BY DEF Start, ResetAll
<1>2. /\ host' = Everywhere(0) /\ dev' = Everywhere(0) /\ nxt' = Everywhere(0)
      /\ cells' = Everywhere(Empty) /\ att' = Everywhere(0)
  BY DEF Start, ResetAll
<1>3. held' \subseteq HeldAt' \cup {"out"}
  BY <1>1 DEF IInv, AnswersComplete, IdleHoldsNothing
<1>4. HeldAt' \subseteq Owned0 \cup Loaned \cup {"features"}
  BY DEF HeldAt, Owned0, Loaned
<1>5. TypeOK'
  <2>1. /\ host' \in [0..MaxShards -> Nat] /\ dev' \in [0..MaxShards -> Nat]
        /\ nxt' \in [0..MaxShards -> Nat] /\ att' \in [0..MaxShards -> Nat]
        /\ cells' \in [0..MaxShards -> [Positions -> Nat]]
        /\ graph' \in [0..MaxShards -> {None, GaveUp} \cup Nat]
    BY <1>1, <1>2 DEF Everywhere
  <2>2. held' \subseteq Owned0 \cup Loaned \cup {"features"}
    BY <1>3, <1>4 DEF Loaned
  <2>3. /\ conf' \in Conf /\ op' \in {"none", "transcribe", "generate"}
        /\ prompt' \in Nat /\ maxNew' \in Nat /\ n' \in Nat /\ start' \in Nat
        /\ slice' \in 0..MaxShards /\ pages' \in Nat
    BY <1>1 DEF IInv, TypeOK
  <2>4. ret' \in Results /\ stray' \in BOOLEAN
    BY <1>1 DEF IInv, TypeOK
  <2>5. QED
    BY <2>1, <2>2, <2>3, <2>4 DEF TypeOK
<1>6. conf' \in Conf /\ Devices' = Devices /\ Devices \subseteq 0..MaxShards /\ 0 \in Devices
  BY <1>1, ConfFacts DEF IInv, TypeOK, Devices
<1>7. CallSane'
  BY <1>1, <1>6 DEF CallSane, Whys
<1>8. LengthsAgree'
  BY <1>1, <1>2, <1>6 DEF LengthsAgree, Everywhere
<1>9. RowsPlaced'
  BY <1>1, <1>2, <1>6 DEF RowsPlaced, Everywhere, Positions
<1>10. PagesCover' /\ HeldIsOurs' /\ WritesAreOwned'
  BY <1>1, <1>3 DEF PagesCover, HeldIsOurs, WritesAreOwned, IInv
<1>11. AnswersComplete'
  BY <1>1 DEF IInv, AnswersComplete, OkMeansComplete, GenerationFits, IdleHoldsNothing
<1>12. QED
  BY <1>5, <1>7, <1>8, <1>9, <1>10, <1>11 DEF IInv

(* The three entry points.                                                 *)
LEMMA CallInv ==
    ASSUME IInv, NEW p \in Prompts, NEW m \in MaxNews,
           Transcribe(p, m) \/ TranscribeCpu(p, m) \/ Generate(p, m)
    PROVE  IInv'
<1>0. p \in Nat \ {0} /\ m \in Nat \ {0} /\ Window \in Nat \ {0}
  OBVIOUS
<1>c. conf \in Conf /\ (conf.cpu => ~conf.paged)
  BY ConfFacts DEF IInv, TypeOK
<1>1. CASE Transcribe(p, m)
  <2>1. Start("transcribe", p, m, {"ids"}) /\ ~conf.cpu /\ op' = "transcribe"
        /\ pc' = IF conf.paged THEN "admit" ELSE "build"
    BY <1>1 DEF Transcribe, Start
  <2>2. conf' = conf
    BY <2>1 DEF Start
  <2>3. {"ids"} \subseteq HeldAt'
    BY <2>1, <2>2 DEF HeldAt
  <2>4. QED
    BY <1>0, <2>1, <2>3, StartInv
<1>2. CASE TranscribeCpu(p, m)
  <2>1. Start("transcribe", p, m, {}) /\ conf.cpu /\ pc' = "encode"
    BY <1>2 DEF TranscribeCpu
  <2>2. QED
    BY <1>0, <2>1, StartInv
<1>3. CASE Generate(p, m)
  <2>1. Start("generate", p, AnswerCap(p, m), {"ids", "answer"}) /\ op' = "generate"
        /\ p < Window /\ pc' = IF conf.paged THEN "admit" ELSE "build"
    BY <1>3 DEF Generate, Start
  <2>2. AnswerCap(p, m) \in Nat /\ p + AnswerCap(p, m) <= Window
    BY <1>0, <2>1 DEF AnswerCap, Min2
  <2>3. {"ids", "answer"} \subseteq HeldAt'
    BY <2>1 DEF HeldAt
  <2>4. QED
    BY <1>0, <1>c, <2>1, <2>2, <2>3, StartInv
<1>4. QED
  BY <1>1, <1>2, <1>3

(* A prompt that fills the window is refused and changes nothing else.     *)
LEMMA TooLongInv == ASSUME IInv, NEW p \in Prompts, GenerateTooLong(p) PROVE IInv'
<1>1. /\ UNCHANGED <<call, pc, slice, start, lens, pages, graph, held, tok, n, why,
                     stray>>
      /\ ret' = [op |-> "generate", status |-> "OVERFLOW", n |-> 0, why |-> "refused"]
  BY DEF GenerateTooLong
<1>2. ret' \in Results
  BY <1>1 DEF Results, Whys
<1>3. TypeOK' /\ WritesAreOwned'
  BY <1>1, <1>2 DEF IInv, TypeOK, WritesAreOwned, Positions, call, lens
<1>4. CallSane' /\ LengthsAgree' /\ PagesCover'
  BY <1>1 DEF IInv, CallSane, LengthsAgree, PagesCover, Waiting, Devices, call, lens
<1>5. RowsPlaced' /\ HeldIsOurs'
  BY <1>1 DEF IInv, RowsPlaced, HeldIsOurs, HeldAt, OneRowTail, Devices, Positions,
              call, lens
<1>6. AnswersComplete'
  BY <1>1 DEF IInv, AnswersComplete, OkMeansComplete, GenerationFits,
              IdleHoldsNothing, Devices, call, lens
<1>7. QED
  BY <1>3, <1>4, <1>5, <1>6 DEF IInv

-----------------------------------------------------------------------------
(* Steps inside a call that write no row *)

(* What such a step has to show for itself.                                *)
LEMMA QuietInv ==
    ASSUME IInv, UNCHANGED <<call, host, cells, att, graph, ret, stray>>, pc' # "idle",
           pc' \in {"admit", "encode", "build", "prefill", "first", "loop", "step",
                    "head", "finish", "crashed"},
           n' \in Nat, pages' \in Nat, slice' \in 0..MaxShards, start' = start,
           dev' \in [0..MaxShards -> Nat], nxt' \in [0..MaxShards -> Nat],
           CallSane', LengthsAgree', PagesCover', HeldIsOurs',
           op = "generate" => why' # "window"
    PROVE  IInv'
<1>1. conf' = conf /\ op' = op /\ prompt' = prompt /\ maxNew' = maxNew
  BY DEF call
<1>2. held' \subseteq Owned0 \cup Loaned \cup {"features"}
  BY DEF HeldIsOurs, HeldAt, Owned0, Loaned
<1>3. TypeOK'
  BY <1>1, <1>2 DEF IInv, TypeOK, Positions
<1>4. RowsPlaced' /\ WritesAreOwned'
  BY <1>1 DEF IInv, RowsPlaced, WritesAreOwned, OneRowTail, Devices, Positions
<1>5. AnswersComplete'
  BY <1>1 DEF IInv, AnswersComplete, OkMeansComplete, GenerationFits, IdleHoldsNothing
<1>6. QED
  BY <1>3, <1>4, <1>5 DEF IInv

(* Admission takes the pages of the prompt and of the answer it expects.   *)
LEMMA AdmitInv == ASSUME IInv, Admit PROVE IInv'
<1>1. pc = "admit" /\ op # "none" /\ op \in {"none", "transcribe", "generate"}
      /\ prompt \in Nat /\ maxNew \in Nat
  BY DEF Admit, IInv, CallSane, TypeOK
<1>2. CASE Fail("EXHAUSTED", {"ids", "answer"})
  BY <1>1, <1>2, FailInv DEF HeldAt
<1>3. CASE /\ pages' = PagesFor(AdmitPositions)
           /\ pc' = "build"
           /\ UNCHANGED <<call, slice, start, lens, graph, held, tok, n, why, ret, stray>>
  <2>1. AdmitPositions \in Nat /\ (prompt <= Window => prompt <= AdmitPositions)
    BY <1>1 DEF AdmitPositions, Min2, IInv, CallSane
  <2>2. PagesFor(AdmitPositions) \in Nat
        /\ AdmitPositions <= PagesFor(AdmitPositions) * PageSize
    <3>1. AdmitPositions + PageSize - 1 \in Nat /\ PageSize \in Nat \ {0}
      BY <2>1
    <3>2. PagesFor(AdmitPositions) \in Nat
      BY <3>1 DEF PagesFor
    <3>3. QED
      BY <2>1, <3>2, PagesEnough
  <2>3. /\ conf' = conf /\ op' = op /\ prompt' = prompt /\ maxNew' = maxNew
        /\ host' = host /\ dev' = dev /\ nxt' = nxt /\ cells' = cells /\ att' = att
    BY <1>3 DEF call, lens
  <2>4. PagesFor(AdmitPositions) * PageSize \in Nat
    BY <2>2
  <2>5. PagesCover'
    BY <1>1, <1>3, <2>1, <2>2, <2>3, <2>4 DEF PagesCover
  <2>6. CallSane' /\ LengthsAgree'
    BY <1>1, <1>3, <2>3 DEF IInv, CallSane, LengthsAgree, Devices
  <2>7. HeldIsOurs'
    BY <1>1, <1>3, <2>3 DEF IInv, HeldIsOurs, HeldAt, CallSane
  <2>8. QED
    BY <1>1, <1>3, <2>2, <2>3, <2>5, <2>6, <2>7, QuietInv
    DEF call, IInv, TypeOK, CallSane, AnswersComplete, GenerationFits
<1>4. QED
  BY <1>2, <1>3 DEF Admit
(* The rows of the prompt are laid out before any is run.                  *)
LEMMA BuildInv ==
    ASSUME IInv, BuildRows \/ EncodeCpu \/ BuildRowsCpu \/ BuildPrompt
    PROVE  IInv'
<1>1. /\ pc \in {"encode", "build"} /\ op # "none"
      /\ op \in {"none", "transcribe", "generate"}
  BY DEF BuildRows, EncodeCpu, BuildRowsCpu, BuildPrompt, IInv, CallSane, TypeOK
<1>2. CASE \E freed : Fail("error", freed) /\ HeldAt \subseteq freed \cup {"out"}
  BY <1>1, <1>2, FailInv
<1>3. CASE \E to \in {"build", "prefill"} : \E mem :
              /\ Advance(to, mem)
              /\ to = "build" => pc = "encode"
              /\ to = "prefill" => pc = "build"
              /\ mem \subseteq HeldAt' \cup {"out"}
  <2>0. PICK to \in {"build", "prefill"} : \E mem :
              /\ Advance(to, mem)
              /\ to = "build" => pc = "encode"
              /\ to = "prefill" => pc = "build"
              /\ mem \subseteq HeldAt' \cup {"out"}
    BY <1>3
  <2>1. PICK mem : /\ Advance(to, mem)
                   /\ to = "build" => pc = "encode"
                   /\ to = "prefill" => pc = "build"
                   /\ mem \subseteq HeldAt' \cup {"out"}
    BY <2>0
  <2>2. /\ conf' = conf /\ op' = op /\ prompt' = prompt /\ maxNew' = maxNew
        /\ host' = host /\ dev' = dev /\ nxt' = nxt /\ cells' = cells /\ att' = att
        /\ slice' = slice /\ start' = start /\ pages' = pages /\ graph' = graph
        /\ tok' = tok /\ n' = n /\ why' = why /\ ret' = ret /\ stray' = stray
        /\ pc' = to /\ held' = mem
    BY <2>1 DEF Advance, call, lens
  <2>3. HeldIsOurs'
    BY <2>1, <2>2 DEF HeldIsOurs
  <2>4. CallSane' /\ PagesCover'
    BY <1>1, <2>1, <2>2, ConfFacts DEF IInv, TypeOK, CallSane, PagesCover, Devices
  <2>5. LengthsAgree'
    <3>1. start = 0 /\ start = 0 * Chunk /\ slice = 0 /\ prompt > 0
      BY <1>1 DEF IInv, LengthsAgree, CallSane
    <3>2. \E k \in 0..start' : start' = k * Chunk
      <4>1. 0 \in 0..start' /\ start' = 0 * Chunk
        BY <2>2, <3>1
      <4>2. QED
        BY <4>1
    <3>3. Devices' = Devices /\ \A i \in Devices : ~(i < 0)
      BY <2>2, ConfFacts DEF IInv, TypeOK, Devices
    <3>4. /\ n' = 0 /\ start' = 0 /\ slice' = 0 /\ start' < prompt'
          /\ \A i \in Devices : host'[i] = 0 /\ dev'[i] = 0
      BY <1>1, <2>2, <3>1 DEF IInv, LengthsAgree
    <3>5. QED
      BY <2>1, <2>2, <3>2, <3>3, <3>4 DEF LengthsAgree
  <2>6. QED
    BY <2>2, <2>3, <2>4, <2>5, QuietInv
    DEF call, IInv, TypeOK, CallSane, AnswersComplete, GenerationFits
<1>4. CASE BuildRows
  <2>1. CASE Fail("error", {"ids"})
    BY <1>2, <1>4, <2>1 DEF BuildRows, HeldAt
  <2>2. CASE Advance("prefill", (held \ {"ids"}) \cup {"hidden"})
    <3>1. pc = "build" /\ pc' = "prefill" /\ op = "transcribe" /\ op' = op
      BY <1>4, <2>2 DEF BuildRows, Advance, call
    <3>2. (held \ {"ids"}) \cup {"hidden"} \subseteq HeldAt' \cup {"out"}
      BY <1>4, <3>1 DEF BuildRows, HeldAt, IInv, HeldIsOurs
    <3>3. QED
      BY <1>3, <2>2, <3>1, <3>2
  <2>3. QED
    BY <1>4, <2>1, <2>2 DEF BuildRows
<1>5. CASE EncodeCpu
  <2>1. CASE Fail("error", {})
    BY <1>2, <1>5, <2>1 DEF EncodeCpu, HeldAt
  <2>2. CASE Advance("build", held \cup {"features"})
    <3>1. /\ pc = "encode" /\ pc' = "build" /\ op = "transcribe" /\ op' = op
          /\ conf.cpu /\ conf' = conf
      BY <1>5, <2>2 DEF EncodeCpu, Advance, call, IInv, CallSane
    <3>2. held \cup {"features"} \subseteq HeldAt' \cup {"out"}
      BY <3>1 DEF HeldAt, IInv, HeldIsOurs
    <3>3. QED
      BY <1>3, <2>2, <3>1, <3>2
  <2>3. QED
    BY <1>5, <2>1, <2>2 DEF EncodeCpu
<1>6. CASE BuildRowsCpu
  <2>1. CASE Fail("error", {"features"})
    BY <1>2, <1>6, <2>1 DEF BuildRowsCpu, HeldAt
  <2>2. CASE Advance("prefill", (held \ {"features"}) \cup {"hidden"})
    <3>1. pc = "build" /\ pc' = "prefill" /\ op = "transcribe" /\ op' = op /\ conf.cpu
      BY <1>6, <2>2 DEF BuildRowsCpu, Advance, call
    <3>2. (held \ {"features"}) \cup {"hidden"} \subseteq HeldAt' \cup {"out"}
      BY <3>1 DEF HeldAt, IInv, HeldIsOurs
    <3>3. QED
      BY <1>3, <2>2, <3>1, <3>2
  <2>3. QED
    BY <1>6, <2>1, <2>2 DEF BuildRowsCpu
<1>7. CASE BuildPrompt
  <2>1. CASE Fail("error", {"ids", "answer"})
    BY <1>2, <1>7, <2>1 DEF BuildPrompt, HeldAt
  <2>2. CASE Advance("prefill", held \cup {"hidden", "work"})
    <3>1. pc = "build" /\ pc' = "prefill" /\ op = "generate" /\ op' = op
      BY <1>7, <2>2 DEF BuildPrompt, Advance, call
    <3>2. held \cup {"hidden", "work"} \subseteq HeldAt' \cup {"out"}
      BY <3>1 DEF HeldAt, IInv, HeldIsOurs, Owned0
    <3>3. QED
      BY <1>3, <2>2, <3>1, <3>2
  <2>3. QED
    BY <1>7, <2>1, <2>2 DEF BuildPrompt
<1>8. QED
  BY <1>4, <1>5, <1>6, <1>7

(* The first token, and the lengths handed to the devices.                 *)
LEMMA FirstInv ==
    ASSUME IInv, NEW t \in Tokens, FirstToken(t) \/ FirstTokenCpu(t) \/ FirstAnswer(t)
    PROVE  IInv'
<1>1. /\ pc = "first" /\ pc' = "loop" /\ tok' = t
      /\ UNCHANGED <<call, host, cells, att, slice, start, pages, graph, why, ret, stray>>
      /\ n' = IF op = "transcribe" /\ t = "word" THEN 1 ELSE 0
      /\ ~conf.cpu => Publish
      /\ conf.cpu => dev' = dev /\ nxt' = nxt
  BY DEF FirstToken, FirstTokenCpu, FirstAnswer, lens, IInv, LengthsAgree
<1>2. conf' = conf /\ op' = op /\ prompt' = prompt /\ maxNew' = maxNew
  BY <1>1 DEF call
<1>3. dev' \in [0..MaxShards -> Nat] /\ nxt' \in [0..MaxShards -> Nat]
  <2>1. CASE conf.cpu
    BY <1>1, <2>1 DEF IInv, TypeOK
  <2>2. CASE ~conf.cpu
    <3>1. /\ dev' = [i \in 0..MaxShards |-> host[i]]
          /\ nxt' = [i \in 0..MaxShards |-> host[i] + 1]
      BY <1>1, <2>2 DEF Publish
    <3>2. \A i \in 0..MaxShards : host[i] \in Nat /\ host[i] + 1 \in Nat
      <4>1. host \in [0..MaxShards -> Nat]
        BY DEF IInv, TypeOK
      <4>2. \A i \in 0..MaxShards : host[i] \in Nat
        BY <4>1, Zenon
      <4>3. QED
        BY <4>2
    <3>3. [i \in 0..MaxShards |-> host[i]] \in [0..MaxShards -> Nat]
      BY <3>2, Zenon
    <3>4. [i \in 0..MaxShards |-> host[i] + 1] \in [0..MaxShards -> Nat]
      BY <3>2, Zenon
    <3>5. QED
      BY <3>1, <3>3, <3>4, Zenon
  <2>3. QED
    BY <2>1, <2>2
<1>4. op \in {"transcribe", "generate"} /\ n = 0 /\ maxNew \in Nat /\ prompt \in Nat
  BY <1>1 DEF IInv, CallSane, TypeOK, LengthsAgree
<1>5. CallSane' /\ PagesCover'
  BY <1>1, <1>2, <1>4 DEF IInv, CallSane, PagesCover, Devices
<1>6. LengthsAgree'
  <2>1. Devices' = Devices /\ Devices \subseteq 0..MaxShards
    BY <1>2, ConfFacts DEF Devices, IInv, TypeOK
  <2>2. ASSUME NEW i \in Devices PROVE ~conf.cpu => dev'[i] = host'[i]
    BY <1>1, <2>1 DEF Publish
  <2>3. ASSUME NEW i \in Devices PROVE host'[i] = prompt + n' - Waiting'
    BY <1>1, <1>2, <1>4 DEF IInv, LengthsAgree, Waiting
  <2>4. QED
    BY <1>1, <1>2, <2>1, <2>2, <2>3 DEF IInv, LengthsAgree
<1>7. HeldIsOurs'
  <2>1. held' \subseteq IF op = "generate" THEN {"ids", "answer", "work", "out"}
                                           ELSE {"work", "out"}
    BY <1>1, <1>4 DEF FirstToken, FirstTokenCpu, FirstAnswer, IInv, HeldIsOurs, HeldAt,
                      Owned0
  <2>2. QED
    BY <1>1, <1>2, <2>1 DEF HeldIsOurs, HeldAt
<1>8. QED
  BY <1>1, <1>2, <1>3, <1>5, <1>6, <1>7, QuietInv
  DEF IInv, TypeOK, CallSane, AnswersComplete, GenerationFits

(* The failures before the loop.                                           *)
LEMMA EarlyFailInv == ASSUME IInv, PrefillFails \/ FirstFails PROVE IInv'
<1>1. pc \in {"prefill", "first"} /\ op # "none" /\ HeldAt \subseteq Owned0
  BY DEF PrefillFails, FirstFails, IInv, CallSane, HeldAt, Owned0
<1>2. \E status \in {"error", "OVERFLOW"} : Fail(status, Owned0)
  BY DEF PrefillFails, FirstFails
<1>3. QED
  BY <1>1, <1>2, FailInv
(* The loop's own steps, up to the row it feeds.                           *)
LEMMA LoopInv == ASSUME IInv, LoopEnds \/ Emit \/ Embed PROVE IInv'
<1>1. /\ pc = "loop" /\ pc' \in {"step", "finish"}
      /\ UNCHANGED <<call, slice, start, lens, pages, graph, held, tok, ret, stray>>
      /\ n' \in {n, n + 1}
      /\ why' \in {why, "end", "max", "stop", "cancel"}
      /\ pc' = "finish" => why' # "fail"
  BY DEF LoopEnds, Emit, Embed
<1>2. /\ conf' = conf /\ op' = op /\ prompt' = prompt /\ maxNew' = maxNew
      /\ host' = host /\ dev' = dev /\ nxt' = nxt /\ cells' = cells /\ att' = att
  BY <1>1 DEF call, lens
<1>3. /\ n \in Nat /\ prompt \in Nat /\ maxNew \in Nat /\ why \in Whys
      /\ op \in {"transcribe", "generate"}
  BY <1>1 DEF IInv, TypeOK, CallSane
<1>4. op = "generate" => n' <= maxNew /\ why' # "window"
  BY <1>1, <1>3 DEF LoopEnds, Emit, Embed, IInv, CallSane, AnswersComplete, GenerationFits
<1>5. CallSane'
  BY <1>1, <1>2, <1>3, <1>4 DEF IInv, CallSane, Devices, Whys
<1>6. LengthsAgree'
  <2>1. Devices' = Devices
    BY <1>2 DEF Devices
  <2>2. ASSUME NEW i \in Devices, pc' = "step" PROVE host'[i] = prompt + n' - 1
    BY <1>1, <1>2, <1>3, <2>2 DEF LoopEnds, Emit, Embed, IInv, LengthsAgree, Waiting
  <2>3. QED
    BY <1>1, <1>2, <2>1, <2>2 DEF IInv, LengthsAgree, Devices
<1>7. PagesCover' /\ HeldIsOurs'
  BY <1>1, <1>2 DEF PagesCover, HeldIsOurs, HeldAt, IInv
<1>8. /\ UNCHANGED <<call, host, cells, att, graph, ret, stray>> /\ start' = start
      /\ slice' = slice /\ pages' = pages /\ n' \in Nat
  BY <1>1, <1>2, <1>3
<1>9. slice \in 0..MaxShards /\ pages \in Nat /\ dev \in [0..MaxShards -> Nat] /\ nxt \in [0..MaxShards -> Nat]
  BY DEF IInv, TypeOK
<1>10. QED
  BY <1>1, <1>2, <1>4, <1>5, <1>6, <1>7, <1>8, <1>9, QuietInv

(* The token of the row just fed.                                          *)
LEMMA HeadInv == ASSUME IInv, NEW t \in Tokens, Head(t) PROVE IInv'
<1>1. /\ pc = "head" /\ pc' = "loop" /\ tok' = t
      /\ UNCHANGED <<call, slice, start, lens, pages, graph, held, why, ret, stray>>
      /\ n' = IF op = "transcribe" /\ t = "word" THEN n + 1 ELSE n
  BY DEF Head
<1>2. /\ conf' = conf /\ op' = op /\ prompt' = prompt /\ maxNew' = maxNew
      /\ host' = host /\ dev' = dev /\ nxt' = nxt /\ cells' = cells /\ att' = att
  BY <1>1 DEF call, lens
<1>3. n \in Nat /\ prompt \in Nat /\ maxNew \in Nat
  BY DEF IInv, TypeOK
<1>4. CallSane'
  BY <1>1, <1>2, <1>3 DEF IInv, CallSane, Devices
<1>5. LengthsAgree'
  <2>1. Devices' = Devices
    BY <1>2 DEF Devices
  <2>2. ASSUME NEW i \in Devices PROVE host'[i] = prompt + n' - Waiting'
    BY <1>1, <1>2, <1>3 DEF IInv, LengthsAgree, Waiting
  <2>3. QED
    BY <1>1, <1>2, <2>1, <2>2 DEF IInv, LengthsAgree, Devices
<1>6. PagesCover' /\ HeldIsOurs'
  BY <1>1, <1>2 DEF PagesCover, HeldIsOurs, HeldAt, IInv
<1>7. /\ n' \in Nat /\ pages' \in Nat /\ slice' \in 0..MaxShards
      /\ dev' \in [0..MaxShards -> Nat] /\ nxt' \in [0..MaxShards -> Nat]
      /\ op = "generate" => why' # "window"
  BY <1>1, <1>2, <1>3, SMTT(30) DEF IInv, TypeOK, AnswersComplete, GenerationFits
<1>8. QED
  BY <1>1, <1>2, <1>4, <1>5, <1>6, <1>7, QuietInv DEF call

(* A step that ends the loop: only the CPU transcription goes on to        *)
(* post-process what it has after a failure, and no generation meets the   *)
(* end of its window.                                                      *)
LEMMA BreakInv ==
    ASSUME IInv, StepOverflows \/ StepFails \/ HeadFails \/ GrowFails
    PROVE  IInv'
<1>1. /\ pc \in {"step", "head"} /\ op \in {"transcribe", "generate"}
      /\ prompt \in Nat /\ maxNew \in Nat /\ n \in Nat
      /\ Window \in Nat /\ slice \in Devices
  BY DEF StepOverflows, StepFails, HeadFails, GrowFails, IInv, CallSane, TypeOK
<1>2. CASE \E status \in {"error", "EXHAUSTED"}, freed \in {Loaned, {"work"}} :
             Fail(status, freed) /\ (freed = {"work"} => op = "transcribe")
  <2>1. PICK status \in {"error", "EXHAUSTED"}, freed \in {Loaned, {"work"}} :
             Fail(status, freed) /\ (freed = {"work"} => op = "transcribe")
    BY <1>2
  <2>2. HeldAt \subseteq freed \cup {"out"}
    BY <1>1, <2>1 DEF HeldAt, Loaned
  <2>3. QED
    BY <1>1, <2>1, <2>2, FailInv
<1>3. CASE /\ UNCHANGED <<call, start, lens, pages, graph, held, tok, n, ret, stray>>
           /\ slice' \in {slice, 0}
           /\ \/ pc' = "finish" /\ why' = "fail" /\ conf.cpu /\ op = "transcribe"
              \/ pc' = "crashed" /\ why' = why
              \/ pc' = "finish" /\ why' = "window" /\ op # "generate"
  <2>1. /\ conf' = conf /\ op' = op /\ prompt' = prompt /\ maxNew' = maxNew
        /\ host' = host /\ dev' = dev /\ nxt' = nxt /\ cells' = cells /\ att' = att
    BY <1>3 DEF call, lens
  <2>2. 0 \in Devices /\ Devices \subseteq 0..MaxShards /\ Devices' = Devices
    BY <2>1, ConfFacts DEF IInv, TypeOK, Devices
  <2>3. CallSane'
    BY <1>1, <1>3, <2>1, <2>2 DEF IInv, CallSane, Whys
  <2>4. LengthsAgree' /\ PagesCover' /\ HeldIsOurs'
    BY <1>1, <1>3, <2>1 DEF LengthsAgree, PagesCover, HeldIsOurs, HeldAt, IInv
  <2>5. op = "generate" => why' # "window"
    BY <1>3 DEF IInv, AnswersComplete, GenerationFits
  <2>6. QED
    BY <1>1, <1>3, <2>1, <2>2, <2>3, <2>4, <2>5, QuietInv DEF call, lens, IInv, TypeOK
<1>4. ASSUME LoopBreaks("error") PROVE IInv'
  <2>1. CASE conf.cpu /\ op = "transcribe"
    BY <1>3, <1>4, <2>1 DEF LoopBreaks
  <2>2. CASE ~(conf.cpu /\ op = "transcribe")
    <3>1. Fail("error", Loaned) /\ Loaned # {"work"}
      BY <1>4, <2>2 DEF LoopBreaks, Loaned
    <3>2. QED
      BY <1>2, <3>1
  <2>3. QED
    BY <2>1, <2>2
<1>5. CASE StepOverflows
  <2>1. host[slice] >= Window /\ host[slice] = prompt + n - 1
    <3>1. pc = "step" /\ slice \in Devices
      BY <1>1, <1>5 DEF StepOverflows
    <3>2. host[slice] = prompt + n - (IF slice < slice THEN 0 ELSE 1)
      BY <3>1 DEF IInv, LengthsAgree
    <3>3. ~(slice < slice)
      BY <1>1, ConfFacts DEF IInv, TypeOK
    <3>4. QED
      BY <1>5, <3>2, <3>3 DEF StepOverflows
  <2>2. op # "generate"
    BY <1>1, <2>1 DEF IInv, CallSane
  <2>3. QED
    BY <1>3, <1>5, <2>2 DEF StepOverflows
<1>6. CASE StepFails
  <2>1. CASE Fail("EXHAUSTED", Loaned)
    <3>1. Loaned # {"work"}
      BY DEF Loaned
    <3>2. QED
      BY <1>2, <2>1, <3>1
  <2>2. QED
    BY <1>4, <1>6, <2>1 DEF StepFails
<1>7. CASE HeadFails
  BY <1>4, <1>7 DEF HeadFails
<1>8. CASE GrowFails
  BY <1>2, <1>3, <1>8 DEF GrowFails
<1>9. QED
  BY <1>5, <1>6, <1>7, <1>8
-----------------------------------------------------------------------------
(* Steps that write rows *)

(* Naturals add up to naturals.                                            *)
LEMMA NatSum == \A a, b \in Nat : a + b \in Nat
OBVIOUS

(* Writing rows leaves a row at every position.                            *)
LEMMA WriteType ==
    ASSUME NEW i \in 0..MaxShards, cells \in [0..MaxShards -> [Positions -> Nat]],
           NEW pos \in Nat, NEW first \in Nat, NEW len \in Nat
    PROVE  WriteAt(i, pos, first, len) \in [Positions -> Nat]
<1>1. Positions \subseteq Nat
  BY DEF Positions
<1>2. ASSUME NEW p \in Positions
      PROVE  (IF p >= pos /\ p < pos + len THEN first + (p - pos) ELSE cells[i][p]) \in Nat
  <2>1. cells[i][p] \in Nat /\ p \in Nat
    BY <1>1
  <2>2. p >= pos => first + (p - pos) \in Nat
    BY <2>1
  <2>3. QED
    BY <2>1, <2>2
<1>3. QED
  BY <1>2 DEF WriteAt

(* A cache that holds the first k rows, in order, and no other.            *)
Placed(cache, k) == \A p \in Positions : cache[p] = IF p < k THEN p + 1 ELSE 0

(* Rows written right after the ones a device has extend its sequence.     *)
LEMMA WriteNext ==
    ASSUME NEW i, NEW pos \in Nat, NEW first, NEW len \in Nat, first = pos + 1,
           Placed(cells[i], pos)
    PROVE  Placed(WriteAt(i, pos, first, len), pos + len)
<1>1. Positions \subseteq Nat
  BY DEF Positions
<1>2. ASSUME NEW p \in Positions
      PROVE  WriteAt(i, pos, first, len)[p] = IF p < pos + len THEN p + 1 ELSE 0
  <2>1. p \in Nat /\ cells[i][p] = IF p < pos THEN p + 1 ELSE 0
    BY <1>1 DEF Placed
  <2>2. WriteAt(i, pos, first, len)[p] =
           IF p >= pos /\ p < pos + len THEN first + (p - pos) ELSE cells[i][p]
    BY DEF WriteAt
  <2>3. QED
    BY <2>1, <2>2
<1>3. QED
  BY <1>2 DEF Placed

(* What a pass over the layers of a device has to show: it writes where    *)
(* the request owns memory and, unless the prompt has a one-row tail, the  *)
(* rows that come next.                                                    *)
LEMMA RowInv ==
    ASSUME IInv, NEW i \in Devices, NEW first \in Nat, NEW len \in Nat, NEW d \in Nat,
           NEW dn \in Nat, NEW pos \in Nat,
           pos = (IF DevicePosition(len) THEN d ELSE host[i]),
           RunLayers(i, first, len, d, dn), Owned(pos + len - 1),
           conf.cpu \/ ~OneRowTail(prompt) =>
               pos = host[i] /\ first = pos + 1 /\ Attends(i, len, dn) = pos + len,
           UNCHANGED <<call, held, tok, n, why, ret>>,
           host' = [host EXCEPT ![i] = @ + len],
           pc' \in {"prefill", "first", "step", "head"}, pages' \in Nat,
           slice' \in 0..MaxShards, start' \in Nat,
           dev' \in [0..MaxShards -> Nat], nxt' \in [0..MaxShards -> Nat],
           graph' \in [0..MaxShards -> {None, GaveUp} \cup Nat],
           CallSane', LengthsAgree', PagesCover', HeldIsOurs'
    PROVE  IInv'
<1>1. /\ conf' = conf /\ op' = op /\ prompt' = prompt /\ maxNew' = maxNew
      /\ held' = held /\ tok' = tok /\ n' = n /\ why' = why /\ ret' = ret
  BY DEF call
<1>2. /\ i \in 0..MaxShards /\ Devices' = Devices /\ Devices \subseteq 0..MaxShards
      /\ TypeOK
  BY <1>1, ConfFacts DEF IInv, TypeOK, Devices
<1>t. /\ host \in [0..MaxShards -> Nat] /\ att \in [0..MaxShards -> Nat]
      /\ cells \in [0..MaxShards -> [Positions -> Nat]]
  BY <1>2 DEF TypeOK
<1>3. /\ cells' = [cells EXCEPT ![i] = WriteAt(i, pos, first, len)]
      /\ att' = [att EXCEPT ![i] = Attends(i, len, dn)]
      /\ stray' = (stray \/ ~Owned(pos + len - 1))
  BY DEF RunLayers
<1>4. stray' \in BOOLEAN /\ ~stray'
  <2>1. ~stray
    BY DEF IInv, WritesAreOwned
  <2>2. QED
    BY <1>3, <2>1, Zenon
<1>5. host[i] \in Nat /\ Attends(i, len, dn) \in Nat
  <2>1. host[i] \in Nat /\ host[i] + len \in Nat
    BY <1>2, <1>t, NatSum, Zenon
  <2>2. QED
    BY <2>1 DEF Attends
<1>6. TypeOK'
  <2>1. WriteAt(i, pos, first, len) \in [Positions -> Nat]
    BY <1>2, <1>t, WriteType
  <2>2. cells' \in [0..MaxShards -> [Positions -> Nat]]
    BY <1>2, <1>t, <1>3, <2>1
  <2>3. att' \in [0..MaxShards -> Nat] /\ host' \in [0..MaxShards -> Nat]
    <3>1. host[i] + len \in Nat
      BY <1>5, NatSum, Zenon
    <3>2. QED
      BY <1>2, <1>t, <1>3, <1>5, <3>1
  <2>4. /\ conf' \in Conf /\ op' \in {"none", "transcribe", "generate"}
        /\ prompt' \in Nat /\ maxNew' \in Nat /\ n' \in Nat
        /\ held' \subseteq Owned0 \cup Loaned \cup {"features"}
        /\ ret' \in Results
    BY <1>1, <1>2 DEF TypeOK
  <2>5. QED
    BY <1>4, <2>2, <2>3, <2>4 DEF TypeOK
<1>7. RowsPlaced'
  <2> SUFFICES ASSUME conf.cpu \/ ~OneRowTail(prompt), NEW j \in Devices
               PROVE  /\ att'[j] = host'[j]
                      /\ \A p \in Positions :
                            cells'[j][p] = IF p < host'[j] THEN p + 1 ELSE 0
    BY <1>1, <1>2 DEF RowsPlaced, OneRowTail, Positions
  <2>1. /\ att[j] = host[j]
        /\ \A p \in Positions : cells[j][p] = IF p < host[j] THEN p + 1 ELSE 0
    BY DEF IInv, RowsPlaced
  <2>2. CASE j # i
    <3>1. att'[j] = att[j] /\ host'[j] = host[j] /\ cells'[j] = cells[j]
      BY <1>2, <1>t, <1>3, <2>2
    <3>2. QED
      BY <2>1, <3>1
  <2>3. CASE j = i
    <3>1. pos = host[i] /\ first = pos + 1 /\ Attends(i, len, dn) = pos + len
      OBVIOUS
    <3>2. /\ att'[i] = pos + len /\ host'[i] = pos + len
          /\ cells'[i] = WriteAt(i, pos, first, len)
      BY <1>2, <1>t, <1>3, <3>1
    <3>3. \A p \in Positions : WriteAt(i, pos, first, len)[p] =
                                 IF p < pos + len THEN p + 1 ELSE 0
      <4>1. Placed(cells[i], pos)
        BY <2>1, <2>3, <3>1 DEF Placed
      <4>2. Placed(WriteAt(i, pos, first, len), pos + len)
        BY <3>1, <4>1, WriteNext, Zenon
      <4>3. QED
        BY <4>2 DEF Placed
    <3>4. QED
      BY <2>3, <3>2, <3>3
  <2>4. QED
    BY <2>2, <2>3
<1>8. AnswersComplete' /\ WritesAreOwned'
  BY <1>1, <1>4
  DEF IInv, AnswersComplete, OkMeansComplete, GenerationFits, IdleHoldsNothing,
      WritesAreOwned
<1>9. QED
  BY <1>6, <1>7, <1>8 DEF IInv
(* The types a step of one device works with.                              *)
LEMMA StepTypes ==
    ASSUME IInv, pc \in {"prefill", "step"}
    PROVE  /\ conf \in Conf /\ slice \in Devices /\ Devices = 0..conf.shards
           /\ conf.shards \in 0..MaxShards /\ slice \in 0..MaxShards
           /\ conf.cpu => conf.shards = 0 /\ ~conf.paged /\ ~conf.graphs
           /\ conf.paged => conf.shards = 0
           /\ host \in [0..MaxShards -> Nat] /\ dev \in [0..MaxShards -> Nat]
           /\ nxt \in [0..MaxShards -> Nat]
           /\ graph \in [0..MaxShards -> {None, GaveUp} \cup Nat]
           /\ prompt \in Nat /\ n \in Nat /\ pages \in Nat /\ start \in Nat
           /\ op \in {"transcribe", "generate"} /\ prompt > 0 /\ maxNew \in Nat
BY ConfFacts DEF IInv, TypeOK, CallSane, Devices

(* What the four ways to run a step of one device have in common: the host *)
(* length advances by one, whether the step was captured, replayed or      *)
(* launched directly.                                                      *)
LEMMA StepCommon ==
    ASSUME IInv, StepCpu \/ StepDirect \/ StepReplay \/ StepGivesUp
    PROVE  /\ pc = "step" /\ host[slice] < Window
           /\ TakePage /\ DeviceStep(slice) /\ NextDevice
           /\ UNCHANGED <<call, start, held, tok, n, why, ret>>
           /\ host' = [host EXCEPT ![slice] = @ + 1]
           /\ graph' \in [0..MaxShards -> {None, GaveUp} \cup Nat]
<1>1. pc = "step"
  BY DEF StepCpu, StepDirect, StepReplay, StepGivesUp
<1>2. /\ slice \in 0..MaxShards /\ host \in [0..MaxShards -> Nat]
      /\ graph \in [0..MaxShards -> {None, GaveUp} \cup Nat]
  BY <1>1, StepTypes
<1>3. host[slice] + 1 \in Nat /\ ShapeStep \in Nat \ {0}
  BY <1>2
<1>4. ShapeFor(host[slice] + 1) \in Nat
  BY <1>3 DEF ShapeFor
<1>5. CASE StepCpu \/ StepDirect
  BY <1>2, <1>5 DEF StepCpu, StepDirect
<1>6. CASE StepReplay
  <2>1. graph' = [graph EXCEPT ![slice] = ShapeFor(host[slice] + 1)]
    BY <1>6 DEF StepReplay
  <2>2. graph' \in [0..MaxShards -> {None, GaveUp} \cup Nat]
    BY <1>2, <1>4, <2>1
  <2>3. host' = [host EXCEPT ![slice] = @ + 1]
    BY <1>6 DEF StepReplay, AfterCapture
  <2>4. QED
    BY <1>6, <2>2, <2>3 DEF StepReplay
<1>7. CASE StepGivesUp
  <2>1. graph' \in [0..MaxShards -> {None, GaveUp} \cup Nat]
    BY <1>2, <1>7 DEF StepGivesUp
  <2>2. host' = [host EXCEPT ![slice] = @ + 1]
    BY <1>7 DEF StepGivesUp, AfterCapture
  <2>3. QED
    BY <1>7, <2>1, <2>2 DEF StepGivesUp
<1>8. QED
  BY <1>5, <1>6, <1>7

(* A step of one device feeds the token's row right after the ones it has, *)
(* in a page the request holds.                                            *)
LEMMA StepInv ==
    ASSUME IInv, StepCpu \/ StepDirect \/ StepReplay \/ StepGivesUp
    PROVE  IInv'
<1> DEFINE h == host[slice]
<1>1. /\ pc = "step" /\ h < Window /\ TakePage /\ DeviceStep(slice) /\ NextDevice
      /\ UNCHANGED <<call, start, held, tok, n, why, ret>>
      /\ host' = [host EXCEPT ![slice] = @ + 1]
      /\ graph' \in [0..MaxShards -> {None, GaveUp} \cup Nat]
  BY StepCommon
<1>2. /\ conf' = conf /\ op' = op /\ prompt' = prompt /\ maxNew' = maxNew
      /\ held' = held /\ tok' = tok /\ n' = n /\ why' = why /\ ret' = ret
      /\ start' = start
  BY <1>1 DEF call
<1>3. /\ conf \in Conf /\ slice \in Devices /\ Devices = 0..conf.shards
      /\ conf.shards \in 0..MaxShards /\ slice \in 0..MaxShards
      /\ host \in [0..MaxShards -> Nat] /\ dev \in [0..MaxShards -> Nat]
      /\ nxt \in [0..MaxShards -> Nat]
      /\ prompt \in Nat /\ n \in Nat /\ pages \in Nat /\ start \in Nat
      /\ op \in {"transcribe", "generate"} /\ prompt > 0 /\ maxNew \in Nat
  BY <1>1, StepTypes
<1>4. /\ \A i \in Devices : host[i] = prompt + n - (IF i < slice THEN 0 ELSE 1)
      /\ \A i \in Devices : ~conf.cpu => dev[i] = host[i]
  BY <1>1 DEF IInv, LengthsAgree
<1>5. h \in Nat /\ h = prompt + n - 1 /\ dev[slice] \in Nat /\ (~conf.cpu => dev[slice] = h)
  <2>1. ~(slice < slice)
    BY <1>3
  <2>2. QED
    BY <1>3, <1>4, <2>1
<1>6. FedRow = h + 1 /\ FedRow \in Nat
  BY <1>3, <1>5 DEF FedRow
<1>7. \/ pages' \in Nat /\ h + 1 <= pages' * PageSize
      \/ ~conf.paged /\ pages' \in Nat
  <2>1. h + 1 \in Nat
    BY <1>5
  <2>2. PagesFor(h + 1) \in Nat
    <3>1. h + 1 + PageSize - 1 \in Nat /\ PageSize \in Nat \ {0}
      BY <2>1
    <3>2. QED
      BY <3>1 DEF PagesFor
  <2>3. pages' \in Nat /\ (conf.paged => PagesFor(h + 1) <= pages')
    <3>1. pages \in Nat /\ TakePage
      BY <1>1, <1>3
    <3>2. QED
      BY <2>2, <3>1 DEF TakePage
  <2>4. PagesFor(h + 1) <= pages' => h + 1 <= pages' * PageSize
    BY <2>1, <2>3, PagesEnough
  <2>5. QED
    BY <2>3, <2>4
<1>8. Owned(h + 1 - 1)
  <2>1. h + 1 - 1 = h
    BY <1>5
  <2>2. conf.paged => h < pages' * PageSize
    <3>1. pages' * PageSize \in Nat
      BY <1>7
    <3>2. QED
      BY <1>5, <1>7, <3>1
  <2>3. QED
    BY <1>1, <2>1, <2>2 DEF Owned
<1>9. /\ RunLayers(slice, FedRow, 1, dev[slice], dev[slice] + 1)
      /\ dev' \in [0..MaxShards -> Nat] /\ nxt' \in [0..MaxShards -> Nat]
      /\ ~conf.cpu => dev' = [dev EXCEPT ![slice] = @ + 1]
  <2>1. dev[slice] + 1 \in Nat
    BY <1>5
  <2>2. CASE conf.cpu
    BY <1>1, <1>3, <2>2 DEF DeviceStep
  <2>3. CASE ~conf.cpu
    <3>1. /\ dev' = [dev EXCEPT ![slice] = @ + 1]
          /\ nxt' = [nxt EXCEPT ![slice] = dev[slice] + 1]
      BY <1>1, <2>3 DEF DeviceStep
    <3>2. QED
      BY <1>1, <1>3, <2>1, <2>3, <3>1 DEF DeviceStep
  <2>4. QED
    BY <2>2, <2>3
<1>10. /\ h = (IF DevicePosition(1) THEN dev[slice] ELSE host[slice])
       /\ Attends(slice, 1, dev[slice] + 1) = h + 1
  BY <1>5 DEF DevicePosition, Attends
<1>11. slice' \in Devices /\ pc' \in {"step", "head"}
       /\ (pc' = "head" => slice = conf.shards /\ slice' = 0)
       /\ (pc' = "step" => slice # conf.shards /\ slice' = slice + 1)
       /\ slice \in Nat /\ slice <= conf.shards /\ slice' \in 0..MaxShards
  <2>1. conf.shards \in Nat /\ slice \in Nat /\ slice <= conf.shards
        /\ conf.shards <= MaxShards
    BY <1>3
  <2>2. CASE slice = conf.shards
    BY <1>1, <1>3, <2>1, <2>2 DEF NextDevice
  <2>3. CASE slice # conf.shards
    <3>1. slice' = slice + 1 /\ pc' = "step"
      BY <1>1, <2>3 DEF NextDevice
    <3>2. slice + 1 \in 0..conf.shards /\ slice + 1 \in 0..MaxShards
      BY <2>1, <2>3
    <3>3. QED
      BY <1>3, <2>1, <2>3, <3>1, <3>2
  <2>4. QED
    BY <2>2, <2>3
<1>12. CallSane' /\ PagesCover' /\ HeldIsOurs'
  <2>1. CallSane'
    BY <1>1, <1>2, <1>11 DEF IInv, CallSane, Devices
  <2>2. PagesCover'
    BY <1>11 DEF PagesCover
  <2>3. HeldIsOurs'
    BY <1>1, <1>2, <1>11 DEF IInv, HeldIsOurs, HeldAt
  <2>4. QED
    BY <2>1, <2>2, <2>3
<1>13. LengthsAgree'
  <2>1. Devices' = Devices
    BY <1>2 DEF Devices
  <2>3. ASSUME NEW i \in Devices
        PROVE  /\ host'[i] = prompt + n - (IF i <= slice THEN 0 ELSE 1)
               /\ ~conf.cpu => dev'[i] = host'[i]
    <3>1. i \in 0..MaxShards /\ i \in Nat /\ slice \in Nat
      <4>1. Devices = 0..conf.shards /\ conf.shards \in 0..MaxShards /\ slice \in 0..MaxShards
        BY <1>3
      <4>2. i \in 0..conf.shards
        BY <4>1
      <4>3. QED
        BY <4>1, <4>2
    <3>2. host[i] = prompt + n - (IF i < slice THEN 0 ELSE 1)
          /\ (~conf.cpu => dev[i] = host[i])
      BY <1>4
    <3>3. CASE i = slice
      BY <1>1, <1>3, <1>5, <1>9, <3>1, <3>3
    <3>4. CASE i # slice
      <4>1. host'[i] = host[i] /\ (~conf.cpu => dev'[i] = dev[i])
        BY <1>1, <1>3, <1>9, <3>1, <3>4
      <4>2. i < slice <=> i <= slice
        BY <3>1, <3>4
      <4>3. QED
        BY <3>2, <4>1, <4>2
    <3>5. QED
      BY <3>3, <3>4
  <2>4. ASSUME NEW i \in Devices
        PROVE  /\ pc' = "head" => host'[i] = prompt' + n' - Waiting'
               /\ pc' = "step" => host'[i] = prompt' + n' - (IF i < slice' THEN 0 ELSE 1)
    <3>1. CASE pc' = "head"
      <4>1. i <= slice
        BY <1>3, <1>11, <3>1
      <4>2. Waiting' = 0
        BY <3>1 DEF Waiting
      <4>3. QED
        BY <1>2, <2>3, <3>1, <4>1, <4>2
    <3>2. CASE pc' = "step"
      <4>1. slice' = slice + 1 /\ i \in Nat /\ slice \in Nat
        BY <1>3, <1>11, <3>2
      <4>2. i < slice' <=> i <= slice
        BY <4>1
      <4>3. QED
        BY <1>2, <2>3, <3>2, <4>2
    <3>3. QED
      BY <1>11, <3>1, <3>2
  <2>5. start' = 0 /\ (pc' = "head" => slice' = 0)
    <3>1. start = 0
      BY <1>1 DEF IInv, LengthsAgree
    <3>2. QED
      BY <1>2, <1>11, <3>1
  <2>6. QED
    BY <1>2, <1>11, <2>1, <2>3, <2>4, <2>5 DEF LengthsAgree
<1>14. dev[slice] + 1 \in Nat /\ 1 \in Nat /\ slice' \in 0..MaxShards /\ start' \in Nat
  BY <1>2, <1>3, <1>5, <1>11, NatSum
<1> HIDE DEF h
<1>15. QED
  BY <1>1, <1>2, <1>3, <1>5, <1>6, <1>7, <1>8, <1>9, <1>10, <1>11, <1>12, <1>13, <1>14,
     RowInv DEF h
(* A chunk of the prompt, where it goes and that it is not a single row    *)
(* unless the prompt has a one-row tail.                                   *)
LEMMA ChunkRows ==
    ASSUME NEW p \in Nat, NEW b \in Nat, b < p, NEW k \in 0..b, b = k * Chunk,
           NEW len, len = Min2(Chunk, p - b)
    PROVE  /\ len \in Nat /\ len >= 1 /\ b + len <= p
           /\ len = 1 => OneRowTail(p)
           /\ b + len # p => b + len = (k + 1) * Chunk /\ k + 1 \in 0..(b + len)
<1>1. Chunk \in Nat /\ Chunk >= 1 /\ p - b \in Nat /\ p - b >= 1
  OBVIOUS
<1>2. len \in Nat /\ len >= 1 /\ b + len <= p /\ (len = Chunk \/ len = p - b)
  BY <1>1 DEF Min2
<1>3. ASSUME len = 1 PROVE OneRowTail(p)
  <2>1. CASE p - b = 1
    <3>1. p = k * Chunk + 1 /\ k \in 0..p
      BY <2>1
    <3>2. QED
      BY <3>1 DEF OneRowTail
  <2>2. CASE Chunk = 1
    <3>1. p = (p - 1) * Chunk + 1 /\ p - 1 \in 0..p
      BY <2>2
    <3>2. QED
      BY <3>1 DEF OneRowTail
  <2>3. QED
    BY <1>2, <1>3, <2>1, <2>2
<1>4. ASSUME b + len # p
      PROVE  b + len = (k + 1) * Chunk /\ k + 1 \in 0..(b + len)
  <2>1. len = Chunk
    BY <1>2, <1>4
  <2>2. (k + 1) * Chunk = k * Chunk + Chunk
    BY <1>1
  <2>3. QED
    BY <1>1, <2>1, <2>2
<1>5. QED
  BY <1>2, <1>3, <1>4

(* A chunk extends the rows of the device it runs on; its last one hands   *)
(* over to the next device, or to the first token.                         *)
LEMMA ChunkInv == ASSUME IInv, PrefillChunk PROVE IInv'
<1> DEFINE len == Min2(Chunk, prompt - start)
           last == start + len = prompt
           pos == IF DevicePosition(len) THEN dev[slice] ELSE host[slice]
<1>1. /\ pc = "prefill" /\ ~conf.cpu /\ prompt <= Window /\ pages' = pages
      /\ RunLayers(slice, start + 1, len, dev[slice], nxt[slice])
      /\ host' = [host EXCEPT ![slice] = @ + len]
      /\ start' = IF last THEN 0 ELSE start + len
      /\ HandOff(last)
      /\ UNCHANGED <<call, dev, nxt, graph, held, tok, n, why, ret>>
  BY DEF PrefillChunk
<1>2. /\ conf' = conf /\ op' = op /\ prompt' = prompt /\ maxNew' = maxNew
      /\ dev' = dev /\ nxt' = nxt /\ graph' = graph
      /\ held' = held /\ tok' = tok /\ n' = n /\ why' = why /\ ret' = ret
  BY <1>1 DEF call
<1>3. /\ conf \in Conf /\ slice \in Devices /\ Devices = 0..conf.shards
      /\ conf.shards \in 0..MaxShards /\ slice \in 0..MaxShards
      /\ Devices \subseteq 0..MaxShards
      /\ host \in [0..MaxShards -> Nat] /\ dev \in [0..MaxShards -> Nat]
      /\ nxt \in [0..MaxShards -> Nat]
      /\ graph \in [0..MaxShards -> {None, GaveUp} \cup Nat]
      /\ prompt \in Nat /\ n \in Nat /\ pages \in Nat /\ start \in Nat
      /\ op \in {"transcribe", "generate"} /\ prompt > 0 /\ maxNew \in Nat
  BY <1>1, StepTypes, ConfFacts
<1>4. /\ start < prompt /\ n = 0 /\ \E k \in 0..start : start = k * Chunk
      /\ \A i \in Devices : dev[i] = 0 /\ host[i] = IF i < slice THEN prompt
                                         ELSE IF i = slice THEN start ELSE 0
  BY <1>1 DEF IInv, LengthsAgree
<1>5. PICK k \in 0..start : start = k * Chunk
  BY <1>4
<1>k. prompt \in Nat /\ start \in Nat /\ start < prompt
  BY <1>3, <1>4
<1>6. len \in Nat /\ len >= 1 /\ start + len <= prompt /\ (len = 1 => OneRowTail(prompt))
  BY <1>k, <1>5, ChunkRows
<1>m. start + len # prompt => \E j \in 0..(start + len) : start + len = j * Chunk
  BY <1>k, <1>5, ChunkRows
<1> HIDE DEF len
<1>7. host[slice] = start /\ dev[slice] = 0
  <2>1. slice \in Nat /\ ~(slice < slice)
    BY <1>3
  <2>2. QED
    BY <1>3, <1>4, <2>1
<1>8. pos \in Nat /\ (len # 1 => pos = start) /\ pos \in {0, start}
  BY <1>3, <1>7 DEF DevicePosition
<1> HIDE DEF pos
<1>9. Owned(pos + len - 1)
  <2>1. pos + len - 1 < prompt
    BY <1>k, <1>6, <1>8
  <2>2. conf.paged => prompt <= pages * PageSize
    BY <1>1 DEF IInv, PagesCover
  <2>3. pages * PageSize \in Nat /\ pos + len - 1 \in Int /\ Window \in Nat
    <3>1. pages \in Nat /\ PageSize \in Nat
      BY <1>3
    <3>2. pages * PageSize \in Nat
      BY <3>1
    <3>3. QED
      BY <1>6, <1>8, <3>2
  <2>4. pos + len - 1 < Window
    BY <1>1, <1>3, <2>1, <2>3
  <2>5. conf.paged => pos + len - 1 < pages' * PageSize
    BY <1>1, <1>3, <2>1, <2>2, <2>3
  <2>6. QED
    BY <2>4, <2>5 DEF Owned
<1>10. ~OneRowTail(prompt) =>
          pos = host[slice] /\ start + 1 = pos + 1
          /\ Attends(slice, len, nxt[slice]) = pos + len
  BY <1>6, <1>7, <1>8 DEF Attends, DevicePosition, pos
<1>11. /\ slice' = (IF last THEN IF slice = conf.shards THEN 0 ELSE slice + 1 ELSE slice)
       /\ pc' = IF last /\ slice = conf.shards THEN "first" ELSE "prefill"
       /\ slice \in Nat /\ slice <= conf.shards
       /\ slice' \in Devices /\ slice' \in 0..MaxShards /\ start' \in Nat
  <2>1. conf.shards \in Nat /\ slice \in Nat /\ slice <= conf.shards
        /\ conf.shards <= MaxShards
    BY <1>3
  <2>2. (slice + 1) % (conf.shards + 1) = IF slice = conf.shards THEN 0 ELSE slice + 1
    BY <1>3, <2>1, NextSlice
  <2>3. /\ slice' = (IF last THEN IF slice = conf.shards THEN 0 ELSE slice + 1 ELSE slice)
        /\ pc' = IF last /\ slice = conf.shards THEN "first" ELSE "prefill"
    BY <1>1, <2>2 DEF HandOff
  <2>4. slice # conf.shards => slice + 1 \in 0..conf.shards /\ slice + 1 \in 0..MaxShards
    BY <2>1
  <2>5. start' \in Nat
    BY <1>1, <1>3, <1>6, NatSum
  <2>6. 0 \in 0..conf.shards /\ 0 \in 0..MaxShards
    BY <2>1
  <2>7. QED
    BY <1>3, <2>1, <2>3, <2>4, <2>5, <2>6
<1>12. CallSane' /\ PagesCover' /\ HeldIsOurs'
  <2>1. CallSane'
    BY <1>1, <1>2, <1>11 DEF IInv, CallSane, Devices
  <2>2. PagesCover'
    BY <1>1, <1>2, <1>11 DEF IInv, PagesCover
  <2>3. HeldIsOurs'
    BY <1>1, <1>2, <1>11 DEF IInv, HeldIsOurs, HeldAt
  <2>4. QED
    BY <2>1, <2>2, <2>3
<1>13. LengthsAgree'
  <2>1. Devices' = Devices
    BY <1>2 DEF Devices
  <2>2. ASSUME NEW i \in Devices
        PROVE  host'[i] = IF i < slice THEN prompt
                          ELSE IF i = slice THEN start + len ELSE 0
    <3>1. i \in 0..MaxShards
      BY <1>3, Zenon
    <3>2. CASE i = slice
      <4>1. host'[i] = start + len /\ ~(i < slice)
        BY <1>1, <1>3, <1>7, <1>11, <3>1, <3>2
      <4>2. QED
        BY <3>2, <4>1
    <3>3. CASE i # slice
      <4>1. host'[i] = host[i]
        BY <1>1, <1>3, <3>1, <3>3
      <4>2. QED
        BY <1>4, <3>3, <4>1
    <3>4. QED
      BY <3>2, <3>3
  <2>3. CASE ~last
    <3>1. /\ pc' = "prefill" /\ slice' = slice /\ start' = start + len
          /\ start + len < prompt
      <4>1. pc' = "prefill" /\ slice' = slice /\ start' = start + len
        BY <1>1, <1>11, <2>3
      <4>2. start + len < prompt
        BY <1>k, <1>6, <2>3
      <4>3. QED
        BY <4>1, <4>2
    <3>2. \E j \in 0..start' : start' = j * Chunk
      BY <1>m, <2>3, <3>1
    <3>3. QED
      BY <1>1, <1>2, <1>4, <2>1, <2>2, <3>1, <3>2 DEF LengthsAgree
  <2>4. CASE last /\ slice # conf.shards
    <3>1. pc' = "prefill" /\ slice' = slice + 1 /\ start' = 0
      BY <1>1, <1>11, <2>4
    <3>2. 0 \in 0..0 /\ 0 = 0 * Chunk
      OBVIOUS
    <3>3. \E j \in 0..start' : start' = j * Chunk
      BY <3>1, <3>2
    <3>4. ASSUME NEW i \in Devices
          PROVE  host'[i] = IF i < slice' THEN prompt
                            ELSE IF i = slice' THEN start' ELSE 0
      <4>1. i \in Nat /\ slice \in Nat
        BY <1>3, <1>11
      <4>2. i < slice' <=> i < slice \/ i = slice
        BY <3>1, <4>1
      <4>3. QED
        BY <2>2, <2>4, <3>1, <4>1, <4>2
    <3>5. QED
      BY <1>2, <1>3, <1>4, <2>1, <3>1, <3>3, <3>4 DEF LengthsAgree
  <2>5. CASE last /\ slice = conf.shards
    <3>1. pc' = "first" /\ slice' = 0 /\ start' = 0
      BY <1>1, <1>11, <2>5
    <3>2. ASSUME NEW i \in Devices PROVE host'[i] = prompt
      <4>1. i \in Nat /\ slice \in Nat /\ i <= slice
        BY <1>3, <1>11, <2>5
      <4>2. QED
        BY <2>2, <2>5, <4>1
    <3>3. QED
      BY <1>2, <1>4, <2>1, <3>1, <3>2 DEF LengthsAgree
  <2>6. QED
    BY <2>3, <2>4, <2>5
<1>14. start + 1 \in Nat /\ dev[slice] \in Nat /\ nxt[slice] \in Nat
  BY <1>3
<1>15. pc' \in {"prefill", "first", "step", "head"} /\ pages' \in Nat
       /\ dev' \in [0..MaxShards -> Nat] /\ nxt' \in [0..MaxShards -> Nat]
       /\ graph' \in [0..MaxShards -> {None, GaveUp} \cup Nat]
  BY <1>1, <1>2, <1>3, <1>11
<1>16. /\ UNCHANGED <<call, held, tok, n, why, ret>> /\ pos \in Nat
       /\ pos = (IF DevicePosition(len) THEN dev[slice] ELSE host[slice])
       /\ RunLayers(slice, start + 1, len, dev[slice], nxt[slice])
       /\ host' = [host EXCEPT ![slice] = @ + len]
       /\ len \in Nat /\ slice \in Devices
       /\ conf.cpu \/ ~OneRowTail(prompt) =>
            pos = host[slice] /\ start + 1 = pos + 1
            /\ Attends(slice, len, nxt[slice]) = pos + len
  BY <1>1, <1>3, <1>6, <1>8, <1>10 DEF pos
<1>17. QED
  BY <1>9, <1>11, <1>12, <1>13, <1>14, <1>15, <1>16, RowInv
(* The CPU runs the whole prompt at once.                                  *)
LEMMA PrefillCpuInv == ASSUME IInv, PrefillCpu PROVE IInv'
<1>1. /\ pc = "prefill" /\ conf.cpu /\ prompt <= Window /\ pages' = pages
      /\ RunLayers(0, 1, prompt, dev[0], nxt[0])
      /\ host' = [host EXCEPT ![0] = @ + prompt] /\ pc' = "first"
      /\ UNCHANGED <<call, slice, start, dev, nxt, graph, held, tok, n, why, ret>>
  BY DEF PrefillCpu
<1>2. /\ conf' = conf /\ op' = op /\ prompt' = prompt /\ maxNew' = maxNew
      /\ dev' = dev /\ nxt' = nxt /\ graph' = graph /\ slice' = slice /\ start' = start
      /\ held' = held /\ tok' = tok /\ n' = n /\ why' = why /\ ret' = ret
  BY <1>1 DEF call
<1>3. /\ conf.shards = 0 /\ ~conf.paged /\ slice \in Devices /\ Devices = 0..conf.shards
      /\ host \in [0..MaxShards -> Nat] /\ dev \in [0..MaxShards -> Nat]
      /\ nxt \in [0..MaxShards -> Nat]
      /\ graph \in [0..MaxShards -> {None, GaveUp} \cup Nat]
      /\ prompt \in Nat /\ pages \in Nat /\ start \in Nat /\ prompt > 0
  BY <1>1, StepTypes
<1>4. slice = 0 /\ Devices = {0} /\ 0 \in 0..MaxShards
  BY <1>3
<1>5. /\ start < prompt /\ n = 0 /\ host[0] = start
      /\ \E k \in 0..start : start = k * Chunk
  <2>1. \A i \in Devices : host[i] = IF i < slice THEN prompt
                                     ELSE IF i = slice THEN start ELSE 0
    BY <1>1 DEF IInv, LengthsAgree
  <2>2. QED
    BY <1>1, <1>4, <2>1 DEF IInv, LengthsAgree
<1>6. start = 0
  BY <1>1 DEF IInv, LengthsAgree
<1>7. Owned(0 + prompt - 1)
  BY <1>1, <1>3 DEF Owned
<1>8. /\ 0 = (IF DevicePosition(prompt) THEN dev[0] ELSE host[0])
      /\ Attends(0, prompt, nxt[0]) = 0 + prompt
  BY <1>1, <1>3, <1>5, <1>6 DEF DevicePosition, Attends
<1>9. CallSane' /\ PagesCover' /\ HeldIsOurs'
  BY <1>1, <1>2 DEF IInv, CallSane, PagesCover, HeldIsOurs, HeldAt, Devices
<1>10. LengthsAgree'
  <2>1. Devices' = Devices
    BY <1>2 DEF Devices
  <2>2. host'[0] = prompt
    BY <1>1, <1>3, <1>4, <1>5, <1>6
  <2>3. QED
    BY <1>1, <1>2, <1>4, <1>5, <1>6, <2>1, <2>2 DEF LengthsAgree
<1>11. /\ 0 \in Devices /\ 1 \in Nat /\ 0 \in Nat /\ 1 = 0 + 1
       /\ dev[0] \in Nat /\ nxt[0] \in Nat /\ host[0] = 0
  BY <1>3, <1>4, <1>5, <1>6
<1>12. /\ pages' \in Nat /\ slice' \in 0..MaxShards /\ start' \in Nat
       /\ dev' \in [0..MaxShards -> Nat] /\ nxt' \in [0..MaxShards -> Nat]
       /\ graph' \in [0..MaxShards -> {None, GaveUp} \cup Nat]
  BY <1>1, <1>2, <1>3, <1>4
<1>13. UNCHANGED <<call, held, tok, n, why, ret>>
  BY <1>1
<1>14. QED
  BY <1>1, <1>3, <1>7, <1>8, <1>9, <1>10, <1>11, <1>12, <1>13, RowInv

-----------------------------------------------------------------------------
(* The specification *)

(* A call that stopped for good, and a step that is no step.               *)
LEMMA StutterInv == ASSUME IInv, UNCHANGED vars PROVE IInv'
<1>1. /\ UNCHANGED <<conf, op, prompt, maxNew, pc, slice, start, host, dev, nxt, cells,
                     att, pages, graph, held, tok, n, why, ret, stray>>
  BY DEF vars, call, lens
<1>2. TypeOK' /\ WritesAreOwned'
  BY <1>1 DEF IInv, TypeOK, WritesAreOwned, Positions
<1>3. AnswersComplete'
  BY <1>1 DEF IInv, AnswersComplete, OkMeansComplete, GenerationFits, IdleHoldsNothing,
              Devices
<1>4. CallSane' /\ LengthsAgree' /\ PagesCover'
  BY <1>1 DEF IInv, CallSane, LengthsAgree, PagesCover, Waiting, Devices
<1>5. RowsPlaced' /\ HeldIsOurs'
  BY <1>1 DEF IInv, RowsPlaced, HeldIsOurs, HeldAt, OneRowTail, Devices, Positions
<1>6. QED
  BY <1>2, <1>3, <1>4, <1>5 DEF IInv

(* Every step preserves the invariant.                                     *)
LEMMA NextInv == IInv /\ [Next]_vars => IInv'
<1> SUFFICES ASSUME IInv, [Next]_vars PROVE IInv'
  OBVIOUS
<1>1. CASE \E p \in Prompts, m \in MaxNews :
              Transcribe(p, m) \/ TranscribeCpu(p, m) \/ Generate(p, m)
  BY <1>1, CallInv
<1>2. CASE \E p \in Prompts : GenerateTooLong(p)
  BY <1>2, TooLongInv
<1>3. CASE Admit \/ BuildRows \/ EncodeCpu \/ BuildRowsCpu \/ BuildPrompt
  BY <1>3, AdmitInv, BuildInv
<1>4. CASE PrefillChunk \/ PrefillCpu \/ PrefillFails \/ FirstFails
  BY <1>4, ChunkInv, PrefillCpuInv, EarlyFailInv
<1>5. CASE \E t \in Tokens :
              FirstToken(t) \/ FirstTokenCpu(t) \/ FirstAnswer(t) \/ Head(t)
  BY <1>5, FirstInv, HeadInv
<1>6. CASE LoopEnds \/ Emit \/ Embed
  BY <1>6, LoopInv
<1>7. CASE StepCpu \/ StepDirect \/ StepReplay \/ StepGivesUp
  BY <1>7, StepInv
<1>8. CASE StepOverflows \/ StepFails \/ HeadFails \/ GrowFails
  BY <1>8, BreakInv
<1>9. CASE Finish \/ FinishCpu \/ FinishAnswer
  BY <1>9, FinishInv
<1>10. CASE Crashed \/ UNCHANGED vars
  BY <1>10, StutterInv DEF Crashed
<1>11. QED
  BY <1>1, <1>2, <1>3, <1>4, <1>5, <1>6, <1>7, <1>8, <1>9, <1>10 DEF Next

(* The invariant holds throughout, for every window, page size, chunk,     *)
(* number of devices and set of prompts.                                   *)
THEOREM Invariance == Spec => []IInv
BY InitInv, NextInv, PTL DEF Spec

(* No row of any request, with or without a one-row tail, replayed from a  *)
(* capture or not, is written past the window or outside the pages the     *)
(* request holds (vv_kv_cache_append, step_slice, graph_launch).           *)
THEOREM NoStrayWrite == Spec => [](TypeOK /\ WritesAreOwned)
<1>1. IInv => TypeOK /\ WritesAreOwned
  BY DEF IInv
<1>2. QED
  BY <1>1, Invariance, PTL

(* What a caller may rely on: an ok is a complete answer, a generation     *)
(* never meets the end of its window, and an idle context holds no pages,  *)
(* no graph and no buffer (vv_inference_transcribe, vv_inference_generate).*)
THEOREM AnswersAreComplete == Spec => []AnswersComplete
<1>1. IInv => AnswersComplete
  BY DEF IInv
<1>2. QED
  BY <1>1, Invariance, PTL

(* The cache of every device holds the sequence whenever the loop looks    *)
(* for a token, for every request but one on a device whose prompt leaves  *)
(* a single row to its last prefill chunk (vv_decoder_prefill, step_slice, *)
(* graph_capture): the disagreement of decode_tail is the only one.        *)
THEOREM OnlyTailsMisplace ==
    Spec => [](conf.cpu \/ ~OneRowTail(prompt) => CacheHoldsSequence)
<1>1. IInv => (conf.cpu \/ ~OneRowTail(prompt) => CacheHoldsSequence)
  BY DEF IInv, LengthsAgree, RowsPlaced, CacheHoldsSequence
<1>2. QED
  BY <1>1, Invariance, PTL

(* The same for a set of prompts none of which has such a tail: every row  *)
(* in its place, in memory the request holds.                              *)
THEOREM RowsStayInPlace ==
    ASSUME \A p \in Prompts : ~OneRowTail(p)
    PROVE  Spec => []RowsInPlace
<1> DEFINE Known == prompt \in Prompts \cup {0}
<1>1. Init => Known
  BY DEF Init
<1>2. Known /\ [Next]_vars => Known'
  <2> SUFFICES ASSUME Known, [Next]_vars PROVE Known'
    OBVIOUS
  <2>1. CASE \E p \in Prompts, m \in MaxNews :
                Transcribe(p, m) \/ TranscribeCpu(p, m) \/ Generate(p, m)
    BY <2>1 DEF Transcribe, TranscribeCpu, Generate, Start
  <2>2. CASE prompt' = prompt
    BY <2>2
  <2>3. QED
    BY <2>1, <2>2
    DEF Next, vars, call, GenerateTooLong, Admit, BuildRows, EncodeCpu, BuildRowsCpu,
        BuildPrompt, Advance, Fail, Stay, PrefillChunk, PrefillCpu, PrefillFails,
        FirstToken, FirstTokenCpu, FirstAnswer, FirstFails, LoopEnds, Emit, Embed,
        StepCpu, StepDirect, StepReplay, StepGivesUp, StepOverflows, StepFails,
        LoopBreaks, Head, HeadFails, GrowFails, Crashed, Finish, FinishCpu, FinishAnswer
<1>3. Known => ~OneRowTail(prompt)
  <2>1. ~OneRowTail(0)
    BY DEF OneRowTail
  <2>2. QED
    BY <2>1
<1>4. Known /\ IInv => RowsInPlace
  BY <1>3 DEF IInv, LengthsAgree, RowsPlaced, CacheHoldsSequence, RowsInPlace
<1> HIDE DEF Known
<1>5. QED
  BY <1>1, <1>2, <1>4, Invariance, PTL DEF Spec
=============================================================================
