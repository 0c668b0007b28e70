-------------------------------- MODULE Vad --------------------------------
(***************************************************************************)
(* The segmenter of the live chat (src/audio/vad.c), with the caller's     *)
(* loop: push, drain until there is no segment, flush at the end. Samples  *)
(* are numbered. A frame's level is above the opening threshold, below the *)
(* closing one or between; the tracked noise floor only moves the          *)
(* thresholds, so any frame may be any of the three. Memory runs out once  *)
(* at most, a bound.                                                       *)
(***************************************************************************)
EXTENDS Integers, Sequences, FiniteSetsExt, Functions

CONSTANTS Frame,           \* samples of a frame
          PreCap,          \* pre_cap
          MinSpeech, Hangover, MaxSeg,
          Sizes, MaxIn     \* sizes of a push, samples pushed at most

ASSUME VadAssumption ==
  /\ Frame \in Nat \ {0} /\ PreCap \in Nat \ {0}
  /\ MinSpeech \in Int /\ Hangover \in Int /\ MaxSeg \in Int
  /\ Sizes \subseteq Nat /\ MaxIn \in Nat

VARIABLES vad,             \* vv_vad_t: in (from in_pos on), acc, pre, seg, active, runs
          segs,            \* the segments handed out
          feeder           \* the caller: next push, or draining; samples pushed; all memory was there

vadVars == <<vad, segs, feeder>>

vv_vad_create == [in |-> <<>>, acc |-> <<>>, pre |-> <<>>, seg |-> <<>>, active |-> FALSE, silence |-> 0, speech |-> 0]
VadInit == /\ vad = vv_vad_create
           /\ segs = <<>>
           /\ feeder = [pc |-> "push", given |-> 0, memory |-> TRUE]

LastOf(s, n) == SubSeq(s, Max({1, Len(s) - n + 1}), Len(s))
AllRoom == {"pre-roll", "frame"}
pre_push(v, f) == [v EXCEPT !.pre = LastOf(@ \o f, PreCap)]
PreDrainKeeps(v, room) == IF "pre-roll" \in room THEN [v EXCEPT !.seg = @ \o v.pre] ELSE v
pre_drain(v, room) == IF "pre-roll" \in room THEN [v EXCEPT !.seg = @ \o v.pre, !.pre = <<>>] ELSE v

(* Results of process_frame: the new state and whether the segment closes. *)
(* The opening frame is in the pre-roll and appended again. What there is  *)
(* no room for (seg_reserve) is left out.                                  *)
Add(v, f, room) == IF "frame" \in room THEN [v EXCEPT !.seg = @ \o f] ELSE v
Opened(v, f, room) ==
  IF v.speech >= MinSpeech THEN Add(pre_drain([v EXCEPT !.active = TRUE, !.silence = 0], room), f, room) ELSE v
Waiting(v, f, level, room) ==
  LET p == pre_push(v, f)
  IN IF level = "above" THEN Opened([p EXCEPT !.speech = @ + Frame], f, room) ELSE [p EXCEPT !.speech = 0]
Speaking(v, f, level, room) ==
  [Add(v, f, room) EXCEPT !.silence = IF level = "below" THEN @ + Frame ELSE 0]
Closes(v, level) == (level = "below" /\ v.silence >= Hangover) \/ Len(v.seg) >= MaxSeg
process_frame(v, f, level, room) ==
  IF ~v.active THEN [v |-> Waiting(v, f, level, room), closed |-> FALSE]
  ELSE LET s == Speaking(v, f, level, room) IN [v |-> s, closed |-> Closes(s, level)]

(* emit: an empty segment only ends the speech.                            *)
emit(v) ==
  IF v.seg = <<>> THEN [v EXCEPT !.active = FALSE]
  ELSE [v EXCEPT !.seg = <<>>, !.active = FALSE, !.silence = 0, !.speech = 0]
Handed(v) == IF v.seg = <<>> THEN segs ELSE Append(segs, v.seg)

(* drain, one turn: samples move from the FIFO to the frame; a whole frame *)
(* is processed, and a segment that closes ends the call.                  *)
TakenIn(v) ==
  LET take == Min({Frame - Len(v.acc), Len(v.in)})
  IN [v EXCEPT !.acc = @ \o SubSeq(v.in, 1, take), !.in = SubSeq(@, take + 1, Len(@))]
drain ==
  /\ feeder.pc = "drain" /\ vad.in # <<>>
  /\ LET v == TakenIn(vad)
     IN IF Len(v.acc) < Frame THEN vad' = v /\ UNCHANGED <<segs, feeder>>
        ELSE \E level \in {"above", "between", "below"}, room \in IF feeder.memory THEN SUBSET AllRoom ELSE {AllRoom} :
               LET r == process_frame([v EXCEPT !.acc = <<>>], v.acc, level, room)
               IN /\ vad' = IF r.closed THEN emit(r.v) ELSE r.v
                  /\ segs' = IF r.closed THEN Handed(r.v) ELSE segs
                  /\ feeder' = [feeder EXCEPT !.memory = @ /\ room = AllRoom]
vv_vad_drain == feeder.pc = "drain" /\ vad.in = <<>> /\ feeder' = [feeder EXCEPT !.pc = "push"] /\ UNCHANGED <<vad, segs>>
vv_vad_push(n) ==
  /\ feeder.pc = "push" /\ feeder.given + n <= MaxIn
  /\ \/ /\ vad' = [vad EXCEPT !.in = @ \o [i \in 1..n |-> feeder.given + i]]
        /\ feeder' = [feeder EXCEPT !.pc = "drain", !.given = @ + n]
     \/ feeder.memory /\ feeder' = [feeder EXCEPT !.given = @ + n, !.memory = FALSE] /\ UNCHANGED vad
  /\ UNCHANGED segs
vv_vad_flush ==
  /\ feeder.pc = "push"
  /\ \E room \in {TRUE, ~feeder.memory} :
       LET v == [vad EXCEPT !.seg = IF vad.active /\ room THEN @ \o vad.acc ELSE @, !.acc = <<>>]
       IN /\ segs' = Handed(v)
          /\ vad' = IF v.seg = <<>> THEN v ELSE emit(v)
          /\ feeder' = [feeder EXCEPT !.pc = "done", !.memory = @ /\ room]

VadNext == drain \/ vv_vad_drain \/ vv_vad_flush \/ \E n \in Sizes : vv_vad_push(n)
VadSpec == VadInit /\ [][VadNext]_vadVars
-----------------------------------------------------------------------------
\* A pre-roll of n samples that ends with the frame that opened the segment,
\* that frame once more, and every sample behind it: the last sample of the
\* opening frame is opened, and what was handed out before ends at end.
Segment(s, end) ==
  \E n \in 1..PreCap :
    /\ n + Frame <= Len(s)
    /\ LET opened == s[n]
       IN /\ \A i \in 1..Len(s) : s[i] = (opened - n) + (IF i <= n THEN i ELSE i - Frame)
          /\ end <= opened - n /\ end <= opened - Frame
          /\ n < PreCap => opened - n = end

\* Where segment k of ss ends; the input begins at 0.
EndOf(ss, k) == IF k = 0 THEN 0 ELSE ss[k][Len(ss[k])]
Longest == Max({MaxSeg + Frame, PreCap + 2 * Frame})

(* Unless memory ran out, every segment is its pre-roll and then every     *)
(* sample from the opening frame on, in order, the opening frame twice and *)
(* nothing else: the pre-roll is full or reaches back to the segment       *)
(* before, which it never enters, and no segment is longer than the cut, a *)
(* frame and the opening allow, however the input was cut into pushes      *)
(* (process_frame, emit, pre_drain).                                       *)
SegmentsInOrder ==
  feeder.memory =>
    /\ \A i \in DOMAIN segs : Segment(segs[i], EndOf(segs, i - 1)) /\ Len(segs[i]) <= Longest
    /\ vad.seg # <<>> => Segment(vad.seg, EndOf(segs, Len(segs)))
-----------------------------------------------------------------------------
(* What makes SegmentsInOrder inductive: where every sample that was pushed*)
(* is now.                                                                 *)

VadStates == [in : Seq(Int), acc : Seq(Int), pre : Seq(Int), seg : Seq(Int), active : BOOLEAN, silence : Int, speech : Int]

VadTypes ==
  /\ feeder \in [pc : {"push", "drain", "done"}, given : Nat, memory : BOOLEAN]
  /\ vad \in VadStates /\ Len(vad.acc) < Frame /\ segs \in Seq(Seq(Int))

\* s is the samples behind number from.
Stretch(s, from) == s = [i \in 1..Len(s) |-> from + i]

\* How far the frames have got.
Processed == feeder.given - (Len(vad.in) + Len(vad.acc))

\* FIFO and frame follow on one another up to the last push.
InputHeld ==
  /\ Stretch(vad.in, feeder.given - Len(vad.in)) /\ Stretch(vad.acc, Processed)
  /\ feeder.pc = "push" => vad.in = <<>>

\* With the frames at p and the segments at end: the pre-roll and a segment
\* under way end at p, and the segment has taken the pre-roll.
PreHeld(s, p, end) ==
  /\ Stretch(s, p - Len(s)) /\ Len(s) <= PreCap /\ end <= p - Len(s)
  /\ Len(s) < PreCap => Len(s) = p - end
SegHeld(s, p, end) ==
  /\ Segment(s, end) /\ s[Len(s)] = p
  /\ Len(s) <= PreCap + Frame \/ Len(s) < MaxSeg
HeldAt(v, p, end) ==
  /\ v.active => v.pre = <<>> /\ SegHeld(v.seg, p, end)
  /\ ~v.active => v.seg = <<>> /\ PreHeld(v.pre, p, end)

SegsKept(ss) == \A i \in DOMAIN ss : Segment(ss[i], EndOf(ss, i - 1)) /\ Len(ss[i]) <= Longest

VadInv ==
  /\ VadTypes
  /\ feeder.memory => SegsKept(segs)
  /\ feeder.memory /\ feeder.pc = "done" => vad.seg = <<>>
  /\ feeder.memory /\ feeder.pc # "done" => InputHeld /\ HeldAt(vad, Processed, EndOf(segs, Len(segs)))
=============================================================================
