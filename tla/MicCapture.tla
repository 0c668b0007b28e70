----------------------------- MODULE MicCapture -----------------------------
(***************************************************************************)
(* Microphone capture (src/audio/mic.c): a capture thread fills a ring,    *)
(* the caller drains it, and no lock is taken: every read and write of a   *)
(* shared field is a step of its own, in program order. That order is an   *)
(* assumption: head, tail, running and eof are volatile, the samples of    *)
(* the ring are not, and no barrier holds a sample's store before head's,  *)
(* so it is what the code gets from a compiler and a machine that keep     *)
(* stores in order (x86), not from C11. Samples are numbered as the source *)
(* delivers them.                                                          *)
(***************************************************************************)
EXTENDS Integers, Sequences

CONSTANTS Cap,       \* slots of the ring; one stays empty
          MicTotal,  \* samples a source delivers at most
          MicChunk   \* samples it delivers at once, at most

MicRing == Cap \in Nat \ {0} /\ MicTotal \in Nat /\ MicChunk \in Nat
ASSUME MicAssumption == MicRing

VARIABLES mic,       \* vv_mic_t
          capture,   \* the capture thread: pc, samples left to write, nh, a copy of tail
          caller     \* the caller: pc, a copy of tail, what vv_mic_read gave it

micVars == <<mic, capture, caller>>

Samples == 1..MicTotal
Fresh == [kind |-> "none", head |-> 0, tail |-> 0, ring |-> [i \in 0..Cap - 1 |-> 0], overruns |-> 0, captured |-> 0,
          running |-> TRUE, eof |-> FALSE, child |-> "none", handle |-> "none", held |-> TRUE]

MicInit == /\ mic = [Fresh EXCEPT !.held = FALSE]
           /\ capture = [pc |-> "none", left |-> 0, nh |-> 0, t |-> 0]
           /\ caller = [pc |-> "closed", t |-> 0, read |-> <<>>]
-----------------------------------------------------------------------------
(* vv_mic_open: ALSA if it loads, opens, takes the format and a thread     *)
(* starts; else an external recorder; vv_mic_open_file: the decoded file.  *)
(* A failed open frees what it took. The ALSA handle is closed but not     *)
(* forgotten when the thread cannot be started.                            *)
Started(m) == /\ mic' = m
              /\ capture' = [capture EXCEPT !.pc = "start"]
              /\ caller' = [caller EXCEPT !.pc = "read"]
Open ==
  /\ caller.pc = "closed"
  /\ \/ Started([Fresh EXCEPT !.kind = "alsa", !.handle = "open"])
     \/ \E h \in {"none", "closed"} : Started([Fresh EXCEPT !.kind = "pipe", !.child = "records", !.handle = h])
     \/ Started([Fresh EXCEPT !.kind = "file"])
     \/ caller' = [caller EXCEPT !.pc = "refused"] /\ UNCHANGED <<mic, capture>>
-----------------------------------------------------------------------------
(* The capture thread ends at once without a buffer for a chunk. A source  *)
(* gives a chunk, an error it recovers from or not (ALSA), or its end; a   *)
(* recorder that was terminated gives what is left in the pipe, then its   *)
(* end. `captured` counts the chunk first.                                 *)
Writes(n) == /\ capture' = [capture EXCEPT !.pc = "next", !.left = n]
             /\ mic' = [mic EXCEPT !.captured = @ + n]
Ends == capture' = [capture EXCEPT !.pc = "eof"] /\ UNCHANGED mic
Source ==
  /\ capture.pc \in {"start", "loop"}
  /\ \/ ~mic.running /\ Ends
     \/ capture.pc = "start" /\ mic.kind # "file" /\ Ends
     \/ mic.running /\ capture' = [capture EXCEPT !.pc = "source"] /\ UNCHANGED mic
  /\ UNCHANGED caller
Deliver ==
  /\ capture.pc = "source"
  /\ \/ \E n \in 1..MicChunk : mic.captured + n <= MicTotal /\ Writes(n)
     \/ mic.kind = "alsa" /\ Ends
     \/ mic.kind = "alsa" /\ capture' = [capture EXCEPT !.pc = "loop"] /\ UNCHANGED mic
     \/ mic.kind = "pipe" /\ mic.child = "ended" /\ Ends
     \/ mic.kind = "file" /\ mic.captured = MicTotal /\ Ends
  /\ UNCHANGED caller
ChildEnds ==
  /\ mic.child = "records" /\ mic' = [mic EXCEPT !.child = "ended"] /\ UNCHANGED <<capture, caller>>

(* ring_write, one sample: full when the slot after head is tail.          *)
Sample == (mic.captured - capture.left) + 1
Full(m, nh) == nh = m.tail
Compare ==
  /\ capture.pc = "next"
  /\ IF capture.left = 0 THEN capture' = [capture EXCEPT !.pc = "loop"]
     ELSE LET nh == (mic.head + 1) % Cap
          IN capture' = [capture EXCEPT !.nh = nh, !.pc = IF Full(mic, nh) THEN "full" ELSE "store"]
  /\ UNCHANGED <<mic, caller>>
DropRead ==
  /\ capture.pc = "full" /\ capture' = [capture EXCEPT !.pc = "drop", !.t = mic.tail] /\ UNCHANGED <<mic, caller>>
DropWrite ==
  /\ capture.pc = "drop"
  /\ mic' = [mic EXCEPT !.tail = (capture.t + 1) % Cap, !.overruns = @ + 1]
  /\ capture' = [capture EXCEPT !.pc = "store"] /\ UNCHANGED caller
StoreEarly(m, nh) == [m EXCEPT !.head = nh]
Stored(m, nh) == [m EXCEPT !.ring[m.head] = Sample]
Store ==
  /\ capture.pc = "store"
  /\ mic' = Stored(mic, capture.nh) /\ capture' = [capture EXCEPT !.pc = "publish"] /\ UNCHANGED caller
Publish ==
  /\ capture.pc = "publish"
  /\ mic' = [mic EXCEPT !.head = capture.nh]
  /\ capture' = [capture EXCEPT !.pc = "next", !.left = @ - 1] /\ UNCHANGED caller
Eof ==
  /\ capture.pc = "eof"
  /\ mic' = [mic EXCEPT !.eof = TRUE] /\ capture' = [capture EXCEPT !.pc = "ended"] /\ UNCHANGED caller
-----------------------------------------------------------------------------
(* vv_mic_read takes samples until the ring is empty (or dst is full), and *)
(* a caller that gets none asks vv_mic_eof. It may stop at any time.       *)
LoopRead ==
  /\ caller.pc = "read" /\ caller' = [caller EXCEPT !.pc = "head", !.t = mic.tail] /\ UNCHANGED <<mic, capture>>
LoopHead ==
  /\ caller.pc = "head"
  /\ \/ caller.t # mic.head /\ caller' = [caller EXCEPT !.pc = "take", !.t = mic.tail]
     \/ caller.t = mic.head /\ caller' = [caller EXCEPT !.pc = "ask"]
  /\ UNCHANGED <<mic, capture>>
Take ==
  /\ caller.pc = "take"
  /\ caller' = [caller EXCEPT !.pc = "advance", !.read = Append(@, mic.ring[caller.t]), !.t = mic.tail]
  /\ UNCHANGED <<mic, capture>>
Advance ==
  /\ caller.pc = "advance"
  /\ mic' = [mic EXCEPT !.tail = (caller.t + 1) % Cap]
  /\ caller' = [caller EXCEPT !.pc = "read"] /\ UNCHANGED capture
vv_mic_eof ==
  /\ caller.pc = "ask"
  /\ caller' = [caller EXCEPT !.pc = IF mic.eof THEN "empty" ELSE "read"] /\ UNCHANGED <<mic, capture>>
vv_mic_eof_empty ==
  /\ caller.pc = "empty"
  /\ caller' = [caller EXCEPT !.pc = IF mic.tail = mic.head THEN "at end" ELSE "read"] /\ UNCHANGED <<mic, capture>>

(* vv_mic_close: the recorder is told to end before the join, its stream   *)
(* closed after.                                                           *)
CloseNoTerm(m) == [m EXCEPT !.running = FALSE]
Terminated(m) == [m EXCEPT !.running = FALSE, !.child = IF @ = "none" THEN @ ELSE "ended"]
Close ==
  /\ caller.pc \in {"read", "at end"}
  /\ mic' = Terminated(mic) /\ caller' = [caller EXCEPT !.pc = "join"] /\ UNCHANGED capture
Join ==
  /\ caller.pc = "join" /\ capture.pc = "ended"
  /\ mic' = [mic EXCEPT !.child = IF @ = "none" THEN @ ELSE "reaped", !.held = FALSE,
                        !.handle = IF @ = "none" THEN @ ELSE IF @ = "open" THEN "closed" ELSE "closed twice"]
  /\ caller' = [caller EXCEPT !.pc = "done"] /\ UNCHANGED capture

MicNext == \/ Open \/ Source \/ Deliver \/ ChildEnds \/ Compare \/ DropRead \/ DropWrite \/ Store \/ Publish \/ Eof
           \/ LoopRead \/ LoopHead \/ Take \/ Advance \/ vv_mic_eof \/ vv_mic_eof_empty \/ Close \/ Join
MicSpec == MicInit /\ [][MicNext]_micVars
-----------------------------------------------------------------------------
Buffered == (mic.head - mic.tail + Cap) % Cap

(* While the caller keeps up, it reads the samples in order with none      *)
(* missing, and it is told the end only when it has all of them; a thread  *)
(* that uses the ring or the recorder's stream still has them, and a join  *)
(* never waits for a thread that reads a recorder still recording.         *)
MicLossless ==
  /\ mic.overruns = 0 => /\ caller.read = [i \in 1..Len(caller.read) |-> i]
                         /\ caller.pc = "at end" => Len(caller.read) = mic.captured
  /\ capture.pc \notin {"none", "ended"} => mic.held /\ mic.child # "reaped"
  /\ caller.pc = "join" /\ capture.pc = "source" => mic.child # "records"

(* What makes MicLossless inductive. Samples are counted as they are        *)
(* published and as they are taken; while none was dropped the two counts   *)
(* give head and tail, are less than a ring apart, and between them lie the *)
(* samples of these numbers. Room found by the capture thread and a sample  *)
(* found by the caller are still there when they are used.                  *)
MicRec == [kind : {"none", "alsa", "pipe", "file"}, head : 0..Cap - 1, tail : 0..Cap - 1, ring : [0..Cap - 1 -> Nat],
           overruns : Nat, captured : Nat, running : BOOLEAN, eof : BOOLEAN, held : BOOLEAN,
           child : {"none", "records", "ended", "reaped"}, handle : {"none", "open", "closed", "closed twice"}]
CaptureRec == [pc : {"none", "start", "loop", "source", "next", "full", "drop", "store", "publish", "eof", "ended"},
               left : Nat, nh : 0..Cap - 1, t : 0..Cap - 1]
CallerRec == [pc : {"closed", "refused", "read", "head", "take", "advance", "ask", "empty", "at end", "join", "done"},
              t : 0..Cap - 1, read : Seq(Nat)]
MicTypeOK == mic \in MicRec /\ capture \in CaptureRec /\ caller \in CallerRec

Published == mic.captured - capture.left
Taken == IF caller.pc = "advance" THEN Len(caller.read) - 1 ELSE Len(caller.read)

MicLeft ==
  /\ capture.left <= mic.captured
  /\ capture.pc \in {"none", "start", "loop", "source", "eof", "ended"} => capture.left = 0
  /\ capture.pc \in {"full", "drop", "store", "publish"} => capture.left > 0
  /\ caller.pc = "closed" => caller.read = <<>>
  /\ caller.pc = "advance" => caller.read # <<>>

MicThreads ==
  /\ capture.pc = "none" <=> caller.pc \in {"closed", "refused"}
  /\ caller.pc = "done" => capture.pc = "ended"
  /\ mic.eof => capture.pc = "ended"
  /\ caller.pc \in {"empty", "at end"} => mic.eof
  /\ caller.pc \notin {"closed", "refused", "done"} => mic.held /\ mic.child # "reaped"
  /\ caller.pc = "join" => mic.child # "records"

MicInOrder ==
  mic.overruns = 0 =>
    /\ mic.head = Published % Cap /\ mic.tail = Taken % Cap
    /\ Taken <= Published /\ Published < Taken + Cap
    /\ \A i \in Taken..Published - 1 : mic.ring[i % Cap] = i + 1
    /\ capture.pc \in {"store", "publish"} => capture.nh = (Published + 1) % Cap /\ Published + 1 < Taken + Cap
    /\ capture.pc = "publish" => mic.ring[mic.head] = Published + 1
    /\ caller.pc \in {"head", "take", "advance"} => caller.t = mic.tail
    /\ caller.pc \in {"take", "advance"} => Taken < Published
    /\ \A i \in 1..Len(caller.read) : caller.read[i] = i
    /\ caller.pc = "at end" => Taken = Published
MicInv == MicTypeOK /\ MicLeft /\ MicThreads /\ MicInOrder
=============================================================================
