----------------------------- MODULE Resampler -----------------------------
(***************************************************************************)
(* The resampler (src/audio/resample.c), whole-file and streaming. Samples *)
(* are numbered in the order they are taken in; an output is the taps it   *)
(* reads, since its weights depend only on its index and on which taps     *)
(* there are. Positions are exact here: the code computes them in doubles, *)
(* by one expression everywhere.                                           *)
(***************************************************************************)
EXTENDS Integers, Sequences, FiniteSetsExt

CONSTANTS Rates,           \* pairs <<in_sr, out_sr>>
          HalfWidth,       \* SINC_HALF_WIDTH
          Pushes,          \* sizes of a push
          MaxGiven         \* samples a stream is given at most

ASSUME RatesAssumption ==
  /\ Rates \subseteq (Nat \ {0}) \X (Nat \ {0})
  /\ HalfWidth \in Nat /\ Pushes \subseteq Nat /\ MaxGiven \in Nat

VARIABLES rs, made         \* vv_resampler_t, with the last call's status; the outputs handed to the caller

resampleVars == <<rs, made>>

Pos(i) == (i * rs.in) \div rs.out

(* resample_one, output i of an input that ends at in_len: the samples     *)
(* buf[base + 1], ... it multiplies, 0 for one read outside of buf.        *)
resample_one(buf, base, in_len, i) ==
  [idx \in Max({0, Pos(i) - HalfWidth})..Min({in_len - 1, Pos(i) + HalfWidth}) |->
     IF idx - base + 1 \in DOMAIN buf THEN buf[idx - base + 1] ELSE 0]
Whole(len) == [i \in 1..len |-> i]
n_out(len) == ((len * rs.out) \div rs.in) + 1
vv_audio_resample(len) ==
  IF rs.in = rs.out THEN Whole(len) ELSE [i \in 1..n_out(len) |-> resample_one(Whole(len), 0, len, i - 1)]

vv_resampler_create ==
  /\ rs \in {[in |-> r[1], out |-> r[2], buf |-> <<>>, base |-> 0, next |-> 0, given |-> 0, finished |-> FALSE, ok |-> TRUE] : r \in Rates}
  /\ made = <<>>

(* rs_emit: the outputs up to limit, then the input no later output reads  *)
(* is dropped. Without room for the outputs nothing is made or dropped.    *)
KeepFrom(next) == Pos(next) - HalfWidth - 1
Dropped(r, next) ==
  LET drop == Min({Len(r.buf), Max({0, KeepFrom(next) - r.base})})
  IN [r EXCEPT !.buf = SubSeq(@, drop + 1, Len(@)), !.base = @ + drop, !.next = next]
rs_emit(r, limit, in_len) ==
  \/ limit <= r.next /\ rs' = [r EXCEPT !.ok = TRUE] /\ UNCHANGED made
  \/ /\ limit > r.next /\ rs' = [Dropped(r, limit) EXCEPT !.ok = TRUE]
     /\ made' = made \o [k \in 1..(limit - r.next) |-> resample_one(r.buf, r.base, in_len, (r.next + k) - 1)]
  \/ limit > r.next /\ rs' = [r EXCEPT !.ok = FALSE] /\ UNCHANGED made

(* An output is final once every tap it reads has arrived.                 *)
FinalEarly(i, have) == Pos(i) + HalfWidth <= have
Final(i, have) == Pos(i) + HalfWidth < have
Limit(next, have) == Min({i \in next..(n_out(have) + 1) : ~Final(i, have)})
\* Without room for the input (at equal rates, for the outputs) a push leaves
\* no trace: its samples are lost, where a push that only had no room for its
\* outputs has taken them in. Both return the same status.
NoRoom == rs' = [rs EXCEPT !.ok = FALSE] /\ UNCHANGED made
TakeIn(n) ==
  LET more == [i \in 1..n |-> rs.given + i]
      r == [rs EXCEPT !.buf = @ \o more, !.given = @ + n]
      have == rs.base + Len(r.buf)
  IN IF rs.in = rs.out THEN rs' = [rs EXCEPT !.given = @ + n, !.ok = TRUE] /\ made' = made \o more
     ELSE rs_emit(r, Limit(rs.next, have), have)
vv_resampler_push(n) == ~rs.finished /\ rs.given + n <= MaxGiven /\ (NoRoom \/ TakeIn(n))
vv_resampler_finish ==
  LET in_len == rs.base + Len(rs.buf) IN
  /\ ~rs.finished
  /\ IF rs.in = rs.out \/ in_len = 0 THEN rs' = [rs EXCEPT !.finished = TRUE, !.ok = TRUE] /\ UNCHANGED made
     ELSE rs_emit([rs EXCEPT !.finished = TRUE], n_out(in_len), in_len)

ResampleInit == vv_resampler_create
ResampleNext == vv_resampler_finish \/ \E n \in Pushes : vv_resampler_push(n)
ResampleSpec == ResampleInit /\ [][ResampleNext]_resampleVars
-----------------------------------------------------------------------------
(* However the input is cut into pushes, and whichever of them found no    *)
(* memory, a stream that finished well has made sample for sample what one *)
(* whole-file call makes of the input it took in: no output was made before*)
(* its taps arrived, and none read a sample that had been dropped.         *)
StreamIsBatch == rs.finished /\ rs.ok => IF rs.given = 0 THEN made = <<>> ELSE made = vv_audio_resample(rs.given)

(* What the pushes keep: the buffer is the input from base on, no output   *)
(* that is still to be made reads in front of it, and the outputs made are *)
(* those of the input so far, which no later sample changes.               *)
Resamplers == [in : Nat \ {0}, out : Nat \ {0}, buf : Seq(Nat), base : Nat, next : Nat, given : Nat, finished : BOOLEAN, ok : BOOLEAN]
BufferHeld(r) ==
  /\ r.base + Len(r.buf) = r.given /\ \A k \in 1..Len(r.buf) : r.buf[k] = r.base + k
  /\ r.base = 0 \/ r.base <= KeepFrom(r.next)
OutputsOf(next, len) == [i \in 1..next |-> resample_one(Whole(len), 0, len, i - 1)]
ResampleInv ==
  /\ rs \in Resamplers
  /\ rs.in = rs.out => made = Whole(rs.given)
  /\ rs.in # rs.out =>
       /\ BufferHeld(rs) /\ made = OutputsOf(rs.next, rs.given)
       /\ rs.finished \/ \A i \in 0..(rs.next - 1) : Final(i, rs.given)
       /\ rs.finished /\ rs.ok => rs.next = IF rs.given = 0 THEN 0 ELSE n_out(rs.given)
=============================================================================
