---------------------------- MODULE StreamProofs ----------------------------
(***************************************************************************)
(* Proofs about the segmenter, for every size of frame, pre-roll and cut   *)
(* and every way to cut its input, and about StreamSession, for every      *)
(* geometry, cache size, token cap and batch size.                         *)
(***************************************************************************)
EXTENDS StreamSession, Vad, SequenceTheorems, TLAPS
-----------------------------------------------------------------------------
(***************************************************************************)
(* The segmenter (Vad). As long as memory was there it is known where every*)
(* sample that was pushed is: the FIFO and the frame under way hold the    *)
(* last of them, the pre-roll and a segment under way end where the frames *)
(* have got, and the pre-roll never reaches into what was handed out.      *)
(***************************************************************************)

LEMMA MaxOfTwo ==
    ASSUME NEW a \in Int, NEW b \in Int
    PROVE  Max({a, b}) = IF a >= b THEN a ELSE b
<1>1. \E x \in {a, b} : \A y \in {a, b} : x >= y
  OBVIOUS
<1>2. Max({a, b}) \in {a, b} /\ \A y \in {a, b} : Max({a, b}) >= y
  BY <1>1 DEF Max
<1>3. QED
  BY <1>2

LEMMA MinOfTwo ==
    ASSUME NEW a \in Int, NEW b \in Int
    PROVE  Min({a, b}) = IF a <= b THEN a ELSE b
<1>1. \E x \in {a, b} : \A y \in {a, b} : x <= y
  OBVIOUS
<1>2. Min({a, b}) \in {a, b} /\ \A y \in {a, b} : Min({a, b}) <= y
  BY <1>1 DEF Min
<1>3. QED
  BY <1>2

LEMMA StretchOf ==
    ASSUME NEW s \in Seq(Int), NEW a \in Int
    PROVE  Stretch(s, a) <=> \A i \in 1..Len(s) : s[i] = a + i
  BY DEF Stretch

LEMMA StretchCat ==
    ASSUME NEW s \in Seq(Int), NEW t \in Seq(Int), NEW a \in Int, Stretch(s, a), Stretch(t, a + Len(s))
    PROVE  s \o t \in Seq(Int) /\ Len(s \o t) = Len(s) + Len(t) /\ Stretch(s \o t, a)
<1>1. s \o t \in Seq(Int) /\ Len(s \o t) = Len(s) + Len(t)
  OBVIOUS
<1>2. \A i \in 1..Len(s) : s[i] = a + i
  BY StretchOf
<1>3. \A i \in 1..Len(t) : t[i] = (a + Len(s)) + i
  BY StretchOf
<1>4. ASSUME NEW i \in 1..Len(s \o t) PROVE (s \o t)[i] = a + i
  <2>1. CASE i <= Len(s)
    BY <1>1, <1>2, <2>1
  <2>2. CASE i > Len(s)
    <3>1. i - Len(s) \in 1..Len(t) /\ (s \o t)[i] = t[i - Len(s)]
      BY <1>1, <2>2
    <3>2. QED
      BY <1>3, <3>1
  <2>3. QED
    BY <2>1, <2>2
<1>5. QED
  BY <1>1, <1>4, StretchOf

LEMMA StretchSub ==
    ASSUME NEW s \in Seq(Int), NEW a \in Int, Stretch(s, a), NEW m \in 1..(Len(s) + 1), NEW n \in (m - 1)..Len(s)
    PROVE  /\ SubSeq(s, m, n) \in Seq(Int) /\ Len(SubSeq(s, m, n)) = n - m + 1
           /\ Stretch(SubSeq(s, m, n), a + (m - 1))
<1>1. SubSeq(s, m, n) \in Seq(Int) /\ Len(SubSeq(s, m, n)) = n - m + 1
      /\ \A i \in 1..(n - m + 1) : SubSeq(s, m, n)[i] = s[m + i - 1]
  BY SubSeqProperties
<1>2. \A i \in 1..Len(s) : s[i] = a + i
  BY StretchOf
<1>3. \A i \in 1..(n - m + 1) : SubSeq(s, m, n)[i] = (a + (m - 1)) + i
  BY <1>1, <1>2
<1> DEFINE t == SubSeq(s, m, n)
<1>4. t \in Seq(Int) /\ Len(t) = n - m + 1 /\ \A i \in 1..(n - m + 1) : t[i] = (a + (m - 1)) + i
  BY <1>1, <1>3, Zenon
<1>a. a + (m - 1) \in Int
  OBVIOUS
<1> HIDE DEF t
<1>b. \A i \in 1..Len(t) : t[i] = (a + (m - 1)) + i
  BY <1>4
<1>5. Stretch(t, a + (m - 1))
  BY <1>4, <1>a, <1>b, StretchOf
<1>6. QED
  BY <1>1, <1>5 DEF t

LEMMA StretchEmpty == ASSUME NEW a \in Int PROVE <<>> \in Seq(Int) /\ Stretch(<<>>, a)
<1>1. <<>> \in Seq(Int) /\ Len(<<>>) = 0
  OBVIOUS
<1>2. \A i \in 1..Len(<<>>) : <<>>[i] = a + i
  BY <1>1
<1>3. QED
  BY <1>1, <1>2, StretchOf

(* The pre-roll keeps the last PreCap samples.                             *)
LEMMA LastOfStretch ==
    ASSUME NEW s \in Seq(Int), NEW n \in Nat, NEW p \in Int, Stretch(s, p - Len(s))
    PROVE  /\ LastOf(s, n) \in Seq(Int) /\ Len(LastOf(s, n)) <= n /\ Len(LastOf(s, n)) <= Len(s)
           /\ Len(LastOf(s, n)) = IF Len(s) <= n THEN Len(s) ELSE n
           /\ Stretch(LastOf(s, n), p - Len(LastOf(s, n)))
<1> DEFINE m == IF Len(s) <= n THEN 1 ELSE Len(s) - n + 1
<1>1. Max({1, Len(s) - n + 1}) = IF 1 >= Len(s) - n + 1 THEN 1 ELSE Len(s) - n + 1
  BY MaxOfTwo
<1>2. Max({1, Len(s) - n + 1}) = m
  BY <1>1
<1>3. LastOf(s, n) = SubSeq(s, m, Len(s))
  BY <1>2 DEF LastOf
<1>4. m \in 1..(Len(s) + 1) /\ Len(s) \in (m - 1)..Len(s)
  OBVIOUS
<1>5. p - Len(s) \in Int
  OBVIOUS
<1> HIDE DEF m
<1>6. /\ LastOf(s, n) \in Seq(Int) /\ Len(LastOf(s, n)) = Len(s) - m + 1
      /\ Stretch(LastOf(s, n), (p - Len(s)) + (m - 1))
  BY <1>3, <1>4, <1>5, StretchSub
<1>7. (p - Len(s)) + (m - 1) = p - Len(LastOf(s, n))
  BY <1>4, <1>6
<1>8. QED
  BY <1>6, <1>7 DEF m

(* A segment opens with the pre-roll and the frame it ends with.           *)
LEMMA SegmentOpens ==
    ASSUME NEW e \in Seq(Int), NEW f \in Seq(Int), NEW q \in Int, NEW end \in Int,
           PreHeld(e, q, end), Len(e) >= 1, Len(f) = Frame, Stretch(f, q - Frame), end <= q - Frame
    PROVE  SegHeld(e \o f, q, end)
<1> DEFINE n == Len(e)
           s == e \o f
<1>1. Frame \in Nat /\ Frame >= 1 /\ PreCap \in Nat /\ n \in Nat /\ n >= 1 /\ n <= PreCap
  BY VadAssumption DEF PreHeld
<1>2. \A i \in 1..n : e[i] = (q - n) + i
  BY <1>1, StretchOf DEF PreHeld
<1>3. \A i \in 1..Frame : f[i] = (q - Frame) + i
  <2>1. q - Frame \in Int
    BY <1>1
  <2>2. \A i \in 1..Len(f) : f[i] = (q - Frame) + i
    BY <2>1, StretchOf
  <2>3. QED
    BY <2>2
<1>4. Len(s) = n + Frame /\ (\A i \in 1..n : s[i] = e[i]) /\ (\A i \in (n + 1)..(n + Frame) : s[i] = f[i - n])
  <2>1. Len(s) = Len(e) + Len(f)
    OBVIOUS
  <2>2. \A i \in 1..Len(e) : (e \o f)[i] = e[i]
    OBVIOUS
  <2>3. \A i \in (Len(e) + 1)..(Len(e) + Len(f)) : (e \o f)[i] = f[i - Len(e)]
    OBVIOUS
  <2>4. QED
    BY <2>1, <2>2, <2>3
<1>5. end <= q - n /\ (n < PreCap => q - n = end)
  BY <1>1 DEF PreHeld
<1> HIDE DEF n, s
<1>6. s[n] = q
  BY <1>1, <1>2, <1>4
<1>7. ASSUME NEW i \in 1..Len(s) PROVE s[i] = (q - n) + (IF i <= n THEN i ELSE i - Frame)
  <2>1. CASE i <= n
    BY <1>1, <1>2, <1>4, <2>1
  <2>2. CASE i > n
    <3>1. i - n \in 1..Frame /\ i \in (n + 1)..(n + Frame)
      BY <1>1, <1>4, <2>2
    <3>2. s[i] = (q - Frame) + (i - n)
      BY <1>3, <1>4, <3>1
    <3>3. QED
      BY <1>1, <2>2, <3>2
  <2>3. QED
    BY <1>1, <2>1, <2>2
<1>8. Segment(s, end)
  <2>1. n \in 1..PreCap /\ n + Frame <= Len(s)
    BY <1>1, <1>4
  <2>2. QED
    BY <1>5, <1>6, <1>7, <2>1 DEF Segment
<1>9. s[Len(s)] = q
  <2>1. Len(s) \in 1..Len(s) /\ ~(Len(s) <= n)
    BY <1>1, <1>4
  <2>2. s[Len(s)] = (q - n) + (Len(s) - Frame)
    BY <1>7, <2>1
  <2>3. QED
    BY <1>1, <1>4, <2>2
<1>10. Len(s) <= PreCap + Frame
  BY <1>1, <1>4
<1>11. QED
  BY <1>8, <1>9, <1>10 DEF SegHeld, s

(* It goes on with the samples behind its last.                            *)
LEMMA SegmentGrows ==
    ASSUME NEW s \in Seq(Int), NEW f \in Seq(Int), NEW p \in Int, NEW end \in Int,
           Segment(s, end), s[Len(s)] = p, Stretch(f, p)
    PROVE  Segment(s \o f, end) /\ (s \o f)[Len(s \o f)] = p + Len(f) /\ Len(s \o f) = Len(s) + Len(f)
<1> DEFINE k == Len(s)
           m == Len(f)
           t == s \o f
<1>1. PICK n \in 1..PreCap :
        /\ n + Frame <= k
        /\ \A i \in 1..k : s[i] = (s[n] - n) + (IF i <= n THEN i ELSE i - Frame)
        /\ end <= s[n] - n /\ end <= s[n] - Frame
        /\ n < PreCap => s[n] - n = end
  BY DEF Segment
<1>a. k \in Nat /\ m \in Nat
  OBVIOUS
<1>b. n + Frame <= k
  BY <1>1
<1>c. Frame \in Nat /\ Frame >= 1 /\ n \in Nat /\ n >= 1
  BY VadAssumption
<1>2. Frame \in Nat /\ Frame >= 1 /\ n \in Nat /\ n >= 1 /\ k \in Nat /\ m \in Nat /\ n < k
  <2> HIDE DEF k, m
  <2> QED
    BY <1>a, <1>b, <1>c
<1>3. Len(t) = k + m /\ (\A i \in 1..k : t[i] = s[i]) /\ (\A i \in (k + 1)..(k + m) : t[i] = f[i - k])
  <2>1. Len(t) = Len(s) + Len(f)
    OBVIOUS
  <2>2. \A i \in 1..Len(s) : (s \o f)[i] = s[i]
    OBVIOUS
  <2>3. \A i \in (Len(s) + 1)..(Len(s) + Len(f)) : (s \o f)[i] = f[i - Len(s)]
    OBVIOUS
  <2>4. QED
    BY <2>1, <2>2, <2>3
<1>4. \A i \in 1..m : f[i] = p + i
  BY StretchOf
<1>5. s[n] \in Int /\ s[k] = p
  BY <1>2
<1> HIDE DEF k, m, t
<1>6. p = (s[n] - n) + (k - Frame)
  <2>1. k \in 1..k /\ ~(k <= n)
    BY <1>2
  <2>2. QED
    BY <1>1, <1>5, <2>1
<1>7. t[n] = s[n]
  BY <1>2, <1>3
<1>8. ASSUME NEW i \in 1..Len(t) PROVE t[i] = (t[n] - n) + (IF i <= n THEN i ELSE i - Frame)
  <2>1. CASE i <= k
    <3>1. i \in 1..k /\ t[i] = s[i]
      BY <1>2, <1>3, <2>1
    <3>2. QED
      BY <1>1, <1>7, <3>1
  <2>2. CASE i > k
    <3>1. i - k \in 1..m /\ i \in (k + 1)..(k + m)
      BY <1>2, <1>3, <2>2
    <3>2. t[i] = p + (i - k)
      BY <1>3, <1>4, <3>1
    <3>3. ~(i <= n) /\ i \in Int
      BY <1>2, <2>2
    <3>4. QED
      BY <1>2, <1>5, <1>6, <1>7, <3>2, <3>3
  <2>3. QED
    BY <1>2, <2>1, <2>2
<1>9. Segment(t, end)
  <2>1. n + Frame <= Len(t)
    BY <1>1, <1>2, <1>3
  <2>2. QED
    BY <1>1, <1>7, <1>8, <2>1 DEF Segment
<1>10. t[Len(t)] = p + m
  <2>1. CASE m = 0
    BY <1>2, <1>3, <1>5, <2>1
  <2>2. CASE m # 0
    <3>1. k + m \in (k + 1)..(k + m) /\ m \in 1..m /\ (k + m) - k = m
      BY <1>2, <2>2
    <3>2. QED
      BY <1>3, <1>4, <3>1
  <2>3. QED
    BY <2>1, <2>2
<1>11. QED
  BY <1>3, <1>9, <1>10 DEF k, m, t

LEMMA SegmentThere ==
    ASSUME NEW s \in Seq(Int), NEW end, Segment(s, end)
    PROVE  s # <<>> /\ Len(s) >= 1 /\ s[Len(s)] \in Int
<1>1. PICK n \in 1..PreCap : n + Frame <= Len(s)
  BY DEF Segment
<1>2. Len(s) >= 1
  BY <1>1, VadAssumption
<1>3. QED
  BY <1>2

(* What a frame does to the state, whatever memory there is.               *)
LEMMA PrePushIs ==
    ASSUME NEW v \in VadStates, NEW f \in Seq(Int)
    PROVE  /\ pre_push(v, f) \in VadStates /\ pre_push(v, f) = [v EXCEPT !.pre = LastOf(v.pre \o f, PreCap)]
           /\ LastOf(v.pre \o f, PreCap) \in Seq(Int)
<1>1. v.pre \o f \in Seq(Int)
  BY DEF VadStates
<1> DEFINE s == v.pre \o f
           m == Max({1, Len(s) - PreCap + 1})
<1>2. Len(s) \in Nat /\ PreCap \in Nat
  BY <1>1, VadAssumption
<1>3. m \in Int /\ m >= 1
  BY <1>2, MaxOfTwo
<1> HIDE DEF s, m
<1>4. SubSeq(s, m, Len(s)) \in Seq(Int)
  BY <1>1, <1>2, <1>3, SubSeqProperties DEF s
<1>5. LastOf(v.pre \o f, PreCap) \in Seq(Int)
  BY <1>4 DEF LastOf, s, m
<1>6. QED
  BY <1>5 DEF pre_push, VadStates

LEMMA RunsSet ==
    ASSUME NEW v \in VadStates, NEW b \in BOOLEAN, NEW m \in Int, NEW n \in Int
    PROVE  /\ [v EXCEPT !.active = b, !.silence = m] \in VadStates
           /\ [v EXCEPT !.speech = n] \in VadStates
  BY DEF VadStates

LEMMA OpenedIs ==
    ASSUME NEW v \in VadStates, NEW f \in Seq(Int), NEW room
    PROVE  /\ Opened(v, f, room) \in VadStates
           /\ Opened(v, f, room).in = v.in /\ Opened(v, f, room).acc = v.acc
           /\ room = AllRoom => \/ Opened(v, f, room) = v
                                \/ /\ Opened(v, f, room).active /\ Opened(v, f, room).pre = <<>>
                                   /\ Opened(v, f, room).seg = (v.seg \o v.pre) \o f
<1> DEFINE a == [v EXCEPT !.active = TRUE, !.silence = 0]
           d == pre_drain(a, room)
           o == Add(d, f, room)
<1>z. 0 \in Int /\ TRUE \in BOOLEAN
  OBVIOUS
<1>a. a \in VadStates
  BY <1>z, RunsSet, Zenon
<1>b. a.in = v.in /\ a.acc = v.acc /\ a.seg = v.seg /\ a.pre = v.pre /\ a.active = TRUE
  BY DEF VadStates
<1>1. a \in VadStates /\ a.in = v.in /\ a.acc = v.acc /\ a.seg = v.seg /\ a.pre = v.pre /\ a.active
  BY <1>a, <1>b, Zenon
<1> HIDE DEF a
<1>2. d \in VadStates /\ d.in = v.in /\ d.acc = v.acc /\ d.active
      /\ (room = AllRoom => d.seg = v.seg \o v.pre /\ d.pre = <<>>)
  <2>1. v.seg \in Seq(Int) /\ v.pre \in Seq(Int) /\ v.seg \o v.pre \in Seq(Int) /\ <<>> \in Seq(Int)
    BY DEF VadStates
  <2>2. CASE "pre-roll" \in room
    <3>1. d = [a EXCEPT !.seg = v.seg \o v.pre, !.pre = <<>>]
      BY <1>1, <2>2 DEF pre_drain
    <3>2. QED
      BY <1>1, <2>1, <3>1 DEF VadStates
  <2>3. CASE "pre-roll" \notin room
    <3>1. d = a /\ room # AllRoom
      BY <2>3 DEF pre_drain, AllRoom
    <3>2. QED
      BY <1>1, <3>1
  <2>4. QED
    BY <2>2, <2>3
<1> HIDE DEF d
<1>3. o \in VadStates /\ o.in = v.in /\ o.acc = v.acc
      /\ (room = AllRoom => o.active /\ o.pre = <<>> /\ o.seg = (v.seg \o v.pre) \o f)
  <2>1. d.seg \in Seq(Int) /\ d.seg \o f \in Seq(Int)
    BY <1>2 DEF VadStates
  <2>2. CASE "frame" \in room
    <3>1. o = [d EXCEPT !.seg = d.seg \o f]
      BY <2>2 DEF Add
    <3>2. QED
      BY <1>2, <2>1, <3>1 DEF VadStates
  <2>3. CASE "frame" \notin room
    <3>1. o = d /\ room # AllRoom
      BY <2>3 DEF Add, AllRoom
    <3>2. QED
      BY <1>2, <3>1
  <2>4. QED
    BY <2>2, <2>3
<1>4. Opened(v, f, room) = IF v.speech >= MinSpeech THEN o ELSE v
  BY DEF Opened, o, d, a
<1> HIDE DEF o
<1>5. QED
  BY <1>3, <1>4

\* What becomes of v when frame f is waited through, and spoken through.
Waited(v, f, w) ==
  \/ /\ w.active = v.active /\ w.seg = v.seg
     /\ w.pre = LastOf(v.pre \o f, PreCap)
  \/ /\ w.active /\ w.pre = <<>>
     /\ w.seg = (v.seg \o LastOf(v.pre \o f, PreCap)) \o f
Spoken(v, f, w) == w.active = v.active /\ w.pre = v.pre /\ w.seg = v.seg \o f

LEMMA WaitingIs ==
    ASSUME NEW v \in VadStates, NEW f \in Seq(Int), NEW level, NEW room
    PROVE  /\ Waiting(v, f, level, room) \in VadStates
           /\ Waiting(v, f, level, room).in = v.in /\ Waiting(v, f, level, room).acc = v.acc
           /\ room = AllRoom => Waited(v, f, Waiting(v, f, level, room))
<1> DEFINE p == pre_push(v, f)
           q == [p EXCEPT !.speech = @ + Frame]
           w == Waiting(v, f, level, room)
<1>1. p \in VadStates /\ p.in = v.in /\ p.acc = v.acc /\ p.seg = v.seg /\ p.active = v.active
      /\ p.pre = LastOf(v.pre \o f, PreCap)
  BY PrePushIs DEF VadStates
<1> HIDE DEF p
<1>a. p \in VadStates
  BY <1>1
<1>b. p.speech + Frame \in Int
  BY <1>a, VadAssumption DEF VadStates
<1>c. q \in VadStates
  BY <1>a, <1>b DEF VadStates
<1>d. q.in = p.in /\ q.acc = p.acc /\ q.seg = p.seg /\ q.active = p.active /\ q.pre = p.pre
  BY <1>a DEF VadStates
<1>2. q \in VadStates /\ q.in = v.in /\ q.acc = v.acc /\ q.seg = v.seg /\ q.active = v.active /\ q.pre = p.pre
  BY <1>1, <1>c, <1>d, Zenon
<1>z. 0 \in Int
  OBVIOUS
<1>3. [p EXCEPT !.speech = 0] \in VadStates
  BY <1>a, <1>z, RunsSet, Zenon
<1>4. w = IF level = "above" THEN Opened(q, f, room) ELSE [p EXCEPT !.speech = 0]
  BY DEF Waiting, p
<1> HIDE DEF q, w
<1>5. CASE level = "above"
  <2>1. w = Opened(q, f, room)
    BY <1>4, <1>5
  <2>2. /\ w \in VadStates /\ w.in = v.in /\ w.acc = v.acc
        /\ room = AllRoom => \/ w = q
                             \/ w.active /\ w.pre = <<>> /\ w.seg = (q.seg \o q.pre) \o f
    <3>1. q \in VadStates
      BY <1>2
    <3>2. /\ Opened(q, f, room) \in VadStates
          /\ Opened(q, f, room).in = q.in /\ Opened(q, f, room).acc = q.acc
          /\ room = AllRoom => \/ Opened(q, f, room) = q
                               \/ /\ Opened(q, f, room).active /\ Opened(q, f, room).pre = <<>>
                                  /\ Opened(q, f, room).seg = (q.seg \o q.pre) \o f
      BY <3>1, OpenedIs, Zenon
    <3>3. QED
      BY <1>2, <2>1, <3>2, Zenon
  <2>3. QED
    BY <1>1, <1>2, <2>2 DEF w, Waited
<1>6. CASE level # "above"
  <2>1. w \in VadStates /\ w.in = v.in /\ w.acc = v.acc /\ w.active = v.active /\ w.seg = v.seg /\ w.pre = p.pre
    BY <1>1, <1>3, <1>4, <1>6 DEF VadStates
  <2>2. QED
    BY <1>1, <2>1 DEF w, Waited
<1>7. QED
  BY <1>5, <1>6

LEMMA SpeakingIs ==
    ASSUME NEW v \in VadStates, NEW f \in Seq(Int), NEW level, NEW room
    PROVE  /\ Speaking(v, f, level, room) \in VadStates
           /\ Speaking(v, f, level, room).in = v.in /\ Speaking(v, f, level, room).acc = v.acc
           /\ room = AllRoom => Spoken(v, f, Speaking(v, f, level, room))
<1> DEFINE d == Add(v, f, room)
           n == IF level = "below" THEN d.silence + Frame ELSE 0
<1>1. d \in VadStates /\ d.in = v.in /\ d.acc = v.acc /\ d.active = v.active /\ d.pre = v.pre
      /\ (room = AllRoom => d.seg = v.seg \o f)
  <2>1. v.seg \o f \in Seq(Int)
    BY DEF VadStates
  <2>2. CASE "frame" \in room
    <3>1. d = [v EXCEPT !.seg = v.seg \o f]
      BY <2>2 DEF Add
    <3>2. QED
      BY <2>1, <3>1 DEF VadStates
  <2>3. CASE "frame" \notin room
    <3>1. d = v /\ room # AllRoom
      BY <2>3 DEF Add, AllRoom
    <3>2. QED
      BY <3>1
  <2>4. QED
    BY <2>2, <2>3
<1> HIDE DEF d
<1>2. n \in Int
  BY <1>1, VadAssumption DEF VadStates
<1>3. Speaking(v, f, level, room) = [d EXCEPT !.silence = n]
  BY DEF Speaking, d
<1> HIDE DEF n
<1>4. QED
  BY <1>1, <1>2, <1>3 DEF VadStates, Spoken

(* A frame that comes while nobody speaks: it joins the pre-roll, and may  *)
(* open a segment.                                                         *)
LEMMA WaitingHolds ==
    ASSUME NEW v \in VadStates, NEW p \in Int, NEW end \in Int, HeldAt(v, p, end), v.active = FALSE,
           NEW f \in Seq(Int), Len(f) = Frame, Stretch(f, p), NEW level, NEW room, room = AllRoom
    PROVE  HeldAt(Waiting(v, f, level, room), p + Frame, end)
<1> DEFINE w == Waiting(v, f, level, room)
           q == p + Frame
           s == v.pre \o f
           e == LastOf(v.pre \o f, PreCap)
           n == Len(v.pre)
<1>1. Frame \in Nat /\ Frame >= 1 /\ PreCap \in Nat /\ PreCap >= 1 /\ q \in Int /\ q - Frame = p
  BY VadAssumption
<1>2. /\ v.pre \in Seq(Int) /\ v.seg = <<>> /\ Stretch(v.pre, p - n) /\ n \in Nat
      /\ n <= PreCap /\ end <= p - n /\ (n < PreCap => n = p - end)
  BY DEF VadStates, HeldAt, PreHeld
<1>3. p - n \in Int /\ (p - n) + n = p
  BY <1>2
<1>4. s \in Seq(Int) /\ Len(s) = n + Frame /\ Stretch(s, p - n)
  BY <1>2, <1>3, StretchCat
<1>5. p - n = q - Len(s)
  BY <1>1, <1>2, <1>4
<1> HIDE DEF s
<1>6. /\ e \in Seq(Int) /\ Len(e) \in Nat /\ Stretch(e, q - Len(e))
      /\ Len(e) = IF Len(s) <= PreCap THEN Len(s) ELSE PreCap
  <2>1. Stretch(s, q - Len(s))
    BY <1>4, <1>5
  <2>2. e = LastOf(s, PreCap)
    BY DEF s
  <2>3. /\ LastOf(s, PreCap) \in Seq(Int)
        /\ Len(LastOf(s, PreCap)) = IF Len(s) <= PreCap THEN Len(s) ELSE PreCap
        /\ Stretch(LastOf(s, PreCap), q - Len(LastOf(s, PreCap)))
    BY <1>1, <1>4, <2>1, LastOfStretch, Zenon
  <2> HIDE DEF e
  <2>4. Len(e) \in Nat
    BY <2>2, <2>3
  <2>5. QED
    BY <2>2, <2>3, <2>4
<1> HIDE DEF e
<1>7. PreHeld(e, q, end) /\ Len(e) >= 1 /\ end <= q - Frame
  <2> DEFINE k == Len(e)
  <2>1. k \in Nat /\ k = IF n + Frame <= PreCap THEN n + Frame ELSE PreCap
    BY <1>4, <1>6
  <2> HIDE DEF k, n, q
  <2>2. q = p + Frame
    BY DEF q
  <2>3. k <= PreCap /\ k >= 1 /\ end <= q - k /\ (k < PreCap => k = q - end) /\ end <= q - Frame
    BY <1>1, <1>2, <2>1, <2>2
  <2>4. QED
    BY <1>6, <2>3 DEF PreHeld, k
<1>8. Waited(v, f, w)
  BY WaitingIs
<1>9. \/ w.active = v.active /\ w.seg = v.seg /\ w.pre = e
      \/ w.active /\ w.pre = <<>> /\ w.seg = (v.seg \o e) \o f
  BY <1>8, Zenon DEF Waited, e
<1> HIDE DEF w, q
<1>10. CASE w.active = v.active /\ w.seg = v.seg /\ w.pre = e
  <2>1. ~w.active /\ w.seg = <<>> /\ w.pre = e
    BY <1>2, <1>10
  <2>2. QED
    BY <1>7, <2>1 DEF HeldAt, w, q
<1>11. CASE w.active /\ w.pre = <<>> /\ w.seg = (v.seg \o e) \o f
  <2>1. w.seg = e \o f
    BY <1>2, <1>6, <1>11
  <2>2. SegHeld(e \o f, q, end)
    BY <1>1, <1>6, <1>7, SegmentOpens
  <2>3. QED
    BY <1>11, <2>1, <2>2 DEF HeldAt, w, q
<1>12. QED
  BY <1>9, <1>10, <1>11

LEMMA LongestIs ==
    /\ Longest \in Int /\ MaxSeg + Frame <= Longest /\ PreCap + 2 * Frame <= Longest
<1>1. MaxSeg + Frame \in Int /\ PreCap + 2 * Frame \in Int
  BY VadAssumption
<1>2. Longest = IF MaxSeg + Frame >= PreCap + 2 * Frame THEN MaxSeg + Frame ELSE PreCap + 2 * Frame
  BY <1>1, MaxOfTwo DEF Longest
<1>3. QED
  BY <1>1, <1>2

(* Up to a frame more of speech goes on where the segment ends.            *)
LEMMA SpeechGoesOn ==
    ASSUME NEW s \in Seq(Int), NEW p \in Int, NEW end \in Int, SegHeld(s, p, end),
           NEW f \in Seq(Int), Len(f) <= Frame, Stretch(f, p)
    PROVE  /\ Segment(s \o f, end) /\ (s \o f)[Len(s \o f)] = p + Len(f)
           /\ Len(s \o f) <= Longest /\ s \o f \in Seq(Int)
<1>1. /\ Segment(s \o f, end) /\ (s \o f)[Len(s \o f)] = p + Len(f) /\ Len(s \o f) = Len(s) + Len(f)
      /\ s \o f \in Seq(Int)
  <2>1. Segment(s, end) /\ s[Len(s)] = p
    BY DEF SegHeld
  <2>2. s \o f \in Seq(Int)
    OBVIOUS
  <2>3. QED
    BY <2>1, <2>2, SegmentGrows
<1>2. Len(s) <= PreCap + Frame \/ Len(s) < MaxSeg
  BY DEF SegHeld
<1> DEFINE a == Len(s)
           b == Len(f)
<1>3. a \in Nat /\ b \in Nat /\ Frame \in Nat /\ PreCap \in Nat /\ MaxSeg \in Int /\ b <= Frame
  BY VadAssumption
<1>4. a <= PreCap + Frame \/ a < MaxSeg
  BY <1>2
<1> HIDE DEF a, b
<1>5. a + b <= Longest
  BY <1>3, <1>4, LongestIs
<1>6. QED
  BY <1>1, <1>5 DEF a, b

(* A frame of speech.                                                      *)
LEMMA SpeakingHolds ==
    ASSUME NEW v \in VadStates, NEW p \in Int, NEW end \in Int, HeldAt(v, p, end), v.active,
           NEW f \in Seq(Int), Len(f) = Frame, Stretch(f, p), NEW level, NEW room, room = AllRoom
    PROVE  LET s == Speaking(v, f, level, room)
           IN  /\ s.active /\ s.pre = <<>> /\ Segment(s.seg, end) /\ s.seg[Len(s.seg)] = p + Frame
               /\ Len(s.seg) <= Longest
               /\ ~Closes(s, level) => HeldAt(s, p + Frame, end)
<1> DEFINE s == Speaking(v, f, level, room)
           q == p + Frame
<1>1. Frame \in Nat /\ MaxSeg \in Int
  BY VadAssumption
<1>2. v.pre = <<>> /\ v.seg \in Seq(Int) /\ SegHeld(v.seg, p, end)
  BY DEF VadStates, HeldAt
<1>3. Spoken(v, f, s)
  BY SpeakingIs
<1>4. s.active = v.active /\ s.pre = v.pre /\ s.seg = v.seg \o f
  BY <1>3, Zenon DEF Spoken
<1> HIDE DEF s
<1>5. Segment(s.seg, end) /\ s.seg[Len(s.seg)] = q /\ Len(s.seg) <= Longest /\ Len(s.seg) \in Nat
  <2> DEFINE t == v.seg
  <2>1. t \in Seq(Int) /\ SegHeld(t, p, end) /\ s.seg = t \o f /\ Len(f) <= Frame
    BY <1>1, <1>2, <1>4
  <2> HIDE DEF t
  <2>2. /\ Segment(t \o f, end) /\ (t \o f)[Len(t \o f)] = p + Len(f)
        /\ Len(t \o f) <= Longest /\ t \o f \in Seq(Int)
    BY <2>1, SpeechGoesOn
  <2>3. Len(t \o f) \in Nat
    BY <2>2
  <2>4. QED
    BY <2>1, <2>2, <2>3
<1>6. ASSUME ~Closes(s, level) PROVE HeldAt(s, q, end)
  <2>1. Len(s.seg) < MaxSeg
    BY <1>1, <1>5, <1>6 DEF Closes
  <2>2. QED
    BY <1>2, <1>4, <1>5, <2>1 DEF HeldAt, SegHeld
<1>7. QED
  BY <1>2, <1>4, <1>5, <1>6 DEF s

(* A segment that closes joins the ones before it.                         *)
LEMMA JoinsInOrder ==
    ASSUME NEW ss \in Seq(Seq(Int)), NEW s \in Seq(Int), SegsKept(ss), Segment(s, EndOf(ss, Len(ss))), Len(s) <= Longest
    PROVE  /\ Append(ss, s) \in Seq(Seq(Int)) /\ SegsKept(Append(ss, s))
           /\ EndOf(Append(ss, s), Len(Append(ss, s))) = s[Len(s)]
<1> DEFINE t == Append(ss, s)
           n == Len(ss)
<1>1. t \in Seq(Seq(Int)) /\ DOMAIN ss = 1..n /\ DOMAIN t = 1..(n + 1) /\ Len(t) = n + 1 /\ n \in Nat
      /\ t[n + 1] = s /\ \A i \in 1..n : t[i] = ss[i]
  OBVIOUS
<1> HIDE DEF t, n
<1>2. \A k \in 0..n : EndOf(t, k) = EndOf(ss, k)
  BY <1>1 DEF EndOf
<1>3. ASSUME NEW i \in DOMAIN t PROVE Segment(t[i], EndOf(t, i - 1)) /\ Len(t[i]) <= Longest
  <2>1. i - 1 \in 0..n /\ EndOf(t, i - 1) = EndOf(ss, i - 1)
    BY <1>1, <1>2
  <2>2. CASE i = n + 1
    BY <1>1, <2>1, <2>2 DEF n
  <2>3. CASE i # n + 1
    <3>1. i \in 1..n /\ t[i] = ss[i]
      BY <1>1, <2>3
    <3>2. QED
      BY <1>1, <2>1, <3>1 DEF SegsKept
  <2>4. QED
    BY <2>2, <2>3
<1>4. EndOf(t, Len(t)) = s[Len(s)]
  BY <1>1 DEF EndOf
<1>5. QED
  BY <1>1, <1>3, <1>4 DEF SegsKept, t

LEMMA EndIsInt ==
    ASSUME NEW ss \in Seq(Seq(Int)), SegsKept(ss)
    PROVE  EndOf(ss, Len(ss)) \in Int
<1>1. CASE Len(ss) = 0
  BY <1>1 DEF EndOf
<1>2. CASE Len(ss) # 0
  <2>1. Len(ss) \in DOMAIN ss /\ ss[Len(ss)] \in Seq(Int)
    BY <1>2
  <2>2. ss[Len(ss)][Len(ss[Len(ss)])] \in Int
    BY <2>1, SegmentThere DEF SegsKept
  <2>3. QED
    BY <1>2, <2>2 DEF EndOf
<1>3. QED
  BY <1>1, <1>2

LEMMA EmptyHeld ==
    ASSUME NEW v \in VadStates, NEW p \in Int, v.pre = <<>>, v.seg = <<>>, ~v.active
    PROVE  HeldAt(v, p, p)
<1>1. Len(<<>>) = 0 /\ p - 0 = p /\ PreCap \in Nat /\ 0 = p - p
  BY VadAssumption
<1>2. PreHeld(<<>>, p, p)
  BY <1>1, StretchEmpty DEF PreHeld
<1>3. QED
  BY <1>2 DEF HeldAt

LEMMA EmitIs ==
    ASSUME NEW v \in VadStates
    PROVE  /\ emit(v) \in VadStates /\ ~emit(v).active /\ emit(v).seg = <<>>
           /\ emit(v).pre = v.pre /\ emit(v).in = v.in /\ emit(v).acc = v.acc
<1>z. 0 \in Int /\ FALSE \in BOOLEAN /\ <<>> \in Seq(Int)
  OBVIOUS
<1> DEFINE e == [v EXCEPT !.seg = <<>>, !.active = FALSE, !.silence = 0, !.speech = 0]
           d == [v EXCEPT !.active = FALSE]
<1>1. e \in VadStates
  <2>1. \A q \in Seq(Int), b \in BOOLEAN, m \in Int, n \in Int :
          [v EXCEPT !.seg = q, !.active = b, !.silence = m, !.speech = n] \in VadStates
    BY DEF VadStates
  <2>2. QED
    BY <1>z, <2>1, Zenon
<1>2. d \in VadStates
  <2>1. \A b \in BOOLEAN : [v EXCEPT !.active = b] \in VadStates
    BY DEF VadStates
  <2>2. QED
    BY <1>z, <2>1, Zenon
<1>3. e.active = FALSE /\ e.seg = <<>> /\ e.pre = v.pre /\ e.in = v.in /\ e.acc = v.acc
  BY DEF VadStates
<1>4. d.active = FALSE /\ d.seg = v.seg /\ d.pre = v.pre /\ d.in = v.in /\ d.acc = v.acc
  BY DEF VadStates
<1>5. emit(v) = IF v.seg = <<>> THEN d ELSE e
  BY DEF emit
<1> HIDE DEF d, e
<1>6. CASE v.seg = <<>>
  <2>1. emit(v) = d
    BY <1>5, <1>6
  <2>2. QED
    BY <1>2, <1>4, <1>6, <2>1, Zenon
<1>7. CASE v.seg # <<>>
  <2>1. emit(v) = e
    BY <1>5, <1>7
  <2>2. QED
    BY <1>1, <1>3, <2>1, Zenon
<1>8. QED
  BY <1>6, <1>7

\* What a frame leaves: the state, and the segments handed out.
After(r) == IF r.closed THEN emit(r.v) ELSE r.v
Given(r) == IF r.closed THEN Handed(r.v) ELSE segs

LEMMA FrameTypes ==
    ASSUME NEW v \in VadStates, NEW f \in Seq(Int), NEW level, NEW room, segs \in Seq(Seq(Int))
    PROVE  LET r == process_frame(v, f, level, room)
           IN  /\ After(r) \in VadStates /\ Given(r) \in Seq(Seq(Int))
               /\ After(r).in = v.in /\ After(r).acc = v.acc
<1> DEFINE r == process_frame(v, f, level, room)
           w == Waiting(v, f, level, room)
           s == Speaking(v, f, level, room)
<1>1. CASE ~v.active
  <2>1. r = [v |-> w, closed |-> FALSE]
    BY <1>1 DEF process_frame
  <2>2. After(r) = w /\ Given(r) = segs
    BY <2>1 DEF After, Given
  <2>3. QED
    BY <2>2, WaitingIs
<1>2. CASE v.active
  <2>1. r = [v |-> s, closed |-> Closes(s, level)]
    BY <1>2 DEF process_frame
  <2>2. s \in VadStates /\ s.in = v.in /\ s.acc = v.acc
    BY SpeakingIs
  <2> HIDE DEF s
  <2>3. After(r) = IF Closes(s, level) THEN emit(s) ELSE s
    BY <2>1 DEF After
  <2>4. Given(r) = IF Closes(s, level) THEN Handed(s) ELSE segs
    BY <2>1 DEF Given
  <2>5. Handed(s) \in Seq(Seq(Int))
    BY <2>2 DEF Handed, VadStates
  <2> HIDE DEF r
  <2>6. QED
    BY <2>2, <2>3, <2>4, <2>5, EmitIs DEF r
<1>3. QED
  BY <1>1, <1>2

LEMMA FrameKeeps ==
    ASSUME NEW v \in VadStates, NEW p \in Int, NEW f \in Seq(Int), NEW level, NEW room, room = AllRoom,
           segs \in Seq(Seq(Int)), HeldAt(v, p, EndOf(segs, Len(segs))), Len(f) = Frame, Stretch(f, p), SegsKept(segs)
    PROVE  LET r == process_frame(v, f, level, room)
           IN  HeldAt(After(r), p + Frame, EndOf(Given(r), Len(Given(r)))) /\ SegsKept(Given(r))
<1> DEFINE r == process_frame(v, f, level, room)
           w == Waiting(v, f, level, room)
           s == Speaking(v, f, level, room)
           q == p + Frame
           end == EndOf(segs, Len(segs))
<1>0. q \in Int /\ end \in Int
  BY VadAssumption, EndIsInt
<1> HIDE DEF end
<1>1. CASE ~v.active
  <2>1. r = [v |-> w, closed |-> FALSE]
    BY <1>1 DEF process_frame
  <2>2. After(r) = w /\ Given(r) = segs
    BY <2>1 DEF After, Given
  <2>3. v.active = FALSE
    BY <1>1 DEF VadStates
  <2>4. HeldAt(w, q, end)
    BY <1>0, <2>3, WaitingHolds DEF end
  <2>5. QED
    BY <2>2, <2>4 DEF end
<1>2. CASE v.active
  <2>1. r = [v |-> s, closed |-> Closes(s, level)]
    BY <1>2 DEF process_frame
  <2>2. s \in VadStates
    BY SpeakingIs
  <2>3. /\ s.active /\ s.pre = <<>> /\ Segment(s.seg, end) /\ s.seg[Len(s.seg)] = q
        /\ Len(s.seg) <= Longest
        /\ ~Closes(s, level) => HeldAt(s, q, end)
    BY <1>0, <1>2, SpeakingHolds DEF end
  <2> HIDE DEF s
  <2>4. After(r) = (IF Closes(s, level) THEN emit(s) ELSE s) /\ Given(r) = IF Closes(s, level) THEN Handed(s) ELSE segs
    BY <2>1 DEF After, Given
  <2> HIDE DEF r
  <2>5. s.seg \in Seq(Int) /\ s.seg # <<>>
    BY <2>2, <2>3, SegmentThere DEF VadStates
  <2>6. CASE Closes(s, level)
    <3>1. After(r) = emit(s) /\ Given(r) = Append(segs, s.seg)
      BY <2>4, <2>5, <2>6 DEF Handed
    <3>2. emit(s) \in VadStates /\ emit(s).seg = <<>> /\ emit(s).pre = <<>> /\ ~emit(s).active
      BY <2>2, <2>3, EmitIs
    <3>3. HeldAt(emit(s), q, q)
      BY <1>0, <3>2, EmptyHeld
    <3>4. SegsKept(Append(segs, s.seg)) /\ EndOf(Append(segs, s.seg), Len(Append(segs, s.seg))) = q
      BY <2>3, <2>5, JoinsInOrder DEF end
    <3>5. QED
      BY <3>1, <3>3, <3>4 DEF r
  <2>7. CASE ~Closes(s, level)
    <3>1. After(r) = s /\ Given(r) = segs
      BY <2>4, <2>7
    <3>2. QED
      BY <2>3, <2>7, <3>1 DEF r, end
  <2>8. QED
    BY <2>6, <2>7
<1>3. QED
  BY <1>1, <1>2

(* Samples move from the FIFO to the frame.                                *)
LEMMA TakenIs ==
    ASSUME NEW v \in VadStates, Len(v.acc) < Frame
    PROVE  /\ TakenIn(v) \in VadStates /\ Len(TakenIn(v).acc) <= Frame
           /\ TakenIn(v).pre = v.pre /\ TakenIn(v).seg = v.seg /\ TakenIn(v).active = v.active
           /\ Len(TakenIn(v).in) + Len(TakenIn(v).acc) = Len(v.in) + Len(v.acc)
           /\ \A g \in Int : Stretch(v.in, g - Len(v.in)) /\ Stretch(v.acc, g - (Len(v.in) + Len(v.acc))) =>
                 /\ Stretch(TakenIn(v).in, g - Len(TakenIn(v).in))
                 /\ Stretch(TakenIn(v).acc, g - (Len(v.in) + Len(v.acc)))
<1> DEFINE take == Min({Frame - Len(v.acc), Len(v.in)})
<1>1. v.in \in Seq(Int) /\ v.acc \in Seq(Int) /\ Len(v.in) \in Nat /\ Len(v.acc) \in Nat /\ Frame \in Nat /\ Frame - Len(v.acc) \in Int
  BY VadAssumption DEF VadStates
<1>2. take = IF Frame - Len(v.acc) <= Len(v.in) THEN Frame - Len(v.acc) ELSE Len(v.in)
  <2>1. Frame - Len(v.acc) \in Int /\ Len(v.in) \in Int
    BY <1>1
  <2>2. QED
    BY <2>1, MinOfTwo, Zenon
<1> HIDE DEF take
<1>3. take \in 0..Len(v.in) /\ take <= Frame - Len(v.acc)
  <2> DEFINE A == Len(v.acc)
             N == Len(v.in)
  <2>1. A \in Nat /\ N \in Nat /\ A < Frame /\ Frame \in Nat /\ take = IF Frame - A <= N THEN Frame - A ELSE N
    BY <1>1, <1>2
  <2> HIDE DEF A, N
  <2>2. take \in 0..N /\ take <= Frame - A
    BY <2>1
  <2>3. QED
    BY <2>2 DEF A, N
<1> DEFINE mov == SubSeq(v.in, 1, take)
           rest == SubSeq(v.in, take + 1, Len(v.in))
           t == TakenIn(v)
<1>4. t = [v EXCEPT !.acc = v.acc \o mov, !.in = rest]
  BY DEF TakenIn, take
<1>5. mov \in Seq(Int) /\ Len(mov) = take /\ rest \in Seq(Int) /\ Len(rest) = Len(v.in) - take
  <2>1. Len(mov) = take /\ mov \in Seq(Int)
    BY <1>1, <1>3, SubSeqProperties
  <2>2. Len(rest) = Len(v.in) - take /\ rest \in Seq(Int)
    BY <1>1, <1>3, SubSeqProperties
  <2>3. QED
    BY <2>1, <2>2
<1> HIDE DEF mov, rest
<1>6. v.acc \o mov \in Seq(Int) /\ Len(v.acc \o mov) = Len(v.acc) + take
  BY <1>1, <1>5, ConcatProperties
<1>7. t \in VadStates /\ t.acc = v.acc \o mov /\ t.in = rest /\ t.pre = v.pre /\ t.seg = v.seg /\ t.active = v.active
  BY <1>4, <1>5, <1>6 DEF VadStates
<1> HIDE DEF t
<1>8. Len(t.acc) <= Frame /\ Len(t.in) + Len(t.acc) = Len(v.in) + Len(v.acc)
  <2>1. Len(t.acc) = Len(v.acc) + take /\ Len(t.in) = Len(v.in) - take
    BY <1>5, <1>6, <1>7
  <2> DEFINE A == Len(v.acc)
             N == Len(v.in)
  <2>2. A \in Nat /\ N \in Nat /\ Frame \in Nat /\ take \in 0..N /\ take <= Frame - A
    BY <1>1, <1>3
  <2>3. Len(t.acc) = A + take /\ Len(t.in) = N - take
    BY <2>1
  <2> HIDE DEF A, N
  <2>4. Len(t.acc) <= Frame /\ Len(t.in) + Len(t.acc) = N + A
    BY <2>2, <2>3
  <2>5. QED
    BY <2>4 DEF A, N
<1>9. ASSUME NEW g \in Int, Stretch(v.in, g - Len(v.in)), Stretch(v.acc, g - (Len(v.in) + Len(v.acc)))
      PROVE  Stretch(t.in, g - Len(t.in)) /\ Stretch(t.acc, g - (Len(v.in) + Len(v.acc)))
  <2>1. g - Len(v.in) \in Int /\ g - (Len(v.in) + Len(v.acc)) \in Int
    BY <1>1
  <2>2. Stretch(mov, g - Len(v.in))
    <3>1. 1 \in 1..(Len(v.in) + 1) /\ take \in (1 - 1)..Len(v.in)
      BY <1>1, <1>3
    <3>2. Stretch(mov, (g - Len(v.in)) + (1 - 1))
      BY <1>1, <1>9, <2>1, <3>1, StretchSub DEF mov
    <3>3. QED
      BY <2>1, <3>2
  <2>3. Stretch(rest, g - (Len(v.in) - take))
    <3>1. take + 1 \in 1..(Len(v.in) + 1) /\ Len(v.in) \in ((take + 1) - 1)..Len(v.in)
      BY <1>1, <1>3
    <3>2. Stretch(rest, (g - Len(v.in)) + ((take + 1) - 1))
      BY <1>1, <1>9, <2>1, <3>1, StretchSub DEF rest
    <3>3. (g - Len(v.in)) + ((take + 1) - 1) = g - (Len(v.in) - take)
      BY <1>1, <1>3
    <3>4. QED
      BY <3>2, <3>3
  <2>4. (g - (Len(v.in) + Len(v.acc))) + Len(v.acc) = g - Len(v.in)
    BY <1>1
  <2>5. Stretch(v.acc \o mov, g - (Len(v.in) + Len(v.acc)))
    BY <1>1, <1>5, <1>9, <2>1, <2>2, <2>4, StretchCat
  <2>6. QED
    BY <1>5, <1>7, <2>3, <2>5
<1>10. QED
  BY <1>7, <1>8, <1>9 DEF t

LEMMA CallerSet ==
    ASSUME VadTypes, NEW to \in {"push", "drain", "done"}, NEW g \in Nat, NEW m \in BOOLEAN
    PROVE  /\ [feeder EXCEPT !.pc = to] \in [pc : {"push", "drain", "done"}, given : Nat, memory : BOOLEAN]
           /\ [feeder EXCEPT !.pc = to, !.given = g] \in [pc : {"push", "drain", "done"}, given : Nat, memory : BOOLEAN]
           /\ [feeder EXCEPT !.given = g, !.memory = m] \in [pc : {"push", "drain", "done"}, given : Nat, memory : BOOLEAN]
           /\ [feeder EXCEPT !.pc = to, !.memory = m] \in [pc : {"push", "drain", "done"}, given : Nat, memory : BOOLEAN]
           /\ [feeder EXCEPT !.memory = m] \in [pc : {"push", "drain", "done"}, given : Nat, memory : BOOLEAN]
  BY DEF VadTypes

(* One turn of drain.                                                      *)
LEMMA DrainKeeps == ASSUME VadInv, drain PROVE VadInv'
<1> DEFINE v == TakenIn(vad)
           p == Processed
<1>1. /\ VadTypes /\ feeder.pc = "drain" /\ vad \in VadStates /\ Len(vad.acc) < Frame /\ segs \in Seq(Seq(Int))
      /\ feeder.given \in Int
  BY DEF VadInv, VadTypes, drain
<1>2. /\ v \in VadStates /\ Len(v.acc) <= Frame
      /\ v.pre = vad.pre /\ v.seg = vad.seg /\ v.active = vad.active
      /\ Len(v.in) + Len(v.acc) = Len(vad.in) + Len(vad.acc)
      /\ \A g \in Int : Stretch(vad.in, g - Len(vad.in)) /\ Stretch(vad.acc, g - (Len(vad.in) + Len(vad.acc))) =>
            /\ Stretch(v.in, g - Len(v.in))
            /\ Stretch(v.acc, g - (Len(vad.in) + Len(vad.acc)))
  BY <1>1, TakenIs
<1> HIDE DEF v
<1>3. Len(v.in) \in Nat /\ Len(v.acc) \in Nat /\ v.acc \in Seq(Int) /\ Len(vad.in) \in Nat /\ Len(vad.acc) \in Nat /\ Frame \in Nat
  BY <1>1, <1>2, VadAssumption DEF VadStates
<1>4. p \in Int /\ p = feeder.given - (Len(v.in) + Len(v.acc))
  <2> DEFINE a == Len(vad.in)
             b == Len(vad.acc)
             c == Len(v.in)
             d == Len(v.acc)
             h == feeder.given
  <2>1. a \in Nat /\ b \in Nat /\ c \in Nat /\ d \in Nat /\ h \in Int /\ c + d = a + b
    BY <1>1, <1>2, <1>3
  <2>2. p = h - (a + b)
    BY DEF Processed
  <2> HIDE DEF a, b, c, d, h, p
  <2>3. p \in Int /\ p = h - (c + d)
    BY <2>1, <2>2
  <2>4. QED
    BY <2>3 DEF c, d, h
<1>5. feeder.memory => /\ SegsKept(segs) /\ HeldAt(vad, p, EndOf(segs, Len(segs)))
                       /\ Stretch(v.in, feeder.given - Len(v.in)) /\ Stretch(v.acc, p)
  BY <1>1, <1>2 DEF VadInv, InputHeld, Processed
<1> HIDE DEF p
<1>6. CASE Len(v.acc) < Frame
  <2>1. vad' = v /\ segs' = segs /\ feeder' = feeder
    BY <1>6 DEF drain, v
  <2>2. VadTypes'
    BY <1>1, <1>2, <1>6, <2>1 DEF VadTypes
  <2>3. Processed' = p
    BY <1>4, <2>1 DEF Processed
  <2>4. HeldAt(vad, p, EndOf(segs, Len(segs))) => HeldAt(v, p, EndOf(segs, Len(segs)))
    BY <1>2 DEF HeldAt
  <2>5. feeder.memory => InputHeld'
    BY <1>1, <1>5, <2>1, <2>3 DEF InputHeld
  <2>6. feeder.memory => HeldAt(vad', Processed', EndOf(segs', Len(segs')))
    BY <1>5, <2>1, <2>3, <2>4
  <2>7. feeder.memory => SegsKept(segs')
    BY <1>5, <2>1
  <2>8. QED
    BY <1>1, <2>1, <2>2, <2>5, <2>6, <2>7 DEF VadInv
<1>7. CASE ~(Len(v.acc) < Frame)
  <2> DEFINE u == [v EXCEPT !.acc = <<>>]
             f == v.acc
  <2>1. Len(f) = Frame
    BY <1>2, <1>3, <1>7
  <2>2. u \in VadStates /\ u.in = v.in /\ u.acc = <<>> /\ u.pre = vad.pre /\ u.seg = vad.seg /\ u.active = vad.active
    <3>1. <<>> \in Seq(Int) /\ v \in VadStates
      BY <1>2
    <3>2. \A s \in Seq(Int) : [v EXCEPT !.acc = s] \in VadStates
      BY <3>1 DEF VadStates
    <3>3. u.in = v.in /\ u.acc = <<>> /\ u.pre = v.pre /\ u.seg = v.seg /\ u.active = v.active
      BY <3>1 DEF VadStates
    <3>4. QED
      BY <1>2, <3>1, <3>2, <3>3, Zenon
  <2>3. PICK level \in {"above", "between", "below"}, room \in IF feeder.memory THEN SUBSET AllRoom ELSE {AllRoom} :
          LET r == process_frame(u, f, level, room)
          IN  /\ vad' = IF r.closed THEN emit(r.v) ELSE r.v
              /\ segs' = IF r.closed THEN Handed(r.v) ELSE segs
              /\ feeder' = [feeder EXCEPT !.memory = @ /\ room = AllRoom]
    BY <1>7 DEF drain, v
  <2> DEFINE r == process_frame(u, f, level, room)
             m == feeder.memory /\ room = AllRoom
  <2>4. vad' = After(r) /\ segs' = Given(r)
    BY <2>3 DEF After, Given
  <2>5. feeder' = [feeder EXCEPT !.memory = m]
    BY <2>3
  <2>6. m \in BOOLEAN
    OBVIOUS
  <2> HIDE DEF u
  <2>7. After(r) \in VadStates /\ Given(r) \in Seq(Seq(Int)) /\ After(r).in = v.in /\ After(r).acc = <<>>
    BY <1>1, <1>3, <2>2, FrameTypes
  <2>8. HeldAt(vad, p, EndOf(segs, Len(segs))) => HeldAt(u, p, EndOf(segs, Len(segs)))
    BY <2>2 DEF HeldAt
  <2>9. m => HeldAt(After(r), p + Frame, EndOf(Given(r), Len(Given(r)))) /\ SegsKept(Given(r))
    <3> SUFFICES ASSUME m PROVE HeldAt(After(r), p + Frame, EndOf(Given(r), Len(Given(r)))) /\ SegsKept(Given(r))
      OBVIOUS
    <3>1. room = AllRoom /\ HeldAt(u, p, EndOf(segs, Len(segs))) /\ SegsKept(segs) /\ Stretch(f, p)
      BY <1>5, <2>8
    <3>2. QED
      BY <1>1, <1>3, <1>4, <2>1, <2>2, <3>1, FrameKeeps
  <2> HIDE DEF r, m, f
  <2>10. feeder'.pc = "drain" /\ feeder'.given = feeder.given /\ feeder'.memory = m
    BY <1>1, <2>5 DEF VadTypes
  <2>11. VadTypes'
    <3>1. feeder' \in [pc : {"push", "drain", "done"}, given : Nat, memory : BOOLEAN]
      BY <1>1, <2>5, <2>6, CallerSet
    <3>2. Len(vad'.acc) < Frame
      <4>1. Len(<<>>) = 0 /\ 0 < Frame
        BY VadAssumption
      <4>2. QED
        BY <2>4, <2>7, <4>1
    <3>3. QED
      BY <2>4, <2>7, <3>1, <3>2 DEF VadTypes
  <2>12. Processed' = p + Frame
    <3>1. Len(<<>>) = 0
      OBVIOUS
    <3>2. Processed' = feeder.given - (Len(v.in) + 0)
      BY <2>4, <2>7, <2>10, <3>1 DEF Processed
    <3>3. Len(v.acc) = Frame
      BY <2>1 DEF f
    <3>4. QED
      BY <1>1, <1>3, <1>4, <3>2, <3>3
  <2>13. m => InputHeld'
    <3> SUFFICES ASSUME m PROVE InputHeld'
      OBVIOUS
    <3>1. Stretch(v.in, feeder.given - Len(v.in))
      BY <1>5 DEF m
    <3>a. p + Frame \in Int
      <4>1. p \in Int
        BY <1>4
      <4>2. Frame \in Int
        BY VadAssumption
      <4>3. QED
        BY <4>1, <4>2
    <3>2. Stretch(<<>>, p + Frame)
      BY <3>a, StretchEmpty
    <3>3. QED
      BY <2>4, <2>7, <2>10, <2>12, <3>1, <3>2 DEF InputHeld
  <2>14. m => HeldAt(vad', Processed', EndOf(segs', Len(segs'))) /\ SegsKept(segs')
    BY <2>4, <2>9, <2>12
  <2>15. QED
    BY <2>10, <2>11, <2>13, <2>14 DEF VadInv
<1>8. QED
  BY <1>6, <1>7

LEMMA DrainedKeeps == ASSUME VadInv, vv_vad_drain PROVE VadInv'
<1>1. VadTypes /\ feeder.pc = "drain" /\ vad.in = <<>> /\ vad' = vad /\ segs' = segs /\ feeder' = [feeder EXCEPT !.pc = "push"]
  BY DEF VadInv, vv_vad_drain
<1>2. feeder'.pc = "push" /\ feeder'.given = feeder.given /\ feeder'.memory = feeder.memory
  BY <1>1 DEF VadTypes
<1>3. VadTypes'
  <2>1. feeder' \in [pc : {"push", "drain", "done"}, given : Nat, memory : BOOLEAN]
    BY <1>1 DEF VadTypes
  <2>2. QED
    BY <1>1, <2>1 DEF VadTypes
<1>4. Processed' = Processed
  BY <1>1, <1>2 DEF Processed
<1>5. feeder.memory => InputHeld' /\ HeldAt(vad', Processed', EndOf(segs', Len(segs')))
  BY <1>1, <1>2, <1>4 DEF VadInv, InputHeld
<1>6. feeder.memory => SegsKept(segs')
  BY <1>1 DEF VadInv
<1>7. QED
  BY <1>2, <1>3, <1>5, <1>6 DEF VadInv

LEMMA VadPushKeeps == ASSUME VadInv, NEW n \in Sizes, vv_vad_push(n) PROVE VadInv'
<1> DEFINE new == [i \in 1..n |-> feeder.given + i]
           g == feeder.given + n
<1>1. VadTypes /\ feeder.pc = "push" /\ segs' = segs /\ vad \in VadStates /\ feeder.given \in Nat /\ n \in Nat /\ g \in Nat
  BY VadAssumption DEF VadInv, VadTypes, vv_vad_push
<1>2. CASE vad' = [vad EXCEPT !.in = @ \o new] /\ feeder' = [feeder EXCEPT !.pc = "drain", !.given = g]
  <2>1. vad.in \in Seq(Int) /\ vad.acc \in Seq(Int) /\ Len(vad.in) \in Nat /\ Len(vad.acc) \in Nat
    BY <1>1 DEF VadStates
  <2>2. new \in Seq(Int) /\ Len(new) = n
    BY <1>1
  <2>3. Stretch(new, feeder.given)
    <3>1. \A i \in 1..Len(new) : new[i] = feeder.given + i
      BY <2>2
    <3>2. feeder.given \in Int
      BY <1>1
    <3> HIDE DEF new
    <3>3. QED
      BY <2>2, <3>1, <3>2, StretchOf
  <2> HIDE DEF new, g
  <2>4. vad.in \o new \in Seq(Int) /\ Len(vad.in \o new) = Len(vad.in) + n
    BY <2>1, <2>2, ConcatProperties
  <2>5. vad' \in VadStates /\ vad'.in = vad.in \o new /\ vad'.acc = vad.acc /\ vad'.pre = vad.pre /\ vad'.seg = vad.seg
        /\ vad'.active = vad.active
    BY <1>1, <1>2, <2>4 DEF VadStates
  <2>6. feeder'.pc = "drain" /\ feeder'.given = g /\ feeder'.memory = feeder.memory
    BY <1>1, <1>2 DEF VadTypes
  <2>7. VadTypes'
    <3>1. feeder' \in [pc : {"push", "drain", "done"}, given : Nat, memory : BOOLEAN]
      BY <1>1, <1>2 DEF VadTypes
    <3>2. QED
      BY <1>1, <2>5, <3>1 DEF VadTypes
  <2>8. Processed' = Processed
    <3>1. Processed' = g - (Len(vad.in \o new) + Len(vad.acc))
      BY <2>5, <2>6 DEF Processed
    <3> DEFINE a == Len(vad.in)
               b == Len(vad.acc)
               h == feeder.given
    <3>2. a \in Nat /\ b \in Nat /\ h \in Nat /\ n \in Nat /\ Processed' = (h + n) - ((a + n) + b)
      BY <1>1, <2>1, <2>4, <3>1 DEF g
    <3>3. Processed = h - (a + b)
      BY DEF Processed
    <3> HIDE DEF a, b, h
    <3>4. QED
      BY <3>2, <3>3
  <2>9. feeder.memory => InputHeld'
    <3> SUFFICES ASSUME feeder.memory PROVE InputHeld'
      OBVIOUS
    <3>1. vad.in = <<>> /\ Stretch(vad.in, feeder.given - Len(vad.in)) /\ Stretch(vad.acc, Processed)
      BY <1>1 DEF VadInv, InputHeld
    <3>2. feeder.given - Len(vad.in) \in Int /\ (feeder.given - Len(vad.in)) + Len(vad.in) = feeder.given
      BY <1>1, <2>1
    <3>3. Stretch(vad.in \o new, feeder.given - Len(vad.in))
      BY <2>1, <2>2, <2>3, <3>1, <3>2, StretchCat
    <3>4. g - Len(vad.in \o new) = feeder.given - Len(vad.in)
      BY <1>1, <2>1, <2>4 DEF g
    <3>5. Stretch(vad'.in, feeder'.given - Len(vad'.in))
      BY <2>5, <2>6, <3>3, <3>4
    <3>6. Stretch(vad'.acc, Processed')
      BY <2>5, <2>8, <3>1
    <3>7. QED
      BY <2>6, <3>5, <3>6 DEF InputHeld
  <2>10. HeldAt(vad, Processed, EndOf(segs, Len(segs))) => HeldAt(vad', Processed, EndOf(segs, Len(segs)))
    BY <2>5 DEF HeldAt
  <2>11. feeder.memory => HeldAt(vad', Processed', EndOf(segs', Len(segs'))) /\ SegsKept(segs')
    BY <1>1, <2>8, <2>10 DEF VadInv
  <2>12. QED
    BY <2>6, <2>7, <2>9, <2>11 DEF VadInv
<1>3. CASE feeder' = [feeder EXCEPT !.given = g, !.memory = FALSE] /\ vad' = vad
  <2>1. feeder' \in [pc : {"push", "drain", "done"}, given : Nat, memory : BOOLEAN] /\ ~feeder'.memory
    BY <1>1, <1>3 DEF VadTypes
  <2>2. VadTypes'
    BY <1>1, <1>3, <2>1 DEF VadTypes
  <2>3. QED
    BY <2>1, <2>2 DEF VadInv
<1>4. QED
  BY <1>2, <1>3 DEF vv_vad_push

LEMMA FlushKeeps == ASSUME VadInv, vv_vad_flush PROVE VadInv'
<1>1. VadTypes /\ feeder.pc = "push" /\ vad \in VadStates /\ segs \in Seq(Seq(Int)) /\ feeder.given \in Nat /\ feeder.memory \in BOOLEAN
  BY DEF VadInv, VadTypes, vv_vad_flush
<1>2. vad.seg \in Seq(Int) /\ vad.acc \in Seq(Int) /\ vad.pre \in Seq(Int) /\ vad.active \in BOOLEAN
  BY <1>1 DEF VadStates
<1>3. PICK room \in {TRUE, ~feeder.memory} :
        LET v == [vad EXCEPT !.seg = IF vad.active /\ room THEN @ \o vad.acc ELSE @, !.acc = <<>>]
        IN  /\ segs' = Handed(v)
            /\ vad' = IF v.seg = <<>> THEN v ELSE emit(v)
            /\ feeder' = [feeder EXCEPT !.pc = "done", !.memory = @ /\ room]
  BY DEF vv_vad_flush
<1> DEFINE seg == IF vad.active /\ room THEN vad.seg \o vad.acc ELSE vad.seg
           v == [vad EXCEPT !.seg = seg, !.acc = <<>>]
           m == feeder.memory /\ room
<1>4. segs' = Handed(v) /\ vad' = (IF v.seg = <<>> THEN v ELSE emit(v)) /\ feeder' = [feeder EXCEPT !.pc = "done", !.memory = m]
  BY <1>3
<1>5. seg \in Seq(Int)
  BY <1>2
<1>6. v \in VadStates /\ v.seg = seg /\ v.acc = <<>>
  <2>1. <<>> \in Seq(Int)
    OBVIOUS
  <2>2. \A s, t \in Seq(Int) : [vad EXCEPT !.seg = s, !.acc = t] \in VadStates
    BY <1>1 DEF VadStates
  <2> HIDE DEF seg
  <2>3. v \in VadStates
    BY <1>5, <2>1, <2>2, Zenon
  <2>4. v.seg = seg /\ v.acc = <<>>
    BY <1>1 DEF VadStates
  <2>5. QED
    BY <2>3, <2>4
<1> HIDE DEF v
<1>7. vad' \in VadStates /\ vad'.acc = <<>> /\ vad'.seg = <<>>
  BY <1>4, <1>6, EmitIs
<1>8. m \in BOOLEAN
  OBVIOUS
<1> HIDE DEF m
<1>9. feeder' \in [pc : {"push", "drain", "done"}, given : Nat, memory : BOOLEAN] /\ feeder'.pc = "done" /\ feeder'.memory = m
  BY <1>1, <1>4, <1>8 DEF VadTypes
<1>10. Handed(v) = IF seg = <<>> THEN segs ELSE Append(segs, seg)
  BY <1>6 DEF Handed
<1>11. VadTypes'
  <2>1. Len(<<>>) = 0 /\ 0 < Frame
    BY VadAssumption
  <2>2. Handed(v) \in Seq(Seq(Int))
    BY <1>1, <1>5, <1>10
  <2>3. QED
    BY <1>4, <1>7, <1>9, <2>1, <2>2 DEF VadTypes
<1>12. m => SegsKept(segs')
  <2> SUFFICES ASSUME m PROVE SegsKept(segs')
    OBVIOUS
  <2>1. feeder.memory /\ room
    BY DEF m
  <2>2. SegsKept(segs) /\ InputHeld /\ HeldAt(vad, Processed, EndOf(segs, Len(segs)))
    BY <1>1, <2>1 DEF VadInv
  <2>3. CASE ~vad.active
    <3>1. seg = <<>>
      BY <2>2, <2>3 DEF HeldAt
    <3>2. QED
      BY <1>4, <1>10, <2>2, <3>1
  <2>4. CASE vad.active
    <3> DEFINE p == Processed
               end == EndOf(segs, Len(segs))
    <3>1. seg = vad.seg \o vad.acc
      BY <2>1, <2>4
    <3> HIDE DEF seg
    <3>2. p \in Int
      <4> DEFINE a == Len(vad.in)
                 b == Len(vad.acc)
                 h == feeder.given
      <4>1. a \in Nat /\ b \in Nat /\ h \in Nat
        BY <1>1 DEF VadStates
      <4>2. p = h - (a + b)
        BY DEF Processed
      <4> HIDE DEF a, b, h, p
      <4>3. QED
        BY <4>1, <4>2
    <3>3. Stretch(vad.acc, p) /\ SegHeld(vad.seg, p, end)
      BY <2>2, <2>4 DEF InputHeld, HeldAt
    <3>4. end \in Int
      BY <1>1, <2>2, EndIsInt
    <3> HIDE DEF p, end
    <3>5. Len(vad.acc) <= Frame
      BY <1>1, <1>2, VadAssumption DEF VadTypes
    <3>6. Segment(seg, end) /\ Len(seg) <= Longest
      BY <1>2, <3>1, <3>2, <3>3, <3>4, <3>5, SpeechGoesOn
    <3>7. seg # <<>>
      BY <1>5, <3>6, SegmentThere
    <3>8. SegsKept(Append(segs, seg))
      BY <1>1, <1>5, <2>2, <3>6, JoinsInOrder DEF end
    <3>9. QED
      BY <1>4, <1>10, <3>7, <3>8
  <2>5. QED
    BY <2>3, <2>4
<1>13. QED
  BY <1>7, <1>9, <1>11, <1>12 DEF VadInv

LEMMA VadStarts == VadInit => VadInv
<1> SUFFICES ASSUME VadInit PROVE VadInv
  OBVIOUS
<1>1. vad = vv_vad_create /\ segs = <<>> /\ feeder = [pc |-> "push", given |-> 0, memory |-> TRUE]
  BY DEF VadInit
<1>2. <<>> \in Seq(Int) /\ <<>> \in Seq(Seq(Int)) /\ Len(<<>>) = 0 /\ 0 \in Int /\ FALSE \in BOOLEAN
  OBVIOUS
<1>3. vad.in = <<>> /\ vad.acc = <<>> /\ vad.pre = <<>> /\ vad.seg = <<>> /\ vad.active = FALSE
  BY <1>1 DEF vv_vad_create
<1>4. vad \in VadStates
  <2>1. \A s \in Seq(Int), b \in BOOLEAN, n \in Int :
          [in |-> s, acc |-> s, pre |-> s, seg |-> s, active |-> b, silence |-> n, speech |-> n] \in VadStates
    BY DEF VadStates
  <2>2. QED
    BY <1>1, <1>2, <2>1, Zenon DEF vv_vad_create
<1>5. feeder.pc = "push" /\ feeder.given = 0 /\ feeder.memory = TRUE
  BY <1>1
<1>6. feeder \in [pc : {"push", "drain", "done"}, given : Nat, memory : BOOLEAN]
  <2>1. \A n \in Nat, b \in BOOLEAN : [pc |-> "push", given |-> n, memory |-> b] \in [pc : {"push", "drain", "done"}, given : Nat, memory : BOOLEAN]
    OBVIOUS
  <2>2. 0 \in Nat /\ TRUE \in BOOLEAN
    OBVIOUS
  <2>3. QED
    BY <1>1, <2>1, <2>2, Zenon
<1>7. VadTypes
  <2>1. 0 < Frame
    BY VadAssumption
  <2>2. QED
    BY <1>1, <1>2, <1>3, <1>4, <1>6, <2>1 DEF VadTypes
<1>a. Len(vad.in) = 0 /\ Len(vad.acc) = 0
  BY <1>2, <1>3, Zenon
<1>8. Processed = 0
  BY <1>5, <1>a DEF Processed
<1>9. InputHeld
  <2>1. Stretch(<<>>, 0)
    BY <1>2, StretchEmpty
  <2>2. feeder.given - Len(vad.in) = 0
    BY <1>5, <1>a
  <2>3. QED
    BY <1>3, <1>8, <2>1, <2>2 DEF InputHeld
<1>10. HeldAt(vad, Processed, EndOf(segs, Len(segs)))
  <2>1. Len(segs) = 0
    BY <1>1
  <2>2. EndOf(segs, Len(segs)) = 0
    BY <2>1 DEF EndOf
  <2>3. HeldAt(vad, 0, 0)
    BY <1>2, <1>3, <1>4, EmptyHeld
  <2>4. QED
    BY <1>8, <2>2, <2>3
<1>11. DOMAIN segs = {}
  BY <1>1
<1>12. SegsKept(segs)
  BY <1>11 DEF SegsKept
<1>13. QED
  BY <1>5, <1>7, <1>9, <1>10, <1>12 DEF VadInv

LEMMA VadStays == ASSUME VadInv, UNCHANGED vadVars PROVE VadInv'
<1>1. vad' = vad /\ segs' = segs /\ feeder' = feeder
  BY DEF vadVars
<1>2. Processed' = Processed
  BY <1>1 DEF Processed
<1>3. VadTypes' /\ InputHeld' = InputHeld
  BY <1>1, <1>2 DEF VadInv, VadTypes, InputHeld
<1>4. /\ HeldAt(vad', Processed', EndOf(segs', Len(segs'))) = HeldAt(vad, Processed, EndOf(segs, Len(segs)))
      /\ SegsKept(segs') = SegsKept(segs)
  BY <1>1, <1>2
<1>5. QED
  BY <1>1, <1>3, <1>4 DEF VadInv

LEMMA OrderHolds == VadInv => SegmentsInOrder
<1> SUFFICES ASSUME VadInv, feeder.memory, vad.seg # <<>> PROVE Segment(vad.seg, EndOf(segs, Len(segs)))
  BY DEF SegmentsInOrder, VadInv, SegsKept
<1>1. HeldAt(vad, Processed, EndOf(segs, Len(segs))) /\ vad.active
  BY DEF VadInv, HeldAt
<1>2. QED
  BY <1>1 DEF HeldAt, SegHeld

LEMMA VadGoesOn == VadInv /\ [VadNext]_vadVars => VadInv'
<1> SUFFICES ASSUME VadInv, [VadNext]_vadVars PROVE VadInv'
  OBVIOUS
<1>1. CASE drain
  BY <1>1, DrainKeeps
<1>2. CASE vv_vad_drain
  BY <1>2, DrainedKeeps
<1>3. CASE vv_vad_flush
  BY <1>3, FlushKeeps
<1>4. CASE \E n \in Sizes : vv_vad_push(n)
  BY <1>4, VadPushKeeps
<1>5. CASE UNCHANGED vadVars
  BY <1>5, VadStays
<1>6. QED
  BY <1>1, <1>2, <1>3, <1>4, <1>5 DEF VadNext

(* Whatever the levels, the sizes of frame, pre-roll, hangover and cut, and*)
(* however the input is cut into pushes: until memory runs out, a segment  *)
(* is its pre-roll, full or back to the segment before, and then every     *)
(* sample from the opening frame on, which is therefore in it twice; it is *)
(* no longer than it may be (vv_vad_push, vv_vad_drain, vv_vad_flush).     *)
THEOREM SegmentsStayInOrder == VadSpec => []SegmentsInOrder
  BY VadStarts, VadGoesOn, OrderHolds, PTL DEF VadSpec
-----------------------------------------------------------------------------
(* The session.                                                            *)

USE StreamAssumption

(* A function on 1..n is a sequence of length n.                           *)
LEMMA FunSeq ==
    ASSUME NEW S, NEW n \in Nat, NEW f \in [1..n -> S]
    PROVE  f \in Seq(S) /\ Len(f) = n
OBVIOUS

(* Rows builds n rows.                                                     *)
LEMMA RowsType ==
    ASSUME NEW kind \in {"prompt", "start", "feature", "end", "token", "chunk_end"},
           NEW v \in Seq(Nat), NEW n \in Nat
    PROVE  Rows(kind, v, n) \in Seq(RowType) /\ Len(Rows(kind, v, n)) = n
<1>1. Row(kind, v) \in RowType
  BY DEF Row, RowType
<1>2. Rows(kind, v, n) \in [1..n -> RowType]
  BY <1>1 DEF Rows
<1>3. QED
  BY <1>2, FunSeq

(* The chunk end is one row.                                               *)
LEMMA ChunkEndType == ChunkEnd \in Seq(RowType) /\ Len(ChunkEnd) = 1
  BY DEF ChunkEnd, Row, RowType

(* vv_stream_chunk_layout writes exactly n_rows rows.                      *)
LEMMA LayoutType ==
    ASSUME NEW f \in Seq(Nat), lead \in BOOLEAN
    PROVE  /\ chunk_layout(f) \in Seq(RowType)
           /\ Len(chunk_layout(f)) = n_rows
           /\ n_rows \in Nat
<1> DEFINE a == IF lead THEN ChunkEnd ELSE << >>
           b == <<Row("start", << >>)>>
           c == Rows("feature", f, Window)
           d == <<Row("end", << >>)>>
<1>1. a \in Seq(RowType) /\ Len(a) = IF lead THEN 1 ELSE 0
  <2>1. CASE lead
    BY <2>1, ChunkEndType
  <2>2. CASE ~lead
    BY <2>2, EmptySeq
  <2>3. QED
    BY <2>1, <2>2
<1>2. b \in Seq(RowType) /\ Len(b) = 1 /\ d \in Seq(RowType) /\ Len(d) = 1
  BY DEF Row, RowType
<1>3. Window \in Nat
  BY DEF Window
<1>4. c \in Seq(RowType) /\ Len(c) = Window
  BY <1>3, RowsType
<1> HIDE DEF a, b, c, d
<1>5. /\ ((a \o b) \o c) \o d \in Seq(RowType)
      /\ Len(((a \o b) \o c) \o d) = Len(a) + 1 + Window + 1
  <2>1. a \o b \in Seq(RowType) /\ Len(a \o b) = Len(a) + 1
    BY <1>1, <1>2, ConcatProperties, SMTT(30)
  <2> DEFINE x == (a \o b) \o c
  <2>2. x \in Seq(RowType) /\ Len(x) = Len(a) + 1 + Window
    BY <1>4, <2>1, ConcatProperties
  <2> HIDE DEF x
  <2>3. x \o d \in Seq(RowType) /\ Len(x \o d) = Len(x) + Len(d)
    BY <1>2, <2>2, ConcatProperties
  <2>4. QED
    BY <1>2, <2>2, <2>3 DEF x
<1>6. chunk_layout(f) = ((a \o b) \o c) \o d
  BY DEF chunk_layout, a, b, c, d
<1>7. QED
  BY <1>1, <1>3, <1>5, <1>6 DEF n_rows

(* A popped window is well formed and the chunker stays so.                *)
LEMMA NextType ==
    ASSUME TypeChunker, TypeWindows, chunker_next
    PROVE  /\ todo' \in Seq(WindowType) /\ todo' # << >>
           /\ buf' \in Seq(Nat) /\ base' \in Nat /\ nextIdx' \in Nat
           /\ total' = total /\ finished' = finished
<1> DEFINE avail == Len(buf)
           valid == Smaller(avail, Window)
           drop == Smaller(avail, Chunk)
           pcm == [j \in 1..Window |-> IF j <= valid THEN buf[j] ELSE 0]
<1>1. avail \in Nat /\ Window \in Nat /\ valid \in Nat /\ valid <= avail
      /\ drop \in Nat /\ drop <= avail
  BY DEF TypeChunker, Window, Smaller
<1>2. \A j \in 1..Window : (IF j <= valid THEN buf[j] ELSE 0) \in Nat
  BY <1>1 DEF TypeChunker
<1>3. pcm \in Seq(Nat)
  BY <1>1, <1>2, FunSeq
<1>4. SubSeq(buf, drop + 1, avail) \in Seq(Nat)
  <2>1. \A i \in (drop + 1)..avail : buf[i] \in Nat
    BY <1>1 DEF TypeChunker
  <2>2. QED
    BY <1>1, <2>1, SubSeqProperties
<1>5. [index |-> nextIdx, start |-> base, pcm |-> pcm] \in WindowType
  BY <1>3 DEF WindowType, TypeChunker
<1>6. /\ todo' = Append(todo, [index |-> nextIdx, start |-> base, pcm |-> pcm])
      /\ buf' = SubSeq(buf, drop + 1, avail)
      /\ base' = base + Chunk /\ nextIdx' = nextIdx + 1
      /\ total' = total /\ finished' = finished
  BY DEF chunker_next
<1> HIDE DEF pcm
<1>7. Append(todo, [index |-> nextIdx, start |-> base, pcm |-> pcm])
         \in Seq(WindowType)
      /\ Append(todo, [index |-> nextIdx, start |-> base, pcm |-> pcm]) # << >>
  <2> DEFINE w == [index |-> nextIdx, start |-> base, pcm |-> pcm]
  <2>1. todo \in Seq(WindowType) /\ w \in WindowType
    BY <1>5 DEF TypeWindows
  <2> HIDE DEF w
  <2>2. Append(todo, w) \in Seq(WindowType) /\ Append(todo, w) # << >>
    BY <2>1, AppendProperties, EmptySeq
  <2>3. QED
    BY <2>2 DEF w
<1>8. base + Chunk \in Nat /\ nextIdx + 1 \in Nat
  BY DEF TypeChunker
<1>9. QED
  BY <1>4, <1>6, <1>7, <1>8

(* No session, nothing to do.                                              *)
LEMMA InitIInv == Init => IInv
<1> SUFFICES ASSUME Init PROVE IInv
  OBVIOUS
<1>1. /\ << >> \in Seq(Nat) /\ << >> \in Seq(WindowType)
      /\ << >> \in Seq(Seq(Nat)) /\ << >> \in Seq(RowType)
      /\ Len(<< >>) = 0
  BY EmptySeq
<1>2. TypeOK
  <2>1. opt \in [fold : BOOLEAN, ahead : BOOLEAN] /\ pc = "closed" /\ Fresh
    BY DEF Init
  <2>2. 0 \in Nat /\ 0 \in 0..MaxNew
    OBVIOUS
  <2>3. QED
    BY <1>1, <2>1, <2>2, Zenon DEF Fresh, TypeOK, TypeCalls, TypeChunker, TypeWindows,
       TypeModel, TypeText, Token, Status
<1>3. KvBounded /\ CancelIsPrompt /\ LateSane
  BY <1>1 DEF Init, Fresh, KvBounded, CancelIsPrompt, LateSane, InChunk
<1>4. StepsSane
  BY DEF Init, Fresh, StepsSane, InCall, InChunk
<1>5. QED
  BY <1>2, <1>3, <1>4 DEF IInv

(* A failure ends the call and keeps everything else within its bounds.    *)
LEMMA FailIInv ==
    ASSUME IInv, failed = "OK",
           NEW st \in Status \ {"OK"}, fail(st),
           TypeChunker', aheadFirst' \in Nat, aheadFeats' \in Seq(Seq(Nat)),
           TypeModel', TypeText', chunks' \in Nat, UNCHANGED <<opt, cancel>>,
           Len(cache') <= Capacity,
           late' \in Nat, ~cancel => late' = 0, late' <= 2
    PROVE  IInv'
<1>1. /\ pc' = "idle" /\ call' = "none" /\ ret' = st /\ todo' = << >>
      /\ failed' = st /\ done' = done /\ final' \in {"ERROR", final}
  BY DEF fail, Return
<1>2. << >> \in Seq(WindowType)
  BY EmptySeq
<1>3. TypeOK'
  BY <1>1, <1>2 DEF IInv, TypeOK, TypeCalls, TypeWindows
<1>4. KvBounded' /\ CancelIsPrompt' /\ LateSane'
  BY <1>1 DEF KvBounded, CancelIsPrompt, LateSane
<1>5. StepsSane'
  BY <1>1 DEF StepsSane, InCall, InChunk
<1>6. QED
  BY <1>3, <1>4, <1>5 DEF IInv

(* A step that changes none of the variables changes nothing.              *)
LEMMA StutterIInv == IInv /\ UNCHANGED vars => IInv'
<1> SUFFICES ASSUME IInv, UNCHANGED vars PROVE IInv'
  OBVIOUS
<1> USE DEF vars, control, chunker, encoded, kv, decode, text, status
<1>1. TypeOK'
  BY DEF IInv, TypeOK, TypeCalls, TypeChunker, TypeWindows, TypeModel, TypeText
<1>2. KvBounded' /\ CancelIsPrompt' /\ LateSane'
  BY DEF IInv, KvBounded, CancelIsPrompt, LateSane
<1>3. StepsSane'
  BY DEF IInv, StepsSane, InCall, kv_fits, n_rows, ready
<1>4. QED
  BY <1>1, <1>2, <1>3 DEF IInv
(* vv_stream_open: the prompt leaves room for one more position.           *)
LEMMA OpenIInv ==
    ASSUME IInv, Open
    PROVE  IInv'
<1> USE DEF control, chunker, encoded, kv, decode, text, status
<1>1. /\ pc = "closed" /\ pc' = "idle" /\ PromptLen + 1 <= Capacity
      /\ cache' = Rows("prompt", << >>, PromptLen)
      /\ UNCHANGED <<opt, call, ret, chunker, todo, encoded, lead, decode, text,
                     chunks, status, cancel, late>>
  BY DEF Open
<1>2. cache' \in Seq(RowType) /\ Len(cache') = PromptLen
  BY <1>1, RowsType, EmptySeq, ZenonT(40)
<1>3. TypeOK'
  BY <1>1, <1>2 DEF IInv, TypeOK, TypeCalls, TypeChunker, TypeWindows, TypeModel,
     TypeText
<1>4. KvBounded' /\ CancelIsPrompt' /\ LateSane'
  BY <1>1, <1>2 DEF IInv, KvBounded, CancelIsPrompt, LateSane, InChunk
<1>5. StepsSane'
  BY <1>1 DEF IInv, StepsSane, InCall, InChunk
<1>6. QED
  BY <1>3, <1>4, <1>5 DEF IInv

(* Returning a status without touching the session.                        *)
LEMMA ReturnIInv ==
    ASSUME IInv, pc = "idle", NEW st \in Status, Return(st),
           UNCHANGED <<opt, chunker, encoded, kv, decode, text, chunks, status,
                       cancel, late>>,
           finished /\ failed = "OK" => done
    PROVE  IInv'
<1> USE DEF control, chunker, encoded, kv, decode, text, status
<1>1. pc' = "idle" /\ call' = "none" /\ ret' = st /\ todo' = << >>
  BY DEF Return
<1>2. << >> \in Seq(WindowType)
  BY EmptySeq
<1>3. TypeOK'
  BY <1>1, <1>2 DEF IInv, TypeOK, TypeCalls, TypeChunker, TypeWindows, TypeModel,
     TypeText
<1>4. KvBounded' /\ CancelIsPrompt' /\ LateSane'
  BY <1>1 DEF IInv, KvBounded, CancelIsPrompt, LateSane, InChunk
<1>5. StepsSane'
  BY <1>1 DEF IInv, StepsSane, InCall, InChunk
<1>6. QED
  BY <1>3, <1>4, <1>5 DEF IInv

(* A failure in a call that has changed nothing yet.                       *)
LEMMA FailUnchangedIInv ==
    ASSUME IInv, failed = "OK", NEW st \in Status \ {"OK"}, fail(st),
           UNCHANGED <<opt, chunker, encoded, kv, decode, text, chunks, cancel,
                       late>>
    PROVE  IInv'
<1> USE DEF control, chunker, encoded, kv, decode, text, status
<1>1. TypeChunker' /\ TypeModel' /\ TypeText' /\ chunks' \in Nat
      /\ aheadFirst' \in Nat /\ aheadFeats' \in Seq(Seq(Nat)) /\ late' \in Nat
  BY DEF IInv, TypeOK, TypeCalls, TypeChunker, TypeWindows, TypeModel, TypeText
<1>2. Len(cache') <= Capacity /\ (~cancel => late' = 0) /\ late' <= 2
  BY DEF IInv, KvBounded, LateSane, CancelIsPrompt
<1>3. QED
  BY <1>1, <1>2, FailIInv

(* vv_stream_push.                                                         *)
LEMMA PushIInv ==
    ASSUME IInv, NEW n \in Nat, Push(n)
    PROVE  IInv'
<1> USE DEF control, chunker, encoded, kv, decode, text, status
<1>0. pc = "idle" /\ UNCHANGED <<opt, encoded, kv, decode, text, chunks, cancel, late>>
  BY DEF Push
<1>1. CASE failed # "OK" /\ Return(failed) /\ UNCHANGED <<chunker, status>>
  <2>1. failed \in Status
    BY DEF IInv, TypeOK, TypeCalls
  <2>2. QED
    BY <1>0, <1>1, <2>1, ReturnIInv
<1>2. CASE failed = "OK" /\ fail("CANCELLED") /\ UNCHANGED chunker
  BY <1>0, <1>2, FailUnchangedIInv DEF Status
<1>3. CASE done /\ Return("INVALID_ARG") /\ UNCHANGED <<chunker, status>>
  BY <1>0, <1>3, ReturnIInv DEF Status
<1>4. CASE failed = "OK" /\ fail("INVALID_ARG") /\ UNCHANGED chunker
  BY <1>0, <1>4, FailUnchangedIInv DEF Status
<1>5. CASE failed = "OK" /\ fail("FAILED") /\ UNCHANGED chunker
  BY <1>0, <1>5, FailUnchangedIInv DEF Status
<1>6. CASE /\ failed = "OK" /\ ~cancel /\ ~done /\ ~finished
           /\ buf' = buf \o [i \in 1..n |-> total + i]
           /\ total' = total + n
           /\ pc' = "drain" /\ call' = "push"
           /\ UNCHANGED <<ret, base, nextIdx, finished, todo, status>>
  <2>1. buf \in Seq(Nat) /\ total \in Nat
    BY DEF IInv, TypeOK, TypeChunker
  <2>2. [i \in 1..n |-> total + i] \in Seq(Nat)
    <3>1. [i \in 1..n |-> total + i] \in [1..n -> Nat]
      BY <2>1
    <3>2. QED
      BY <3>1, FunSeq
  <2>3. buf' \in Seq(Nat) /\ total' \in Nat
    BY <1>6, <2>1, <2>2, ConcatProperties
  <2>4. TypeOK'
    BY <1>0, <1>6, <2>3 DEF IInv, TypeOK, TypeCalls, TypeChunker, TypeWindows,
       TypeModel, TypeText
  <2>5. KvBounded' /\ CancelIsPrompt' /\ LateSane'
    BY <1>0, <1>6 DEF IInv, KvBounded, CancelIsPrompt, LateSane, InChunk
  <2>6. StepsSane'
    BY <1>0, <1>6 DEF IInv, StepsSane, InCall, InChunk
  <2>7. QED
    BY <2>4, <2>5, <2>6 DEF IInv
<1>7. QED
  BY <1>0, <1>1, <1>2, <1>3, <1>4, <1>5, <1>6 DEF Push, chunker_push

(* vv_stream_finish.                                                       *)
LEMMA FinishIInv ==
    ASSUME IInv, Finish
    PROVE  IInv'
<1> USE DEF control, chunker, encoded, kv, decode, text, status
<1>0. /\ pc = "idle"
      /\ UNCHANGED <<opt, buf, base, total, nextIdx, encoded, kv, decode, text,
                     chunks, cancel, late>>
  BY DEF Finish
<1>1. CASE failed # "OK" /\ Return(failed) /\ UNCHANGED <<finished, status>>
  <2>1. failed \in Status
    BY DEF IInv, TypeOK, TypeCalls
  <2>2. QED
    BY <1>0, <1>1, <2>1, ReturnIInv
<1>2. CASE done /\ Return("OK") /\ UNCHANGED <<finished, status>>
  BY <1>0, <1>2, ReturnIInv DEF Status
<1>3. CASE failed = "OK" /\ fail("CANCELLED") /\ UNCHANGED finished
  BY <1>0, <1>3, FailUnchangedIInv DEF Status
<1>4. CASE /\ failed = "OK" /\ ~done /\ ~cancel
           /\ finished' = TRUE /\ pc' = "drain" /\ call' = "finish"
           /\ UNCHANGED <<ret, todo, status>>
  <2>1. TypeOK'
    BY <1>0, <1>4 DEF IInv, TypeOK, TypeCalls, TypeChunker, TypeWindows,
       TypeModel, TypeText
  <2>2. KvBounded' /\ CancelIsPrompt' /\ LateSane'
    BY <1>0, <1>4 DEF IInv, KvBounded, CancelIsPrompt, LateSane, InChunk
  <2>3. StepsSane'
    BY <1>0, <1>4 DEF IInv, StepsSane, InCall, InChunk
  <2>4. QED
    BY <2>1, <2>2, <2>3 DEF IInv
<1>5. QED
  BY <1>0, <1>1, <1>2, <1>3, <1>4 DEF Finish

(* vv_stream_cancel.                                                       *)
LEMMA CancelIInv ==
    ASSUME IInv, Cancel
    PROVE  IInv'
<1> USE DEF control, chunker, encoded, kv, decode, text, status
<1>0. /\ pc # "closed" /\ cancel' = TRUE
      /\ UNCHANGED <<opt, control, chunker, todo, encoded, kv, decode, text,
                     chunks, status, late>>
  BY DEF Cancel
<1>1. TypeOK'
  BY <1>0 DEF IInv, TypeOK, TypeCalls, TypeChunker, TypeWindows, TypeModel,
     TypeText
<1>2. KvBounded' /\ CancelIsPrompt' /\ LateSane'
  BY <1>0 DEF IInv, KvBounded, CancelIsPrompt, LateSane
<1>3. StepsSane'
  BY <1>0 DEF IInv, StepsSane, InCall, kv_fits, n_rows, ready
<1>4. QED
  BY <1>1, <1>2, <1>3 DEF IInv

(* vv_stream_close.                                                        *)
LEMMA CloseIInv ==
    ASSUME IInv, Close
    PROVE  IInv'
<1>1. /\ << >> \in Seq(Nat) /\ << >> \in Seq(WindowType)
      /\ << >> \in Seq(Seq(Nat)) /\ << >> \in Seq(RowType)
      /\ Len(<< >>) = 0
  BY EmptySeq
<1>2. 0 \in Nat /\ 0 \in 0..MaxNew
  OBVIOUS
<1>3. opt' \in [fold : BOOLEAN, ahead : BOOLEAN]
  BY DEF Close, IInv, TypeOK, TypeCalls
<1>4. TypeOK'
  BY <1>1, <1>2, <1>3, Zenon DEF Close, TypeOK, TypeCalls, TypeChunker,
     TypeWindows, TypeModel, TypeText, Token, Status
<1>5. KvBounded' /\ CancelIsPrompt' /\ LateSane'
  BY <1>1 DEF Close, KvBounded, CancelIsPrompt, LateSane, InChunk
<1>6. StepsSane'
  BY DEF Close, StepsSane, InCall, InChunk
<1>7. QED
  BY <1>4, <1>5, <1>6 DEF IInv

(* The end of drain: a push or a finish that is through.                   *)
LEMMA DrainedIInv ==
    ASSUME IInv, Drained
    PROVE  IInv'
<1> USE DEF control, chunker, encoded, kv, decode, text, status
<1>0. /\ pc = "drain" /\ pc' = "idle" /\ call' = "none" /\ ret' = "OK"
      /\ todo' = << >>
      /\ IF call = "finish" THEN done' = TRUE /\ final' = "DONE"
                            ELSE UNCHANGED <<done, final>>
      /\ UNCHANGED <<opt, chunker, encoded, kv, decode, text, chunks, failed,
                     cancel, late>>
  BY DEF Drained, Return
<1>1. << >> \in Seq(WindowType)
  BY EmptySeq
<1>2. TypeOK'
  BY <1>0, <1>1, ZenonT(40) DEF IInv, TypeOK, TypeCalls, TypeChunker, TypeWindows, TypeModel,
     TypeText, Status
<1>3. KvBounded' /\ CancelIsPrompt' /\ LateSane'
  BY <1>0 DEF IInv, KvBounded, CancelIsPrompt, LateSane, InChunk
<1>4. StepsSane'
  BY <1>0 DEF IInv, StepsSane, InCall, InChunk
<1>5. QED
  BY <1>2, <1>3, <1>4 DEF IInv
(* drain, with a window ready.                                             *)
LEMMA DrainIInv ==
    ASSUME IInv, Drain
    PROVE  IInv'
<1> USE DEF control, chunker, encoded, kv, decode, text, status
<1>ok. failed = "OK"
  BY DEF IInv, StepsSane, InCall, Drain
<1>0. /\ pc = "drain" /\ ready > 0
      /\ UNCHANGED <<opt, encoded, kv, decode, text, chunks, cancel, late>>
  BY DEF Drain
<1>1. CASE fail("CANCELLED") /\ UNCHANGED chunker
  BY <1>ok, <1>0, <1>1, FailUnchangedIInv DEF Status
<1>2. CASE Goto("pop") /\ UNCHANGED <<chunker, todo, status>>
  <2>91. TypeOK'
    BY <1>0, <1>2, <1>ok DEF IInv, TypeOK, TypeCalls, TypeChunker,
       TypeWindows, TypeModel, TypeText, Goto, Token
  <2>92. KvBounded'
    BY <1>0, <1>2, <1>ok DEF IInv, KvBounded, StepsSane, InCall, InChunk, kv_fits, n_rows, Goto
  <2>93. CancelIsPrompt' /\ LateSane'
    BY <1>0, <1>2, <1>ok DEF IInv, CancelIsPrompt, LateSane, Goto
  <2>94. StepsSane'
    BY <1>0, <1>2, <1>ok DEF IInv, TypeOK, TypeModel, StepsSane, InCall, InChunk, kv_fits, n_rows, ready, Goto
  <2>95. QED
    BY <2>91, <2>92, <2>93, <2>94 DEF IInv
<1>3. CASE chunker_next /\ Goto("chunk") /\ UNCHANGED status
  <2>1. /\ todo' \in Seq(WindowType) /\ todo' # << >>
        /\ buf' \in Seq(Nat) /\ base' \in Nat /\ nextIdx' \in Nat
        /\ total' = total /\ finished' = finished
    BY <1>3, NextType DEF IInv, TypeOK
  <2>91. TypeOK'
    BY <1>0, <1>3, <1>ok, <2>1 DEF IInv, TypeOK, TypeCalls, TypeChunker,
       TypeWindows, TypeModel, TypeText, Goto, Token
  <2>92. KvBounded'
    BY <1>0, <1>3, <1>ok, <2>1 DEF IInv, KvBounded, StepsSane, InCall, InChunk, kv_fits, n_rows, Goto
  <2>93. CancelIsPrompt' /\ LateSane'
    BY <1>0, <1>3, <1>ok, <2>1 DEF IInv, CancelIsPrompt, LateSane, Goto
  <2>94. StepsSane'
    BY <1>0, <1>3, <1>ok, <2>1 DEF IInv, TypeOK, TypeModel, StepsSane, InCall, InChunk, kv_fits, n_rows, ready, Goto
  <2>95. QED
    BY <2>91, <2>92, <2>93, <2>94 DEF IInv
<1>4. QED
  BY <1>0, <1>1, <1>2, <1>3 DEF Drain

(* Filling the ahead buffer.                                               *)
LEMMA PopIInv ==
    ASSUME IInv, Pop
    PROVE  IInv'
<1> USE DEF control, chunker, encoded, kv, decode, text, status
<1>ok. failed = "OK"
  BY DEF IInv, StepsSane, InCall, Pop
<1>0. /\ pc = "pop"
      /\ UNCHANGED <<opt, encoded, kv, decode, text, chunks, status, cancel, late>>
  BY DEF Pop
<1>1. CASE chunker_next /\ UNCHANGED control
  <2>1. /\ todo' \in Seq(WindowType) /\ todo' # << >>
        /\ buf' \in Seq(Nat) /\ base' \in Nat /\ nextIdx' \in Nat
        /\ total' = total /\ finished' = finished
    BY <1>1, NextType DEF IInv, TypeOK
  <2>91. TypeOK'
    BY <1>0, <1>1, <1>ok, <2>1 DEF IInv, TypeOK, TypeCalls, TypeChunker,
       TypeWindows, TypeModel, TypeText, Goto, Token
  <2>92. KvBounded'
    BY <1>0, <1>1, <1>ok, <2>1 DEF IInv, KvBounded, StepsSane, InCall, InChunk, kv_fits, n_rows, Goto
  <2>93. CancelIsPrompt' /\ LateSane'
    BY <1>0, <1>1, <1>ok, <2>1 DEF IInv, CancelIsPrompt, LateSane, Goto
  <2>94. StepsSane'
    BY <1>0, <1>1, <1>ok, <2>1 DEF IInv, TypeOK, TypeModel, StepsSane, InCall, InChunk, kv_fits, n_rows, Goto
  <2>95. QED
    BY <2>91, <2>92, <2>93, <2>94 DEF IInv
<1>2. CASE /\ ~(ready > 0 /\ Len(todo) < AheadMax)
           /\ Goto("encode") /\ UNCHANGED <<chunker, todo>>
  <2>1. todo # << >>
    <3>1. CASE ready > 0
      BY <1>2, <3>1, EmptySeq
    <3>2. CASE ~(ready > 0)
      BY <1>0, <3>2 DEF IInv, StepsSane
    <3>3. QED
      BY <3>1, <3>2
  <2>91. TypeOK'
    BY <1>0, <1>2, <1>ok, <2>1 DEF IInv, TypeOK, TypeCalls, TypeChunker,
       TypeWindows, TypeModel, TypeText, Goto, Token
  <2>92. KvBounded'
    BY <1>0, <1>2, <1>ok, <2>1 DEF IInv, KvBounded, StepsSane, InCall, InChunk, kv_fits, n_rows, Goto
  <2>93. CancelIsPrompt' /\ LateSane'
    BY <1>0, <1>2, <1>ok, <2>1 DEF IInv, CancelIsPrompt, LateSane, Goto
  <2>94. StepsSane'
    BY <1>0, <1>2, <1>ok, <2>1 DEF IInv, TypeOK, TypeModel, StepsSane, InCall, InChunk, kv_fits, n_rows, Goto
  <2>95. QED
    BY <2>91, <2>92, <2>93, <2>94 DEF IInv
<1>3. QED
  BY <1>0, <1>1, <1>2 DEF Pop

(* gpu_encode_ahead.                                                       *)
LEMMA EncodeAheadIInv ==
    ASSUME IInv, EncodeAhead
    PROVE  IInv'
<1> USE DEF control, chunker, encoded, kv, decode, text, status
<1>ok. failed = "OK"
  BY DEF IInv, StepsSane, InCall, EncodeAhead
<1>0. /\ pc = "encode" /\ Work
      /\ UNCHANGED <<opt, chunker, kv, decode, text, chunks, cancel>>
  BY DEF EncodeAhead
<1>1. todo \in Seq(WindowType) /\ todo # << >> /\ Len(todo) \in Nat /\ Len(todo) # 0
  BY <1>0, EmptySeq DEF IInv, TypeOK, TypeWindows, StepsSane
<1>2. late' \in Nat /\ late' <= 1 /\ (~cancel => late' = 0)
  BY <1>0 DEF Work, IInv, LateSane, TypeOK, TypeCalls
<1>3. CASE /\ aheadFirst' = todo[1].index
           /\ aheadFeats' = [i \in 1..Len(todo) |-> todo[i].pcm]
           /\ Goto("chunk") /\ UNCHANGED <<todo, status>>
  <2>1. \A i \in 1..Len(todo) : todo[i] \in WindowType
    BY <1>1
  <2>2. \A i \in 1..Len(todo) : todo[i].pcm \in Seq(Nat) /\ todo[i].index \in Nat
    BY <2>1 DEF WindowType
  <2>3. aheadFirst' \in Nat
    BY <1>1, <1>3, <2>2
  <2>4. [i \in 1..Len(todo) |-> todo[i].pcm] \in [1..Len(todo) -> Seq(Nat)]
    BY <2>2
  <2>5. aheadFeats' \in Seq(Seq(Nat))
    BY <1>1, <1>3, <2>4, FunSeq
  <2>91. TypeOK'
    BY <1>0, <1>1, <1>2, <1>3, <1>ok, <2>3, <2>5 DEF IInv, TypeOK, TypeCalls, TypeChunker,
       TypeWindows, TypeModel, TypeText, Goto, Token
  <2>92. KvBounded'
    BY <1>0, <1>1, <1>2, <1>3, <1>ok, <2>3, <2>5 DEF IInv, KvBounded, StepsSane, InCall, InChunk, kv_fits, n_rows, Goto
  <2>93. CancelIsPrompt' /\ LateSane'
    BY <1>0, <1>1, <1>2, <1>3, <1>ok, <2>3, <2>5 DEF IInv, CancelIsPrompt, LateSane, Goto
  <2>94. StepsSane'
    BY <1>0, <1>1, <1>2, <1>3, <1>ok, <2>3, <2>5 DEF IInv, TypeOK, TypeModel, StepsSane, InCall, InChunk, kv_fits, n_rows, ready, Goto
  <2>95. QED
    BY <2>91, <2>92, <2>93, <2>94 DEF IInv
<1>4. CASE aheadFeats' = << >> /\ fail("FAILED") /\ UNCHANGED aheadFirst
  <2>1. aheadFeats' \in Seq(Seq(Nat))
    BY <1>4, EmptySeq
  <2>2. /\ TypeChunker' /\ TypeModel' /\ TypeText' /\ chunks' \in Nat
        /\ aheadFirst' \in Nat
    BY <1>0, <1>4 DEF IInv, TypeOK, TypeCalls, TypeChunker, TypeWindows,
       TypeModel, TypeText
  <2>3. Len(cache') <= Capacity
    BY <1>0 DEF IInv, KvBounded
  <2>4. QED
    BY <1>ok, <1>0, <1>2, <1>4, <2>1, <2>2, <2>3, FailIInv DEF Status
<1>5. QED
  BY <1>0, <1>3, <1>4 DEF EncodeAhead

(* run_chunk, up to the prefill.                                           *)
LEMMA StartChunkIInv ==
    ASSUME IInv, StartChunk
    PROVE  IInv'
<1> USE DEF control, chunker, encoded, kv, decode, text, status
<1>ok. failed = "OK"
  BY DEF IInv, StepsSane, InCall, StartChunk
<1>0. /\ pc = "chunk"
      /\ UNCHANGED <<opt, chunker, encoded, kv, decode, text, chunks, cancel, late>>
  BY DEF StartChunk
<1>1. CASE fail("CANCELLED")
  BY <1>ok, <1>0, <1>1, FailUnchangedIInv DEF Status
<1>2. CASE fail("OVERFLOW")
  BY <1>ok, <1>0, <1>2, FailUnchangedIInv DEF Status
<1>3. CASE ~cancel /\ kv_fits(n_rows + 1) /\ Goto("prefill") /\ UNCHANGED <<todo, status>>
  <2>91. TypeOK'
    BY <1>0, <1>3, <1>ok DEF IInv, TypeOK, TypeCalls, TypeChunker,
       TypeWindows, TypeModel, TypeText, Goto, Token
  <2>92. KvBounded'
    BY <1>0, <1>3, <1>ok DEF IInv, KvBounded, StepsSane, InCall, InChunk, kv_fits, n_rows, Goto
  <2>93. CancelIsPrompt' /\ LateSane'
    BY <1>0, <1>3, <1>ok DEF IInv, CancelIsPrompt, LateSane, Goto
  <2>94. StepsSane'
    BY <1>0, <1>3, <1>ok DEF IInv, TypeOK, TypeModel, StepsSane, InCall, InChunk, kv_fits, n_rows, ready, Goto
  <2>95. QED
    BY <2>91, <2>92, <2>93, <2>94 DEF IInv
<1>4. QED
  BY <1>0, <1>1, <1>2, <1>3 DEF StartChunk

(* The features of a window, encoded ahead or now, are a row of samples.   *)
LEMMA FeaturesType ==
    ASSUME TypeWindows, todo # << >>
    PROVE  Features(todo[1]) \in Seq(Nat)
<1>1. 1 \in 1..Len(todo) /\ todo[1] \in WindowType
  BY EmptySeq DEF TypeWindows
<1>2. todo[1].index \in Nat /\ todo[1].pcm \in Seq(Nat)
  BY <1>1 DEF WindowType
<1> DEFINE k == todo[1].index - aheadFirst + 1
<1>3. CASE /\ todo[1].index >= aheadFirst
           /\ todo[1].index < aheadFirst + Len(aheadFeats)
  <2>1. k \in 1..Len(aheadFeats)
    BY <1>2, <1>3 DEF TypeWindows
  <2>2. aheadFeats[k] \in Seq(Nat)
    BY <2>1, ElementOfSeq DEF TypeWindows
  <2>3. QED
    BY <1>3, <2>2 DEF Features
<1>4. QED
  BY <1>2, <1>3 DEF Features

(* be.prefill_chunk: the rows that kv_fits counted.                        *)
LEMMA PrefillIInv ==
    ASSUME IInv, Prefill
    PROVE  IInv'
<1> USE DEF control, chunker, encoded, kv, decode, text, status
<1>ok. failed = "OK"
  BY DEF IInv, StepsSane, InCall, Prefill
<1> DEFINE rows == chunk_layout(Features(todo[1]))
<1>0. /\ pc = "prefill" /\ Work
      /\ UNCHANGED <<opt, chunker, encoded, tokens, held, transcript, shown,
                     chunks, cancel>>
  BY DEF Prefill
<1>1. TypeWindows /\ todo # << >> /\ kv_fits(n_rows + 1) /\ lead \in BOOLEAN
      /\ cache \in Seq(RowType)
  BY <1>0 DEF IInv, StepsSane, TypeOK, TypeModel
<1>2. rows \in Seq(RowType) /\ Len(rows) = n_rows /\ n_rows \in Nat
  BY <1>1, FeaturesType, LayoutType
<1> HIDE DEF rows
<1>3. cache \o rows \in Seq(RowType) /\ Len(cache \o rows) = Len(cache) + n_rows
      /\ Len(cache) \in Nat
  <2>1. cache \o rows \in Seq(RowType) /\ Len(cache \o rows) = Len(cache) + Len(rows)
    BY <1>1, <1>2, ConcatProperties
  <2>2. QED
    BY <1>1, <1>2, <2>1, LenProperties
<1>4. Len(cache \o rows) + 1 <= Capacity
  BY <1>1, <1>2, <1>3 DEF kv_fits
<1>5. late' \in Nat /\ late' <= 1 /\ (~cancel => late' = 0)
  BY <1>0 DEF Work, IInv, LateSane, TypeOK, TypeCalls
<1>6. CASE /\ cache' = cache \o rows /\ lead' = FALSE
           /\ tok' \in Token /\ step' = 0
           /\ chunkText' = << >> /\ Goto("decode") /\ UNCHANGED <<todo, status>>
  <2>1. chunkText' \in Seq(Nat)
    BY <1>6, EmptySeq
  <2>2. cache' \in Seq(RowType) /\ Len(cache') + 1 <= Capacity /\ Len(cache') \in Nat
    BY <1>2, <1>3, <1>4, <1>6
  <2>91. TypeOK'
    <3>1. TypeCalls' /\ TypeChunker' /\ TypeWindows'
      BY <1>0, <1>5, <1>6 DEF IInv, TypeOK, TypeCalls, TypeChunker, TypeWindows,
         Goto
    <3>2. TypeModel'
      <4>1. tokens' \in Nat
        BY <1>0 DEF IInv, TypeOK, TypeModel
      <4>2. 0 \in 0..MaxNew
        OBVIOUS
      <4>3. QED
        BY <1>6, <2>2, <4>1, <4>2, Zenon DEF TypeModel
    <3>3. TypeText'
      BY <1>0, <2>1 DEF IInv, TypeOK, TypeText
    <3>4. QED
      BY <3>1, <3>2, <3>3 DEF TypeOK
  <2>92. KvBounded'
    BY <1>0, <1>1, <1>5, <1>6, <1>ok, <2>1, <2>2 DEF IInv, KvBounded, StepsSane, InCall, InChunk, kv_fits, n_rows, Goto
  <2>93. CancelIsPrompt' /\ LateSane'
    BY <1>0, <1>1, <1>5, <1>6, <1>ok, <2>1, <2>2 DEF IInv, CancelIsPrompt, LateSane, Goto
  <2>94. StepsSane'
    BY <1>0, <1>1, <1>5, <1>6, <1>ok, <2>1, <2>2 DEF IInv, TypeOK, TypeModel, StepsSane, InCall, InChunk, kv_fits, n_rows, ready, Goto
  <2>95. QED
    BY <2>91, <2>92, <2>93, <2>94 DEF IInv
<1>7. CASE /\ cache' \in {cache, cache \o rows} /\ fail("FAILED")
           /\ UNCHANGED <<lead, tok, step, chunkText>>
  <2>1. /\ TypeChunker' /\ TypeModel' /\ TypeText' /\ chunks' \in Nat
        /\ aheadFirst' \in Nat /\ aheadFeats' \in Seq(Seq(Nat))
    BY <1>ok, <1>0, <1>1, <1>2, <1>3, <1>4, <1>5, <1>7 DEF IInv, TypeOK, TypeCalls, TypeChunker,
       TypeWindows, TypeModel, TypeText
  <2>2. Len(cache') <= Capacity
    BY <1>ok, <1>0, <1>1, <1>2, <1>3, <1>4, <1>5, <1>7 DEF IInv, KvBounded
  <2>3. QED
    BY <1>ok, <1>0, <1>1, <1>2, <1>3, <1>4, <1>5, <1>7, <2>1, <2>2, FailIInv DEF Status
<1>8. QED
  BY <1>0, <1>6, <1>7 DEF Prefill, rows

(* Releasing a prefix of the held text keeps the texts sequences.          *)
LEMMA EmitType ==
    ASSUME TypeText, NEW pending \in Seq(Nat), NEW n \in 0..Len(pending),
           emit_delta(pending, n)
    PROVE  TypeText'
<1>1. SubSeq(pending, 1, n) \in Seq(Nat)
      /\ SubSeq(pending, n + 1, Len(pending)) \in Seq(Nat)
  <2>1. \A i \in 1..Len(pending) : pending[i] \in Nat
    OBVIOUS
  <2>2. QED
    BY <2>1, SubSeqProperties
<1>2. QED
  BY <1>1, ConcatProperties DEF emit_delta, TypeText

(* The decode loop ends.                                                   *)
LEMMA DecodeStopIInv ==
    ASSUME IInv, DecodeStop
    PROVE  IInv'
<1> USE DEF control, chunker, encoded, kv, decode, text, status
<1>ok. failed = "OK"
  BY DEF IInv, StepsSane, InCall, DecodeStop
<1>0. /\ pc = "decode" /\ Goto("end")
      /\ UNCHANGED <<opt, chunker, todo, encoded, kv, decode, text, chunks,
                     status, cancel, late>>
  BY DEF DecodeStop
<1>91. TypeOK'
  BY <1>0, <1>ok DEF IInv, TypeOK, TypeCalls, TypeChunker,
     TypeWindows, TypeModel, TypeText, Goto, Token
<1>92. KvBounded'
  BY <1>0, <1>ok DEF IInv, KvBounded, StepsSane, InCall, InChunk, kv_fits, n_rows, Goto
<1>93. CancelIsPrompt' /\ LateSane'
  BY <1>0, <1>ok DEF IInv, CancelIsPrompt, LateSane, Goto
<1>94. StepsSane'
  BY <1>0, <1>ok DEF IInv, TypeOK, TypeModel, StepsSane, InCall, InChunk, kv_fits, n_rows, ready, Goto
<1>95. QED
  BY <1>91, <1>92, <1>93, <1>94 DEF IInv

(* A text token is counted and its text shown.                             *)
LEMMA DecodeTextIInv ==
    ASSUME IInv, DecodeText
    PROVE  IInv'
<1> USE DEF control, chunker, encoded, kv, decode, text, status
<1>ok. failed = "OK"
  BY DEF IInv, StepsSane, InCall, DecodeText
<1>0. /\ pc = "decode" /\ step < MaxNew /\ tokens' = tokens + 1
      /\ UNCHANGED <<opt, chunker, encoded, kv, tok, step, chunks, cancel, late>>
  BY DEF DecodeText
<1>1. tokens' \in Nat
  BY <1>0 DEF IInv, TypeOK, TypeModel
<1>2. CASE /\ \E n \in 0..(Len(held) + 1) :
                  emit_delta(Append(held, tokens + 1), n)
           /\ Goto("feed") /\ UNCHANGED <<todo, status>>
  <2>1. PICK n \in 0..(Len(held) + 1) : emit_delta(Append(held, tokens + 1), n)
    BY <1>2
  <2>2. held \in Seq(Nat) /\ tokens + 1 \in Nat
    BY DEF IInv, TypeOK, TypeText, TypeModel
  <2>3. Append(held, tokens + 1) \in Seq(Nat)
        /\ Len(Append(held, tokens + 1)) = Len(held) + 1
    BY <2>2, AppendProperties
  <2>4. TypeText'
    BY <2>1, <2>3, EmitType DEF IInv, TypeOK
  <2>91. TypeOK'
    BY <1>0, <1>1, <1>2, <1>ok, <2>4 DEF IInv, TypeOK, TypeCalls, TypeChunker,
       TypeWindows, TypeModel, TypeText, Goto, Token
  <2>92. KvBounded'
    BY <1>0, <1>1, <1>2, <1>ok, <2>4 DEF IInv, KvBounded, StepsSane, InCall, InChunk, kv_fits, n_rows, Goto
  <2>93. CancelIsPrompt' /\ LateSane'
    BY <1>0, <1>1, <1>2, <1>ok, <2>4 DEF IInv, CancelIsPrompt, LateSane, Goto
  <2>94. StepsSane'
    BY <1>0, <1>1, <1>2, <1>ok, <2>4 DEF IInv, TypeOK, TypeModel, StepsSane, InCall, InChunk, kv_fits, n_rows, ready, Goto
  <2>95. QED
    BY <2>91, <2>92, <2>93, <2>94 DEF IInv
<1>3. CASE fail("FAILED") /\ UNCHANGED text
  <2>1. /\ TypeChunker' /\ TypeModel' /\ TypeText' /\ chunks' \in Nat
        /\ aheadFirst' \in Nat /\ aheadFeats' \in Seq(Seq(Nat))
    BY <1>ok, <1>0, <1>1, <1>3 DEF IInv, TypeOK, TypeCalls, TypeChunker,
       TypeWindows, TypeModel, TypeText
  <2>2. Len(cache') <= Capacity
    BY <1>ok, <1>0, <1>1, <1>3 DEF IInv, KvBounded
  <2>3. QED
    BY <1>ok, <1>0, <1>1, <1>3, <2>1, <2>2, FailIInv
    DEF Status, IInv, LateSane, CancelIsPrompt, TypeOK, TypeCalls
<1>4. QED
  BY <1>0, <1>2, <1>3 DEF DecodeText

(* Between two tokens.                                                     *)
LEMMA FeedTokenIInv ==
    ASSUME IInv, FeedToken
    PROVE  IInv'
<1> USE DEF control, chunker, encoded, kv, decode, text, status
<1>ok. failed = "OK"
  BY DEF IInv, StepsSane, InCall, FeedToken
<1>0. /\ pc = "feed"
      /\ UNCHANGED <<opt, chunker, encoded, kv, decode, text, chunks, cancel, late>>
  BY DEF FeedToken
<1>1. CASE fail("CANCELLED")
  BY <1>ok, <1>0, <1>1, FailUnchangedIInv DEF Status
<1>2. CASE fail("OVERFLOW")
  BY <1>ok, <1>0, <1>2, FailUnchangedIInv DEF Status
<1>3. CASE ~cancel /\ kv_fits(2) /\ Goto("step") /\ UNCHANGED <<todo, status>>
  <2>91. TypeOK'
    BY <1>0, <1>3, <1>ok DEF IInv, TypeOK, TypeCalls, TypeChunker,
       TypeWindows, TypeModel, TypeText, Goto, Token
  <2>92. KvBounded'
    BY <1>0, <1>3, <1>ok DEF IInv, KvBounded, StepsSane, InCall, InChunk, kv_fits, n_rows, Goto
  <2>93. CancelIsPrompt' /\ LateSane'
    BY <1>0, <1>3, <1>ok DEF IInv, CancelIsPrompt, LateSane, Goto
  <2>94. StepsSane'
    BY <1>0, <1>3, <1>ok DEF IInv, TypeOK, TypeModel, StepsSane, InCall, InChunk, kv_fits, n_rows, ready, Goto
  <2>95. QED
    BY <2>91, <2>92, <2>93, <2>94 DEF IInv
<1>4. QED
  BY <1>0, <1>1, <1>2, <1>3 DEF FeedToken

(* be.decode_step: the position that kv_fits(2) left.                      *)
LEMMA DecodeStepIInv ==
    ASSUME IInv, DecodeStep
    PROVE  IInv'
<1> USE DEF control, chunker, encoded, kv, decode, text, status
<1>ok. failed = "OK"
  BY DEF IInv, StepsSane, InCall, DecodeStep
<1> DEFINE fed == Append(cache, Row("token", <<tokens>>))
<1>0. /\ pc = "step" /\ Work
      /\ UNCHANGED <<opt, chunker, encoded, lead, tokens, text, chunks, cancel>>
  BY DEF DecodeStep
<1>1. cache \in Seq(RowType) /\ tokens \in Nat /\ step \in Nat /\ step + 1 <= MaxNew
      /\ Len(cache) + 2 <= Capacity
  BY <1>0 DEF IInv, StepsSane, TypeOK, TypeModel, kv_fits
<1>2. Row("token", <<tokens>>) \in RowType
  BY <1>1 DEF Row, RowType
<1>3. fed \in Seq(RowType) /\ Len(fed) = Len(cache) + 1
  BY <1>1, <1>2, AppendProperties
<1> HIDE DEF fed
<1>4. Len(fed) \in Nat /\ Len(fed) + 1 <= Capacity /\ Len(cache) \in Nat
      /\ Len(cache) <= Capacity
  BY <1>1, <1>3, LenProperties
<1>5. late' \in Nat /\ late' <= 1 /\ (~cancel => late' = 0)
  BY <1>0 DEF Work, IInv, LateSane, TypeOK, TypeCalls
<1>6. CASE /\ cache' = fed /\ tok' \in Token /\ step' = step + 1
           /\ Goto("decode") /\ UNCHANGED <<todo, status>>
  <2>1. cache' \in Seq(RowType) /\ Len(cache') + 1 <= Capacity /\ Len(cache') \in Nat
        /\ step' \in 0..MaxNew
    BY <1>1, <1>3, <1>4, <1>6
  <2>91. TypeOK'
    BY <1>0, <1>5, <1>6, <1>ok, <2>1 DEF IInv, TypeOK, TypeCalls, TypeChunker,
       TypeWindows, TypeModel, TypeText, Goto, Token
  <2>92. KvBounded'
    BY <1>0, <1>5, <1>6, <1>ok, <2>1 DEF IInv, KvBounded, StepsSane, InCall, InChunk, kv_fits, n_rows, Goto
  <2>93. CancelIsPrompt' /\ LateSane'
    BY <1>0, <1>5, <1>6, <1>ok, <2>1 DEF IInv, CancelIsPrompt, LateSane, Goto
  <2>94. StepsSane'
    BY <1>0, <1>5, <1>6, <1>ok, <2>1 DEF IInv, TypeOK, TypeModel, StepsSane, InCall, InChunk, kv_fits, n_rows, ready, Goto
  <2>95. QED
    BY <2>91, <2>92, <2>93, <2>94 DEF IInv
<1>7. CASE /\ cache' \in {cache, fed} /\ fail("FAILED")
           /\ UNCHANGED <<tok, step>>
  <2>1. /\ TypeChunker' /\ TypeModel' /\ TypeText' /\ chunks' \in Nat
        /\ aheadFirst' \in Nat /\ aheadFeats' \in Seq(Seq(Nat))
    BY <1>ok, <1>0, <1>1, <1>3, <1>4, <1>5, <1>7 DEF IInv, TypeOK, TypeCalls, TypeChunker,
       TypeWindows, TypeModel, TypeText
  <2>2. Len(cache') <= Capacity
    BY <1>ok, <1>0, <1>1, <1>3, <1>4, <1>5, <1>7 DEF IInv, KvBounded
  <2>3. QED
    BY <1>ok, <1>0, <1>1, <1>3, <1>4, <1>5, <1>7, <2>1, <2>2, FailIInv DEF Status
<1>8. QED
  BY <1>0, <1>6, <1>7 DEF DecodeStep, fed

(* The flush, and the chunk end folded or still to be fed.                 *)
LEMMA EndChunkIInv ==
    ASSUME IInv, EndChunk
    PROVE  IInv'
<1> USE DEF control, chunker, encoded, kv, decode, text, status
<1>ok. failed = "OK"
  BY DEF IInv, StepsSane, InCall, EndChunk
<1>0. /\ pc = "end"
      /\ UNCHANGED <<opt, chunker, encoded, cache, decode, chunks, cancel, late>>
  BY DEF EndChunk
<1>1. late' \in Nat /\ late' <= 1 /\ (~cancel => late' = 0) /\ opt.fold \in BOOLEAN
  BY <1>0 DEF IInv, LateSane, TypeOK, TypeCalls
<1>2. CASE /\ emit_delta(held, Len(held)) /\ lead' = opt.fold
           /\ Goto(IF opt.fold THEN "emit" ELSE "append")
           /\ UNCHANGED <<todo, status>>
  <2>1. held \in Seq(Nat) /\ Len(held) \in 0..Len(held)
    BY LenProperties DEF IInv, TypeOK, TypeText
  <2>2. TypeText'
    BY <1>2, <2>1, EmitType DEF IInv, TypeOK
  <2>3. pc' \in {"emit", "append"} /\ (pc' = "append" => ~lead') /\ lead' \in BOOLEAN
    BY <1>1, <1>2 DEF Goto
  <2>91. TypeOK'
    BY <1>0, <1>1, <1>2, <1>ok, <2>2, <2>3 DEF IInv, TypeOK, TypeCalls, TypeChunker,
       TypeWindows, TypeModel, TypeText, Goto, Token
  <2>92. KvBounded'
    BY <1>0, <1>1, <1>2, <1>ok, <2>2, <2>3 DEF IInv, KvBounded, StepsSane, InCall, InChunk, kv_fits, n_rows, Goto
  <2>93. CancelIsPrompt' /\ LateSane'
    BY <1>0, <1>1, <1>2, <1>ok, <2>2, <2>3 DEF IInv, CancelIsPrompt, LateSane, Goto
  <2>94. StepsSane'
    BY <1>0, <1>1, <1>2, <1>ok, <2>2, <2>3 DEF IInv, TypeOK, TypeModel, StepsSane, InCall, InChunk, kv_fits, n_rows, ready, Goto
  <2>95. QED
    BY <2>91, <2>92, <2>93, <2>94 DEF IInv
<1>3. CASE fail("FAILED") /\ UNCHANGED <<lead, text>>
  <2>1. /\ TypeChunker' /\ TypeModel' /\ TypeText' /\ chunks' \in Nat
        /\ aheadFirst' \in Nat /\ aheadFeats' \in Seq(Seq(Nat))
    BY <1>ok, <1>0, <1>1, <1>3 DEF IInv, TypeOK, TypeCalls, TypeChunker,
       TypeWindows, TypeModel, TypeText
  <2>2. Len(cache') <= Capacity
    BY <1>ok, <1>0, <1>1, <1>3 DEF IInv, KvBounded
  <2>3. QED
    BY <1>ok, <1>0, <1>1, <1>3, <2>1, <2>2, FailIInv DEF Status
<1>4. QED
  BY <1>0, <1>2, <1>3 DEF EndChunk

(* be.append_tokens: the position kept for the chunk end.                  *)
LEMMA AppendTokensIInv ==
    ASSUME IInv, AppendTokens
    PROVE  IInv'
<1> USE DEF control, chunker, encoded, kv, decode, text, status
<1>ok. failed = "OK"
  BY DEF IInv, StepsSane, InCall, AppendTokens
<1>0. /\ pc = "append" /\ Work
      /\ UNCHANGED <<opt, chunker, encoded, lead, decode, text, chunks, cancel>>
  BY DEF AppendTokens
<1>1. cache \in Seq(RowType) /\ Len(cache) + 1 <= Capacity /\ ~lead
  BY <1>0, <1>ok DEF IInv, StepsSane, TypeOK, TypeModel, KvBounded, InChunk
<1>2. cache \o ChunkEnd \in Seq(RowType) /\ Len(cache \o ChunkEnd) = Len(cache) + 1
  BY <1>1, ChunkEndType, ConcatProperties, ZenonT(40)
<1>3. Len(cache) \in Nat /\ Len(cache \o ChunkEnd) \in Nat
      /\ Len(cache \o ChunkEnd) <= Capacity /\ Len(cache) <= Capacity
  BY <1>1, <1>2, LenProperties
<1>4. late' \in Nat /\ late' <= 2 /\ (~cancel => late' = 0)
  BY <1>0 DEF Work, IInv, LateSane, TypeOK, TypeCalls
<1>5. CASE cache' = cache \o ChunkEnd /\ Goto("emit") /\ UNCHANGED <<todo, status>>
  <2>1. cache' \in Seq(RowType) /\ Len(cache') <= Capacity
    BY <1>2, <1>3, <1>5
  <2>91. TypeOK'
    BY <1>0, <1>1, <1>4, <1>5, <1>ok, <2>1 DEF IInv, TypeOK, TypeCalls, TypeChunker,
       TypeWindows, TypeModel, TypeText, Goto, Token
  <2>92. KvBounded'
    BY <1>0, <1>1, <1>4, <1>5, <1>ok, <2>1 DEF IInv, KvBounded, StepsSane, InCall, InChunk, kv_fits, n_rows, Goto
  <2>93. CancelIsPrompt' /\ LateSane'
    BY <1>0, <1>1, <1>4, <1>5, <1>ok, <2>1 DEF IInv, CancelIsPrompt, LateSane, Goto
  <2>94. StepsSane'
    BY <1>0, <1>1, <1>4, <1>5, <1>ok, <2>1 DEF IInv, TypeOK, TypeModel, StepsSane, InCall, InChunk, kv_fits, n_rows, ready, Goto
  <2>95. QED
    BY <2>91, <2>92, <2>93, <2>94 DEF IInv
<1>6. CASE cache' \in {cache, cache \o ChunkEnd} /\ fail("FAILED")
  <2>1. /\ TypeChunker' /\ TypeModel' /\ TypeText' /\ chunks' \in Nat
        /\ aheadFirst' \in Nat /\ aheadFeats' \in Seq(Seq(Nat))
    BY <1>ok, <1>0, <1>1, <1>2, <1>3, <1>4, <1>6 DEF IInv, TypeOK, TypeCalls, TypeChunker,
       TypeWindows, TypeModel, TypeText
  <2>2. Len(cache') <= Capacity
    BY <1>ok, <1>0, <1>1, <1>2, <1>3, <1>4, <1>6 DEF IInv, KvBounded
  <2>3. QED
    BY <1>ok, <1>0, <1>1, <1>2, <1>3, <1>4, <1>6, <2>1, <2>2, FailIInv DEF Status
<1>7. QED
  BY <1>0, <1>5, <1>6 DEF AppendTokens

(* The transcript and the CHUNK event.                                     *)
LEMMA EmitChunkIInv ==
    ASSUME IInv, EmitChunk
    PROVE  IInv'
<1> USE DEF control, chunker, encoded, kv, decode, text, status
<1>ok. failed = "OK"
  BY DEF IInv, StepsSane, InCall, EmitChunk
<1>0. /\ pc = "emit"
      /\ UNCHANGED <<opt, chunker, encoded, kv, decode, held, chunkText, shown,
                     cancel, late>>
  BY DEF EmitChunk
<1>1. late' \in Nat /\ late' <= 2 /\ (~cancel => late' = 0)
  BY <1>0 DEF IInv, LateSane, CancelIsPrompt, TypeOK, TypeCalls
<1>2. CASE /\ transcript' = transcript \o chunkText /\ chunks' = chunks + 1
           /\ Goto("check") /\ UNCHANGED <<todo, status>>
  <2>1. transcript' \in Seq(Nat) /\ chunks' \in Nat
    BY <1>2, ConcatProperties DEF IInv, TypeOK, TypeText, TypeCalls
  <2>91. TypeOK'
    BY <1>0, <1>1, <1>2, <1>ok, <2>1 DEF IInv, TypeOK, TypeCalls, TypeChunker,
       TypeWindows, TypeModel, TypeText, Goto, Token
  <2>92. KvBounded'
    BY <1>0, <1>1, <1>2, <1>ok, <2>1 DEF IInv, KvBounded, StepsSane, InCall, InChunk, kv_fits, n_rows, Goto
  <2>93. CancelIsPrompt' /\ LateSane'
    BY <1>0, <1>1, <1>2, <1>ok, <2>1 DEF IInv, CancelIsPrompt, LateSane, Goto
  <2>94. StepsSane'
    BY <1>0, <1>1, <1>2, <1>ok, <2>1 DEF IInv, TypeOK, TypeModel, StepsSane, InCall, InChunk, kv_fits, n_rows, ready, Goto
  <2>95. QED
    BY <2>91, <2>92, <2>93, <2>94 DEF IInv
<1>3. CASE fail("FAILED") /\ UNCHANGED <<transcript, chunks>>
  <2>1. /\ TypeChunker' /\ TypeModel' /\ TypeText' /\ chunks' \in Nat
        /\ aheadFirst' \in Nat /\ aheadFeats' \in Seq(Seq(Nat))
    BY <1>ok, <1>0, <1>1, <1>3 DEF IInv, TypeOK, TypeCalls, TypeChunker,
       TypeWindows, TypeModel, TypeText
  <2>2. Len(cache') <= Capacity
    BY <1>ok, <1>0, <1>1, <1>3 DEF IInv, KvBounded
  <2>3. QED
    BY <1>ok, <1>0, <1>1, <1>3, <2>1, <2>2, FailIInv DEF Status
<1>4. QED
  BY <1>0, <1>2, <1>3 DEF EmitChunk

(* The last line of run_chunk.                                             *)
LEMMA CheckCancelIInv ==
    ASSUME IInv, CheckCancel
    PROVE  IInv'
<1> USE DEF control, chunker, encoded, kv, decode, text, status
<1>ok. failed = "OK"
  BY DEF IInv, StepsSane, InCall, CheckCancel
<1>0. /\ pc = "check"
      /\ UNCHANGED <<opt, chunker, encoded, kv, decode, text, chunks, cancel, late>>
  BY DEF CheckCancel
<1>1. CASE fail("CANCELLED")
  BY <1>ok, <1>0, <1>1, FailUnchangedIInv DEF Status
<1>2. CASE /\ ~cancel /\ todo' = Tail(todo)
           /\ Goto(IF Tail(todo) = << >> THEN "drain" ELSE "chunk")
           /\ UNCHANGED status
  <2>1. Tail(todo) \in Seq(WindowType)
    BY <1>0, HeadTailProperties DEF IInv, StepsSane, TypeOK, TypeWindows
  <2>2. /\ todo' \in Seq(WindowType) /\ pc' \in {"drain", "chunk"}
        /\ pc' = "chunk" => todo' # << >>
        /\ UNCHANGED <<call, ret>>
    BY <1>2, <2>1 DEF Goto
  <2>3. late' = 0
    BY <1>0, <1>2 DEF IInv, LateSane
  <2>91. TypeOK'
    BY <1>0, <1>2, <1>ok, <2>2, <2>3 DEF IInv, TypeOK, TypeCalls, TypeChunker,
       TypeWindows, TypeModel, TypeText, Goto, Token
  <2>92. KvBounded'
    BY <1>0, <1>2, <1>ok, <2>2, <2>3 DEF IInv, KvBounded, StepsSane, InCall, InChunk, kv_fits, n_rows, Goto
  <2>93. CancelIsPrompt' /\ LateSane'
    BY <1>0, <1>2, <1>ok, <2>2, <2>3 DEF IInv, CancelIsPrompt, LateSane, Goto
  <2>94. StepsSane'
    BY <1>0, <1>2, <1>ok, <2>2, <2>3 DEF IInv, TypeOK, TypeModel, StepsSane, InCall, InChunk, kv_fits, n_rows, ready, Goto
  <2>95. QED
    BY <2>91, <2>92, <2>93, <2>94 DEF IInv
<1>3. QED
  BY <1>0, <1>1, <1>2 DEF CheckCancel

(* Every step keeps the invariant.                                         *)
LEMMA NextIInv == IInv /\ [Next]_vars => IInv'
<1> SUFFICES ASSUME IInv, [Next]_vars PROVE IInv'
  OBVIOUS
<1>1. ASSUME NEW n \in 0..(MaxTotal - total), Push(n) PROVE IInv'
  <2>1. n \in Nat
    BY <1>1 DEF IInv, TypeOK, TypeChunker
  <2>2. QED
    BY <1>1, <2>1, PushIInv
<1>2. CASE Running
  BY <1>2, DrainedIInv, DrainIInv, PopIInv, EncodeAheadIInv, StartChunkIInv,
     PrefillIInv, DecodeStopIInv, DecodeTextIInv, FeedTokenIInv, DecodeStepIInv,
     EndChunkIInv, AppendTokensIInv, EmitChunkIInv, CheckCancelIInv DEF Running
<1>3. CASE Open \/ Finish \/ Cancel \/ Close
  BY <1>3, OpenIInv, FinishIInv, CancelIInv, CloseIInv
<1>4. CASE UNCHANGED vars
  BY <1>4, StutterIInv
<1>5. QED
  BY <1>1, <1>2, <1>3, <1>4 DEF Next

(* The inductive invariant holds in every behaviour.                       *)
THEOREM Invariance == Spec => []IInv
  BY InitIInv, NextIInv, PTL DEF Spec

(* The session's variables keep their types.                               *)
THEOREM TypeCorrect == Spec => []TypeOK
<1>1. IInv => TypeOK
  BY DEF IInv
<1>2. QED
  BY <1>1, Invariance, PTL

(* A session never writes past its KV cache, and always has the position   *)
(* for the chunk end it still owes, whatever the audio and the tokens.     *)
THEOREM CacheNeverOverflows == Spec => []KvBounded
<1>1. IInv => KvBounded
  BY DEF IInv
<1>2. QED
  BY <1>1, Invariance, PTL

(* After vv_stream_cancel at most two more calls of the backend begin.     *)
THEOREM CancelTakesEffect == Spec => []CancelIsPrompt
<1>1. IInv => CancelIsPrompt
  BY DEF IInv
<1>2. QED
  BY <1>1, Invariance, PTL

(* Nothing follows a DONE or an ERROR event: no call that is made then gets*)
(* past the checks at its entry.                                           *)
LEMMA EndsOnceStep ==
    IInv /\ [Next]_vars =>
       (final # "none" /\ pc' # "closed" => UNCHANGED <<shown, chunks, final>>)
<1> SUFFICES ASSUME IInv, [Next]_vars, final # "none", pc' # "closed"
             PROVE  UNCHANGED <<shown, chunks, final>>
  OBVIOUS
<1> USE DEF control, chunker, encoded, kv, decode, text, status
<1>1. ~InCall /\ (failed # "OK" \/ done)
  BY DEF IInv, StepsSane
<1>2. ASSUME NEW n \in 0..(MaxTotal - total), Push(n)
      PROVE  UNCHANGED <<shown, chunks, final>>
  BY <1>1, <1>2 DEF Push, fail
<1>3. CASE Finish
  BY <1>1, <1>3 DEF Finish, fail
<1>4. CASE Open \/ Cancel
  BY <1>4 DEF Open, Cancel
<1>5. CASE Close
  BY <1>5 DEF Close
<1>6. CASE Running
  BY <1>1, <1>6 DEF Running, InCall, Drained, Drain, Pop, EncodeAhead, StartChunk,
     Prefill, DecodeStop, DecodeText, FeedToken, DecodeStep, EndChunk,
     AppendTokens, EmitChunk, CheckCancel
<1>7. CASE UNCHANGED vars
  BY <1>7 DEF vars
<1>8. QED
  BY <1>2, <1>3, <1>4, <1>5, <1>6, <1>7 DEF Next

(* A session reports its end once, whatever is called afterwards.          *)
THEOREM SessionEndsOnce == Spec => EndsOnce
<1>1. IInv /\ [Next]_vars =>
        [final # "none" /\ pc' # "closed" => UNCHANGED <<shown, chunks, final>>]_vars
  BY EndsOnceStep
<1>2. QED
  BY <1>1, Invariance, PTL DEF Spec, EndsOnce

-----------------------------------------------------------------------------
(* The text.  Lemmas about sequences first: the numbers up to n, and a     *)
(* prefix of b put behind a.                                               *)
Iota(n) == [i \in 1..n |-> i]

LEMMA IotaSeq ==
    ASSUME NEW n \in Nat
    PROVE  Iota(n) \in Seq(Nat) /\ Len(Iota(n)) = n
BY FunSeq DEF Iota

LEMMA IotaNone == Iota(0) = << >>
BY DEF Iota

LEMMA IotaStep ==
    ASSUME NEW n \in Nat
    PROVE  Iota(n) \o <<n + 1>> = Iota(n + 1)
<1>1. Iota(n) \in Seq(Nat) /\ Len(Iota(n)) = n /\ <<n + 1>> \in Seq(Nat)
      /\ Len(<<n + 1>>) = 1
  BY IotaSeq
<1>2. Iota(n + 1) \in Seq(Nat) /\ Len(Iota(n + 1)) = n + 1
  BY IotaSeq
<1>3. /\ Iota(n) \o <<n + 1>> \in Seq(Nat) /\ Len(Iota(n) \o <<n + 1>>) = n + 1
      /\ \A i \in 1..(n + 1) : (Iota(n) \o <<n + 1>>)[i] =
            IF i <= n THEN Iota(n)[i] ELSE <<n + 1>>[i - n]
  BY <1>1, ConcatProperties
<1>4. ASSUME NEW i \in 1..(n + 1)
      PROVE  (Iota(n) \o <<n + 1>>)[i] = Iota(n + 1)[i]
  BY <1>3 DEF Iota
<1>5. QED
  BY <1>2, <1>3, <1>4, SeqEqual

LEMMA Split ==
    ASSUME NEW s \in Seq(Nat), NEW n \in 0..Len(s)
    PROVE  /\ SubSeq(s, 1, n) \in Seq(Nat)
           /\ SubSeq(s, n + 1, Len(s)) \in Seq(Nat)
           /\ SubSeq(s, 1, n) \o SubSeq(s, n + 1, Len(s)) = s
<1>1. \A i \in 1..Len(s) : s[i] \in Nat
  OBVIOUS
<1>2. Len(s) \in Nat
  BY LenProperties
<1>3. SubSeq(s, 1, n) \in Seq(Nat) /\ SubSeq(s, n + 1, Len(s)) \in Seq(Nat)
  BY <1>1, <1>2, SubSeqProperties
<1>4. SubSeq(s, 1, n) \o SubSeq(s, n + 1, Len(s)) = SubSeq(s, 1, Len(s))
  <2>1. 1 \in 1..(Len(s) + 1) /\ n \in (1 - 1)..Len(s) /\ Len(s) \in n..Len(s)
    BY <1>2
  <2>2. QED
    BY <2>1, ConcatAdjacentSubSeq, Zenon
<1>5. QED
  BY <1>3, <1>4, SubSeqFull

(* What was a prefix stays one when the whole grows at the end.            *)
LEMMA PrefixStays ==
    ASSUME NEW s \in Seq(Nat), NEW t \in Seq(Nat), NEW u \in Seq(Nat),
           Len(s) <= Len(t), s = SubSeq(t, 1, Len(s))
    PROVE  Len(s) <= Len(t \o u) /\ s = SubSeq(t \o u, 1, Len(s))
<1>1. Len(s) \in Nat /\ Len(t) \in Nat /\ Len(u) \in Nat
  BY LenProperties
<1>2. Len(t \o u) = Len(t) + Len(u)
  BY ConcatProperties
<1>3. CASE s = << >>
  BY <1>1, <1>2, <1>3, SubSeqEmpty
<1>4. CASE Len(s) > 0
  <2>1. SubSeq(t \o u, 1, Len(s)) = SubSeq(t, 1, Len(s))
    BY <1>1, <1>4, SubSeqOfConcat1
  <2>2. QED
    BY <1>1, <1>2, <2>1
<1>5. QED
  BY <1>1, <1>3, <1>4, EmptySeq

LEMMA RegroupParts ==
    ASSUME NEW S, NEW s \in Seq(S), NEW t \in Seq(S), NEW u \in Seq(S),
           NEW st \in Seq(S), NEW tu \in Seq(S), st = s \o t, tu = t \o u
    PROVE  st \o u = s \o tu
<1>1. Len(s) \in Nat /\ Len(t) \in Nat /\ Len(u) \in Nat
  BY LenProperties
<1>2. /\ Len(st) = Len(s) + Len(t)
      /\ \A i \in 1..(Len(s) + Len(t)) :
            st[i] = IF i <= Len(s) THEN s[i] ELSE t[i - Len(s)]
  BY ConcatProperties
<1>3. /\ Len(tu) = Len(t) + Len(u)
      /\ \A i \in 1..(Len(t) + Len(u)) :
            tu[i] = IF i <= Len(t) THEN t[i] ELSE u[i - Len(t)]
  BY ConcatProperties
<1>4. /\ st \o u \in Seq(S) /\ Len(st \o u) = Len(st) + Len(u)
      /\ \A i \in 1..(Len(st) + Len(u)) :
            (st \o u)[i] = IF i <= Len(st) THEN st[i] ELSE u[i - Len(st)]
  BY ConcatProperties
<1>5. /\ s \o tu \in Seq(S) /\ Len(s \o tu) = Len(s) + Len(tu)
      /\ \A i \in 1..(Len(s) + Len(tu)) :
            (s \o tu)[i] = IF i <= Len(s) THEN s[i] ELSE tu[i - Len(s)]
  BY ConcatProperties
<1>6. Len(st \o u) = Len(s \o tu)
  BY <1>1, <1>2, <1>3, <1>4, <1>5
<1>7. ASSUME NEW i \in 1..Len(st \o u) PROVE (st \o u)[i] = (s \o tu)[i]
  BY <1>1, <1>2, <1>3, <1>4, <1>5
<1>8. QED
  BY <1>4, <1>5, <1>6, <1>7, SeqEqual

(* The same with the concatenations named.                                 *)
Joins(S, w, s, t) == s \in Seq(S) /\ t \in Seq(S) /\ w = s \o t

LEMMA Regroup ==
    ASSUME NEW S, NEW s, NEW t, NEW u, NEW st, NEW tu, NEW w,
           Joins(S, st, s, t), Joins(S, tu, t, u), Joins(S, w, st, u)
    PROVE  Joins(S, w, s, tu)
<1>1. s \in Seq(S) /\ t \in Seq(S) /\ u \in Seq(S) /\ st \in Seq(S)
      /\ st = s \o t /\ tu = t \o u /\ w = st \o u
  BY DEF Joins
<1>2. tu \in Seq(S)
  BY <1>1, ConcatProperties
<1>3. st \o u = s \o tu
  BY <1>1, <1>2, RegroupParts
<1>4. QED
  BY <1>1, <1>2, <1>3 DEF Joins

(* A sequence is a prefix of itself.                                       *)
LEMMA PrefixOfItself ==
    ASSUME NEW s \in Seq(Nat) PROVE Len(s) <= Len(s) /\ s = SubSeq(s, 1, Len(s))
BY SubSeqFull, LenProperties

(* A step that leaves the text alone, and either fails or does not enter or*)
(* leave a chunk.                                                          *)
LEMMA TextStays ==
    ASSUME TextInOrder, UNCHANGED <<held, shown, transcript>>,
           \/ failed' # "OK"
           \/ /\ failed = "OK" /\ UNCHANGED <<chunkText, tokens>>
              /\ pc' \in InChunk <=> pc \in InChunk
              /\ pc' = "emit" <=> pc = "emit"
    PROVE  TextInOrder'
BY DEF TextInOrder

(* The emitter releases text into a chunk that is being decoded.           *)
LEMMA TextEmitted ==
    ASSUME IInv, TextInOrder, failed = "OK", failed' = "OK", pc \in InChunk,
           pc' \in InChunk \cup {"emit"},
           NEW pending \in Seq(Nat), NEW n \in 0..Len(pending),
           emit_delta(pending, n),
           shown \o pending = Iota(tokens'),
           pc' = "emit" => n = Len(pending)
    PROVE  TextInOrder'
<1> DEFINE a == SubSeq(pending, 1, n)
           b == SubSeq(pending, n + 1, Len(pending))
<1>1. a \in Seq(Nat) /\ b \in Seq(Nat) /\ a \o b = pending
  BY Split
<1>2. /\ held' = b /\ chunkText' = chunkText \o a /\ shown' = shown \o a
      /\ transcript' = transcript
  BY DEF emit_delta
<1>3. /\ shown \in Seq(Nat) /\ chunkText \in Seq(Nat) /\ transcript \in Seq(Nat)
      /\ Len(pending) \in Nat
  BY LenProperties DEF IInv, TypeOK, TypeText
<1>4. n = Len(pending) => b = << >>
  BY <1>3, SubSeqEmpty
<1> HIDE DEF a, b
<1>5. shown = transcript \o chunkText
  BY DEF TextInOrder
<1>6. shown' \in Seq(Nat) /\ chunkText' \in Seq(Nat)
  BY <1>1, <1>2, <1>3, ConcatProperties
<1>7. shown' \o held' = Iota(tokens') /\ shown' = transcript' \o chunkText'
  <2>1. /\ Joins(Nat, pending, a, b) /\ Joins(Nat, shown', shown, a)
        /\ Joins(Nat, chunkText', chunkText, a) /\ Joins(Nat, shown, transcript, chunkText)
        /\ Joins(Nat, shown' \o b, shown', b)
    BY <1>1, <1>2, <1>3, <1>5, <1>6 DEF Joins
  <2>2. Joins(Nat, shown' \o b, shown, pending)
    BY <2>1, Regroup
  <2>3. Joins(Nat, shown', transcript, chunkText')
    BY <2>1, Regroup
  <2>4. QED
    BY <1>2, <2>2, <2>3 DEF Joins
<1>8. pc' \notin InChunk => held' = << >>
  BY <1>2, <1>4
<1>9. Len(transcript) <= Len(shown') /\ transcript = SubSeq(shown', 1, Len(transcript))
  <2>1. Len(transcript) <= Len(shown) /\ transcript = SubSeq(shown, 1, Len(transcript))
    BY DEF TextInOrder
  <2>2. QED
    BY <1>1, <1>2, <1>3, <2>1, PrefixStays
<1>10. QED
  BY <1>2, <1>7, <1>8, <1>9 DEF TextInOrder, Iota

(* A failure: what was shown stays shown, the transcript stays behind it.  *)
LEMMA TextFails ==
    ASSUME TextInOrder, failed = "OK", NEW st \in Status \ {"OK"}, fail(st),
           UNCHANGED <<held, shown, transcript>>
    PROVE  TextInOrder'
<1>1. failed' # "OK"
  BY DEF fail, Return
<1>2. QED
  BY <1>1, TextStays

(* The text of a new chunk is empty.                                       *)
LEMMA PrefillText ==
    ASSUME IInv, TextInOrder, Prefill
    PROVE  TextInOrder'
<1>ok. failed = "OK" /\ pc = "prefill"
  BY DEF IInv, StepsSane, InCall, Prefill
<1>1. UNCHANGED <<held, transcript, shown, tokens>>
  BY DEF Prefill
<1>2. CASE fail("FAILED")
  BY <1>ok, <1>1, <1>2, TextFails DEF Status
<1>3. CASE chunkText' = << >> /\ pc' = "decode" /\ failed' = failed
  BY <1>ok, <1>1, <1>3 DEF TextInOrder, InChunk
<1>4. QED
  BY <1>2, <1>3 DEF Prefill, Goto, status

(* A token's text goes to the emitter.                                     *)
LEMMA DecodeTextText ==
    ASSUME IInv, TextInOrder, DecodeText
    PROVE  TextInOrder'
<1>ok. failed = "OK" /\ pc = "decode"
  BY DEF IInv, StepsSane, InCall, DecodeText
<1>1. CASE fail("FAILED") /\ UNCHANGED text
  BY <1>ok, <1>1, TextFails DEF Status, text
<1>2. ASSUME NEW n \in 0..(Len(held) + 1), emit_delta(Append(held, tokens + 1), n),
             Goto("feed"), UNCHANGED status, tokens' = tokens + 1
      PROVE  TextInOrder'
  <2> DEFINE p == Append(held, tokens + 1)
  <2>1. held \in Seq(Nat) /\ shown \in Seq(Nat) /\ tokens \in Nat
    BY DEF IInv, TypeOK, TypeText, TypeModel
  <2>2. p \in Seq(Nat) /\ Len(p) = Len(held) + 1 /\ <<tokens + 1>> \in Seq(Nat)
    BY <2>1, AppendProperties
  <2>3. p = held \o <<tokens + 1>>
    BY <2>1, AppendIsConcat
  <2> HIDE DEF p
  <2>4. shown \o held = Iota(tokens) /\ Iota(tokens) \in Seq(Nat)
    BY <1>ok, <2>1, IotaSeq DEF TextInOrder, Iota
  <2>6. shown \o p = Iota(tokens')
    <3>1. /\ Joins(Nat, Iota(tokens), shown, held) /\ Joins(Nat, p, held, <<tokens + 1>>)
          /\ Joins(Nat, Iota(tokens + 1), Iota(tokens), <<tokens + 1>>)
      BY <2>1, <2>2, <2>3, <2>4, IotaStep DEF Joins
    <3>2. Joins(Nat, Iota(tokens + 1), shown, p)
      BY <3>1, Regroup
    <3>3. QED
      BY <1>2, <3>2 DEF Joins
  <2>7. pc' = "feed" /\ failed' = "OK" /\ n \in 0..Len(p) /\ emit_delta(p, n)
    BY <1>ok, <1>2, <2>2 DEF Goto, status, p
  <2>8. QED
    BY <1>ok, <2>2, <2>6, <2>7, TextEmitted DEF InChunk
<1>3. QED
  BY <1>1, <1>2 DEF DecodeText

(* The flush releases everything that is held.                             *)
LEMMA EndChunkText ==
    ASSUME IInv, TextInOrder, EndChunk
    PROVE  TextInOrder'
<1>ok. failed = "OK" /\ pc = "end" /\ tokens' = tokens
  BY DEF IInv, StepsSane, InCall, EndChunk, decode
<1>1. CASE fail("FAILED") /\ UNCHANGED text
  BY <1>ok, <1>1, TextFails DEF Status, text
<1>2. CASE /\ emit_delta(held, Len(held)) /\ UNCHANGED status
           /\ Goto(IF opt.fold THEN "emit" ELSE "append")
  <2>1. held \in Seq(Nat) /\ Len(held) \in 0..Len(held)
    BY LenProperties DEF IInv, TypeOK, TypeText
  <2>2. shown \o held = Iota(tokens')
    BY <1>ok DEF TextInOrder, Iota
  <2>3. pc' \in {"emit", "append"} /\ failed' = "OK"
    BY <1>ok, <1>2 DEF Goto, status
  <2>4. QED
    BY <1>ok, <1>2, <2>1, <2>2, <2>3, TextEmitted DEF InChunk
<1>3. QED
  BY <1>1, <1>2 DEF EndChunk

(* The chunk's text becomes part of the transcript.                        *)
LEMMA EmitChunkText ==
    ASSUME IInv, TextInOrder, EmitChunk
    PROVE  TextInOrder'
<1>ok. failed = "OK" /\ pc = "emit"
  BY DEF IInv, StepsSane, InCall, EmitChunk
<1>0. UNCHANGED <<held, shown, tokens>>
  BY DEF EmitChunk, decode
<1>1. CASE fail("FAILED") /\ UNCHANGED transcript
  BY <1>ok, <1>0, <1>1, TextFails DEF Status
<1>2. CASE transcript' = transcript \o chunkText /\ Goto("check") /\ UNCHANGED status
  <2>1. pc' = "check" /\ failed' = "OK"
    BY <1>ok, <1>2 DEF Goto, status
  <2>2. transcript' = shown /\ held = << >> /\ shown \o held = Iota(tokens)
    BY <1>ok, <1>2 DEF TextInOrder, InChunk, Iota
  <2>3. shown \in Seq(Nat)
    BY DEF IInv, TypeOK, TypeText
  <2>4. shown = shown \o << >>
    BY <2>3, ConcatEmptySeq
  <2>5. Len(shown) <= Len(shown) /\ shown = SubSeq(shown, 1, Len(shown))
    BY <2>3, PrefixOfItself
  <2>6. QED
    BY <1>0, <2>1, <2>2, <2>4, <2>5 DEF TextInOrder, InChunk, Iota
<1>3. QED
  BY <1>1, <1>2 DEF EmitChunk

(* No session holds any text.                                              *)
LEMMA NoText ==
    ASSUME held = << >>, shown = << >>, transcript = << >>, tokens = 0, pc = "closed"
    PROVE  TextInOrder
<1>1. << >> \in Seq(Nat) /\ << >> \o << >> = << >>
  BY EmptySeq, ConcatEmptySeq
<1>2. Len(<< >>) <= Len(<< >>) /\ << >> = SubSeq(<< >>, 1, Len(<< >>))
  BY <1>1, PrefixOfItself
<1>3. QED
  BY <1>1, <1>2, IotaNone DEF TextInOrder, Iota, InChunk

LEMMA TextInit == Init => TextInOrder
  BY NoText DEF Init, Fresh

(* The steps that leave the text alone.                                    *)
LEMMA QuietText ==
    ASSUME IInv, TextInOrder,
           \/ Open \/ Finish \/ Cancel \/ Drained \/ Drain \/ Pop \/ EncodeAhead
           \/ StartChunk \/ DecodeStop \/ FeedToken \/ DecodeStep \/ CheckCancel
           \/ \E n \in 0..(MaxTotal - total) : Push(n)
    PROVE  TextInOrder'
<1> USE DEF control, text, decode, status
<1> DEFINE Quiet ==
        /\ UNCHANGED <<held, shown, transcript>>
        /\ \/ failed' # "OK"
           \/ /\ failed = "OK" /\ UNCHANGED <<chunkText, tokens>>
              /\ pc' \in InChunk <=> pc \in InChunk
              /\ pc' = "emit" <=> pc = "emit"
<1>ok. InCall => failed = "OK"
  BY DEF IInv, StepsSane
<1>1. ASSUME Open PROVE Quiet
  BY <1>1 DEF Open, InChunk
<1>2. ASSUME Finish PROVE Quiet
  BY <1>2 DEF Finish, InChunk, fail, Return
<1>3. ASSUME Cancel PROVE Quiet
  BY <1>3 DEF Cancel
<1>4. ASSUME Drained PROVE Quiet
  BY <1>ok, <1>4 DEF Drained, Return, InChunk, InCall
<1>5. ASSUME Drain PROVE Quiet
  BY <1>ok, <1>5 DEF Drain, fail, Return, Goto, InChunk, InCall
<1>6. ASSUME Pop PROVE Quiet
  BY <1>ok, <1>6 DEF Pop, Goto, InChunk, InCall
<1>7. ASSUME EncodeAhead PROVE Quiet
  BY <1>ok, <1>7 DEF EncodeAhead, fail, Return, Goto, InChunk, InCall
<1>8. ASSUME StartChunk PROVE Quiet
  BY <1>ok, <1>8 DEF StartChunk, fail, Return, Goto, InChunk, InCall
<1>9. ASSUME DecodeStop PROVE Quiet
  BY <1>ok, <1>9 DEF DecodeStop, Goto, InChunk, InCall
<1>10. ASSUME FeedToken PROVE Quiet
  BY <1>ok, <1>10 DEF FeedToken, fail, Return, Goto, InChunk, InCall
<1>11. ASSUME DecodeStep PROVE Quiet
  BY <1>ok, <1>11 DEF DecodeStep, fail, Return, Goto, InChunk, InCall
<1>13. ASSUME CheckCancel PROVE Quiet
  BY <1>ok, <1>13 DEF CheckCancel, fail, Return, Goto, InChunk, InCall
<1>14. ASSUME NEW n \in 0..(MaxTotal - total), Push(n) PROVE Quiet
  BY <1>14 DEF Push, fail, Return, InChunk
<1>15. QED
  BY <1>1, <1>2, <1>3, <1>4, <1>5, <1>6, <1>7, <1>8, <1>9, <1>10, <1>11,
     <1>13, <1>14, TextStays

(* The chunk end goes to the cache once the emitter has nothing left.      *)
LEMMA AppendTokensText ==
    ASSUME IInv, TextInOrder, Flushed, AppendTokens
    PROVE  TextInOrder'
<1>ok. failed = "OK" /\ pc = "append" /\ held = << >>
  BY DEF IInv, StepsSane, InCall, AppendTokens, Flushed
<1>0. UNCHANGED <<text, tokens>>
  BY DEF AppendTokens, decode
<1>1. CASE fail("FAILED")
  BY <1>ok, <1>0, <1>1, TextFails DEF Status, text
<1>2. CASE Goto("emit") /\ UNCHANGED status
  BY <1>ok, <1>0, <1>2 DEF Goto, status, text, TextInOrder, InChunk
<1>3. QED
  BY <1>1, <1>2 DEF AppendTokens

(* Only the flush leads to the feeding of a chunk end.                     *)
LEMMA NextFlushed == IInv /\ Flushed /\ [Next]_vars => Flushed'
<1> SUFFICES ASSUME IInv, Flushed, [Next]_vars, pc' = "append"
             PROVE  held' = << >>
  BY DEF Flushed
<1>1. CASE pc = "append"
  <2>1. CASE Cancel \/ UNCHANGED vars
    BY <1>1, <2>1 DEF Flushed, Cancel, vars, control, text
  <2>2. ~AppendTokens
    BY DEF AppendTokens, Goto, fail, Return
  <2>3. QED
    BY <1>1, <2>1, <2>2 DEF Next, Running, Open, Finish, Close, Push, Drained, Drain,
       Pop, EncodeAhead, StartChunk, Prefill, DecodeStop, DecodeText, FeedToken,
       DecodeStep, EndChunk, EmitChunk, CheckCancel
<1>2. CASE pc # "append"
  <2>1. CASE EndChunk
    <3>1. held' = SubSeq(held, Len(held) + 1, Len(held))
      BY <2>1 DEF EndChunk, emit_delta, fail, Return
    <3>2. held \in Seq(Nat) /\ Len(held) \in Nat
      BY LenProperties DEF IInv, TypeOK, TypeText
    <3>3. QED
      BY <3>1, <3>2, SubSeqEmpty
  <2>2. ~(Open \/ Finish \/ Close \/ Drained \/ Drain \/ EncodeAhead \/ StartChunk)
    BY DEF Open, Finish, Close, Drained, Drain, EncodeAhead, StartChunk, fail, Return,
       Goto
  <2>3. ~(Prefill \/ DecodeStop \/ DecodeText \/ FeedToken \/ DecodeStep
          \/ AppendTokens \/ EmitChunk \/ CheckCancel)
    BY DEF Prefill, DecodeStop, DecodeText, FeedToken, DecodeStep, AppendTokens,
       EmitChunk, CheckCancel, fail, Return, Goto
  <2>4. ~(Cancel \/ Pop \/ UNCHANGED vars)
    BY <1>2 DEF Cancel, Pop, Goto, vars, control
  <2>5. ASSUME NEW n \in 0..(MaxTotal - total) PROVE ~Push(n)
    BY DEF Push, fail, Return
  <2>6. QED
    BY <2>1, <2>2, <2>3, <2>4, <2>5 DEF Next, Running
<1>3. QED
  BY <1>1, <1>2

(* Every step keeps the text in order.                                     *)
LEMMA NextText == IInv /\ TextInOrder /\ Flushed /\ [Next]_vars => TextInOrder'
<1> SUFFICES ASSUME IInv, TextInOrder, Flushed, [Next]_vars PROVE TextInOrder'
  OBVIOUS
<1>1. CASE Close
  <2>1. (held = << >> /\ shown = << >> /\ transcript = << >> /\ tokens = 0
         /\ pc = "closed")'
    BY <1>1 DEF Close
  <2>2. QED
    BY <2>1, NoText, PTL
<1>2. CASE UNCHANGED vars
  BY <1>2 DEF vars, control, text, decode, status, TextInOrder
<1>3. QED
  BY <1>1, <1>2, QuietText, PrefillText, DecodeTextText, EndChunkText,
     AppendTokensText, EmitChunkText DEF Next, Running

(* Whatever the model says and the emitter holds back, no token's text is  *)
(* lost, repeated or reordered on its way to the caller, and the transcript*)
(* holds the text of whole chunks only.                                    *)
THEOREM TextKeepsOrder == Spec => []TextInOrder
<1>1. Init => Flushed
  BY DEF Init, Flushed
<1>2. QED
  BY <1>1, TextInit, NextText, NextFlushed, Invariance, PTL DEF Spec

-----------------------------------------------------------------------------
(* The windows.  What the protocol says of window i, by the samples received*)
(* and whether more will come.                                             *)
WinAt(i, tot) ==
    [j \in 1..Window |-> IF i * Chunk + j <= tot THEN i * Chunk + j ELSE 0]
Avail(i, tot, fin) == IF fin THEN i * Chunk < tot ELSE i * Chunk + Window <= tot

LEMMA TodoMeans ==
    TodoInOrder <=>
      /\ chunks = FirstTodo + (IF pc = "check" THEN 1 ELSE 0)
      /\ \A j \in 1..Len(todo) :
            /\ todo[j].index = FirstTodo + j - 1
            /\ todo[j].pcm = WinAt(todo[j].index, total)
            /\ Avail(todo[j].index, total, finished)
BY DEF TodoInOrder, WinAt, Avail, Protocol!WindowAt, Protocol!Available,
   Protocol!Window, Window

LEMMA TodoMeansNext ==
    TodoInOrder' <=>
      /\ chunks' = FirstTodo' + (IF pc' = "check" THEN 1 ELSE 0)
      /\ \A j \in 1..Len(todo') :
            /\ todo'[j].index = FirstTodo' + j - 1
            /\ todo'[j].pcm = WinAt(todo'[j].index, total')
            /\ Avail(todo'[j].index, total', finished')
BY DEF TodoInOrder, WinAt, Avail, Protocol!WindowAt, Protocol!Available,
   Protocol!Window, Window

LEMMA AheadMeans ==
    AheadIsCurrent <=>
      \A i \in 1..Len(aheadFeats) :
          /\ aheadFirst + i - 1 < nextIdx
          /\ aheadFirst + i - 1 >= FirstTodo
                => aheadFeats[i] = WinAt(aheadFirst + i - 1, total)
BY DEF AheadIsCurrent, WinAt, Protocol!WindowAt, Protocol!Window, Window

LEMMA AheadMeansNext ==
    AheadIsCurrent' <=>
      \A i \in 1..Len(aheadFeats') :
          /\ aheadFirst' + i - 1 < nextIdx'
          /\ aheadFirst' + i - 1 >= FirstTodo'
                => aheadFeats'[i] = WinAt(aheadFirst' + i - 1, total')
BY DEF AheadIsCurrent, WinAt, Protocol!WindowAt, Protocol!Window, Window

(* One stride further.                                                     *)
LEMMA Stride == ASSUME NEW n \in Nat PROVE (n + 1) * Chunk = n * Chunk + Chunk
  OBVIOUS

(* A window is ready exactly when the protocol has it available.           *)
LEMMA ReadyIsAvailable ==
    ASSUME base \in Nat, total \in Nat, finished \in BOOLEAN, base = nextIdx * Chunk
    PROVE  ready > 0 <=> Avail(nextIdx, total, finished)
<1>0. Window \in Nat /\ Window >= Chunk
  BY DEF Window
<1>1. CASE finished /\ base < total
  <2>1. total - base + Chunk - 1 \in Nat /\ total - base + Chunk - 1 >= Chunk
    BY <1>1
  <2>2. (total - base + Chunk - 1) \div Chunk > 0
    BY <2>1
  <2>3. QED
    BY <1>1, <2>2 DEF ready, Avail
<1>2. CASE finished /\ base >= total
  BY <1>2 DEF ready, Avail
<1>3. CASE ~finished /\ total < base + Window
  BY <1>0, <1>3 DEF ready, Avail
<1>4. CASE ~finished /\ total >= base + Window
  <2>1. total - base - Window \in Nat
    BY <1>0, <1>4
  <2>2. (total - base - Window) \div Chunk + 1 > 0
    BY <2>1
  <2>3. QED
    BY <1>0, <1>4, <2>2 DEF ready, Avail
<1>5. QED
  BY <1>0, <1>1, <1>2, <1>3, <1>4

(* The types the arguments below use.                                      *)
LEMMA WindowTypes ==
    ASSUME IInv
    PROVE  /\ nextIdx \in Nat /\ base \in Nat /\ total \in Nat /\ finished \in BOOLEAN
           /\ buf \in Seq(Nat) /\ Len(buf) \in Nat
           /\ todo \in Seq(WindowType) /\ Len(todo) \in Nat
           /\ aheadFirst \in Nat /\ aheadFeats \in Seq(Seq(Nat))
           /\ Len(aheadFeats) \in Nat /\ chunks \in Nat
           /\ Window \in Nat /\ Window >= Chunk
<1>1. Window \in Nat /\ Window >= Chunk
  BY DEF Window
<1>2. QED
  BY <1>1, LenProperties DEF IInv, TypeOK, TypeCalls, TypeChunker, TypeWindows

(* vv_stream_chunker_next keeps the audio from the next window on.         *)
LEMMA NextBuf ==
    ASSUME IInv, BufHoldsRest, ready > 0, chunker_next
    PROVE  BufHoldsRest'
<1> DEFINE drop == Smaller(Len(buf), Chunk)
<1>t. /\ nextIdx \in Nat /\ base \in Nat /\ total \in Nat /\ finished \in BOOLEAN
      /\ buf \in Seq(Nat) /\ Len(buf) \in Nat /\ Window \in Nat /\ Window >= Chunk
  BY WindowTypes
<1>1. base = nextIdx * Chunk /\ Len(buf) = (IF total > base THEN total - base ELSE 0)
      /\ \A j \in 1..Len(buf) : buf[j] = base + j
  BY DEF BufHoldsRest
<1>2. total > base /\ (~finished => total >= base + Chunk)
  BY <1>t DEF ready
<1>3. /\ buf' = SubSeq(buf, drop + 1, Len(buf)) /\ base' = base + Chunk
      /\ nextIdx' = nextIdx + 1 /\ total' = total /\ finished' = finished
  BY DEF chunker_next
<1>4. drop \in Nat /\ drop <= Len(buf)
      /\ (Len(buf) <= Chunk => drop = Len(buf)) /\ (Len(buf) > Chunk => drop = Chunk)
  BY <1>t DEF Smaller
<1> HIDE DEF drop
<1>5. /\ Len(buf') = Len(buf) - drop
      /\ \A j \in 1..(Len(buf) - drop) : buf'[j] = buf[drop + j]
  <2>1. \A i \in (drop + 1)..Len(buf) : buf[i] \in Nat
    BY <1>t, <1>4
  <2>2. drop + 1 \in Int /\ Len(buf) \in Int
    BY <1>t, <1>4
  <2>3. /\ Len(SubSeq(buf, drop + 1, Len(buf))) =
             (IF drop + 1 <= Len(buf) THEN Len(buf) - (drop + 1) + 1 ELSE 0)
        /\ \A i \in 1..(Len(buf) - (drop + 1) + 1) :
             SubSeq(buf, drop + 1, Len(buf))[i] = buf[(drop + 1) + i - 1]
    BY <1>t, <2>1, <2>2, SubSeqProperties
  <2>4. Len(buf') = Len(buf) - drop
    BY <1>t, <1>3, <1>4, <2>3
  <2>5. ASSUME NEW j \in 1..(Len(buf) - drop) PROVE buf'[j] = buf[drop + j]
    <3>1. j \in 1..(Len(buf) - (drop + 1) + 1) /\ (drop + 1) + j - 1 = drop + j
      BY <1>t, <1>4
    <3>2. QED
      BY <1>3, <2>3, <3>1
  <2>6. QED
    BY <2>4, <2>5
<1>6. base' = nextIdx' * Chunk
  BY <1>t, <1>1, <1>3, Stride
<1>7. Len(buf') = IF total' > base' THEN total' - base' ELSE 0
  BY <1>t, <1>1, <1>2, <1>3, <1>4, <1>5
<1>8. ASSUME NEW j \in 1..Len(buf') PROVE buf'[j] = base' + j
  <2>1. drop = Chunk /\ drop + j \in 1..Len(buf) /\ j \in 1..(Len(buf) - drop)
    BY <1>t, <1>4, <1>5
  <2>2. buf'[j] = base + (drop + j)
    BY <1>1, <1>5, <2>1
  <2>3. QED
    BY <1>t, <1>3, <2>1, <2>2
<1>9. ~finished' => base' <= total'
  BY <1>t, <1>2, <1>3
<1>10. QED
  BY <1>6, <1>7, <1>8, <1>9 DEF BufHoldsRest

(* The window it pops is the next one, with its own audio.                 *)
LEMMA NextTodo ==
    ASSUME IInv, BufHoldsRest, TodoInOrder, AheadIsCurrent, ready > 0, chunker_next,
           UNCHANGED <<encoded, chunks>>, pc # "check", pc' # "check"
    PROVE  TodoInOrder' /\ AheadIsCurrent'
<1> DEFINE pcm == [j \in 1..Window |-> IF j <= Smaller(Len(buf), Window) THEN buf[j]
                                       ELSE 0]
           w == [index |-> nextIdx, start |-> base, pcm |-> pcm]
<1>t. /\ nextIdx \in Nat /\ base \in Nat /\ total \in Nat /\ finished \in BOOLEAN
      /\ buf \in Seq(Nat) /\ Len(buf) \in Nat /\ todo \in Seq(WindowType)
      /\ Len(todo) \in Nat /\ Window \in Nat /\ aheadFirst \in Nat
      /\ Len(aheadFeats) \in Nat
  BY WindowTypes
<1>1. /\ base = nextIdx * Chunk
      /\ Len(buf) = (IF total > base THEN total - base ELSE 0)
      /\ \A j \in 1..Len(buf) : buf[j] = base + j
  BY DEF BufHoldsRest
<1>2. /\ todo' = Append(todo, w) /\ nextIdx' = nextIdx + 1 /\ total' = total
      /\ finished' = finished
  BY DEF chunker_next
<1>3. pcm = WinAt(nextIdx, total)
  <2>1. ASSUME NEW j \in 1..Window
        PROVE  (IF j <= Smaller(Len(buf), Window) THEN buf[j] ELSE 0)
                 = (IF base + j <= total THEN base + j ELSE 0)
    <3>1. j <= Smaller(Len(buf), Window) <=> j \in 1..Len(buf)
      BY <1>t DEF Smaller
    <3>2. j \in 1..Len(buf) <=> base + j <= total
      BY <1>t, <1>1
    <3>3. QED
      BY <1>1, <3>1, <3>2
  <2>2. WinAt(nextIdx, total) =
          [j \in 1..Window |-> IF base + j <= total THEN base + j ELSE 0]
    BY <1>1 DEF WinAt
  <2>3. QED
    BY <2>1, <2>2
<1>4. Avail(nextIdx, total, finished)
  BY <1>t, <1>1, ReadyIsAvailable
<1> HIDE DEF pcm
<1>5. w.index = nextIdx /\ w.pcm = WinAt(nextIdx, total)
  BY <1>3
<1>6. w \in WindowType
  <2>1. \A j \in 1..Window : (IF j <= Smaller(Len(buf), Window) THEN buf[j] ELSE 0)
                                 \in Nat
    BY <1>t DEF Smaller
  <2>2. pcm \in [1..Window -> Nat]
    BY <2>1 DEF pcm
  <2>3. pcm \in Seq(Nat)
    BY <1>t, <2>2, FunSeq
  <2>4. QED
    BY <1>t, <2>3 DEF WindowType
<1> HIDE DEF w
<1>7. /\ Len(todo') = Len(todo) + 1 /\ todo'[Len(todo) + 1] = w
      /\ \A j \in 1..Len(todo) : todo'[j] = todo[j]
  BY <1>t, <1>2, <1>6, AppendProperties
<1>8. FirstTodo' = FirstTodo
  BY <1>t, <1>2, <1>7 DEF FirstTodo
<1>9. /\ chunks = FirstTodo
      /\ \A j \in 1..Len(todo) :
            /\ todo[j].index = FirstTodo + j - 1
            /\ todo[j].pcm = WinAt(todo[j].index, total)
            /\ Avail(todo[j].index, total, finished)
  BY <1>t, TodoMeans DEF FirstTodo
<1>10. TodoInOrder'
  <2>1. ASSUME NEW j \in 1..Len(todo')
        PROVE  /\ todo'[j].index = FirstTodo' + j - 1
               /\ todo'[j].pcm = WinAt(todo'[j].index, total')
               /\ Avail(todo'[j].index, total', finished')
    <3>1. CASE j \in 1..Len(todo)
      BY <1>2, <1>7, <1>8, <1>9, <3>1
    <3>2. CASE j = Len(todo) + 1
      <4>1. todo'[j] = w /\ nextIdx = FirstTodo' + j - 1
        BY <1>t, <1>7, <1>8, <3>2 DEF FirstTodo
      <4>2. QED
        BY <1>2, <1>4, <1>5, <4>1
    <3>3. QED
      BY <1>t, <1>7, <3>1, <3>2
  <2>2. chunks' = FirstTodo' + 0
    BY <1>t, <1>8, <1>9 DEF FirstTodo
  <2>3. QED
    BY <2>1, <2>2, TodoMeansNext
<1>11. AheadIsCurrent'
  <2>1. aheadFirst' = aheadFirst /\ aheadFeats' = aheadFeats
    BY DEF encoded
  <2>2. \A i \in 1..Len(aheadFeats) :
          /\ aheadFirst + i - 1 < nextIdx
          /\ aheadFirst + i - 1 >= FirstTodo
                => aheadFeats[i] = WinAt(aheadFirst + i - 1, total)
    BY AheadMeans
  <2>3. QED
    BY <1>t, <1>2, <1>8, <2>1, <2>2, AheadMeansNext
<1>12. QED
  BY <1>10, <1>11

(* The chunker, the windows popped and the windows encoded ahead.          *)
Feeding == BufHoldsRest /\ TodoInOrder /\ AheadIsCurrent

LEMMA FeedingStays ==
    ASSUME Feeding, UNCHANGED <<chunker, todo, encoded, chunks>>,
           pc = "check" <=> pc' = "check"
    PROVE  Feeding'
<1> USE DEF chunker, encoded
<1>1. FirstTodo' = FirstTodo
  BY DEF FirstTodo
<1>2. BufHoldsRest'
  BY DEF Feeding, BufHoldsRest
<1>3. TodoInOrder'
  BY <1>1, TodoMeans, TodoMeansNext DEF Feeding
<1>4. AheadIsCurrent'
  BY <1>1, AheadMeans, AheadMeansNext DEF Feeding
<1>5. QED
  BY <1>2, <1>3, <1>4 DEF Feeding

(* With no window popped, windows that were encoded ahead are all behind.  *)
LEMMA NothingTodo ==
    ASSUME IInv, Feeding, todo = << >>, todo' = << >>, pc # "check", pc' # "check",
           UNCHANGED <<nextIdx, chunks, encoded>>
    PROVE  TodoInOrder' /\ AheadIsCurrent'
<1>t. nextIdx \in Nat /\ aheadFirst \in Nat /\ Len(aheadFeats) \in Nat /\ chunks \in Nat
  BY WindowTypes
<1>1. Len(todo) = 0 /\ Len(todo') = 0
  BY EmptySeq
<1>2. FirstTodo = nextIdx /\ FirstTodo' = nextIdx
  BY <1>t, <1>1 DEF FirstTodo
<1>3. chunks' = FirstTodo' + 0
  BY <1>t, <1>2, TodoMeans DEF Feeding
<1>4. TodoInOrder'
  BY <1>1, <1>3, TodoMeansNext
<1>5. \A i \in 1..Len(aheadFeats) : aheadFirst + i - 1 < nextIdx
  BY AheadMeans DEF Feeding
<1>6. AheadIsCurrent'
  BY <1>t, <1>2, <1>5, AheadMeansNext DEF encoded
<1>7. QED
  BY <1>4, <1>6

(* vv_stream_chunker_push: the samples follow the ones the buffer holds.   *)
LEMMA PushBuf ==
    ASSUME IInv, BufHoldsRest, ~finished, NEW n \in Nat, chunker_push(n),
           UNCHANGED <<base, nextIdx, finished>>
    PROVE  BufHoldsRest'
<1> DEFINE new == [i \in 1..n |-> total + i]
<1>t. base \in Nat /\ total \in Nat /\ buf \in Seq(Nat) /\ Len(buf) \in Nat
  BY WindowTypes
<1>1. /\ base = nextIdx * Chunk /\ base <= total
      /\ Len(buf) = (IF total > base THEN total - base ELSE 0)
      /\ \A j \in 1..Len(buf) : buf[j] = base + j
  BY DEF BufHoldsRest
<1>2. Len(buf) = total - base
  BY <1>t, <1>1
<1>3. buf' = buf \o new /\ total' = total + n
  BY DEF chunker_push
<1>4. new \in Seq(Nat) /\ Len(new) = n /\ \A i \in 1..n : new[i] = total + i
  <2>1. new \in [1..n -> Nat]
    BY <1>t
  <2>2. QED
    BY <2>1, FunSeq
<1> HIDE DEF new
<1>5. /\ Len(buf') = Len(buf) + n
      /\ \A j \in 1..(Len(buf) + n) :
            buf'[j] = IF j <= Len(buf) THEN buf[j] ELSE new[j - Len(buf)]
  BY <1>t, <1>3, <1>4, ConcatProperties
<1>6. Len(buf') = IF total' > base' THEN total' - base' ELSE 0
  BY <1>t, <1>1, <1>2, <1>3, <1>5, SMTT(30)
<1>7. ASSUME NEW j \in 1..Len(buf') PROVE buf'[j] = base' + j
  <2>1. CASE j <= Len(buf)
    BY <1>t, <1>1, <1>5, <2>1
  <2>2. CASE j > Len(buf)
    <3>1. j - Len(buf) \in 1..n /\ buf'[j] = new[j - Len(buf)]
      BY <1>t, <1>5, <2>2
    <3>2. buf'[j] = total + (j - Len(buf))
      BY <1>4, <3>1
    <3>3. QED
      BY <1>t, <1>2, <3>2
  <2>3. QED
    BY <1>t, <2>1, <2>2
<1>8. base' = nextIdx' * Chunk /\ base' <= total'
  BY <1>t, <1>1, <1>3
<1>9. QED
  BY <1>6, <1>7, <1>8 DEF BufHoldsRest

(* No session, nothing buffered.                                           *)
LEMMA NoFeeding == Fresh /\ pc = "closed" => Feeding
<1> SUFFICES ASSUME Fresh, pc = "closed" PROVE Feeding
  OBVIOUS
<1>1. /\ buf = << >> /\ base = 0 /\ total = 0 /\ nextIdx = 0 /\ todo = << >>
      /\ aheadFeats = << >> /\ chunks = 0 /\ Len(<< >>) = 0
  BY EmptySeq DEF Fresh
<1>2. FirstTodo = 0
  <2>1. Len(todo) = 0 /\ nextIdx = 0
    BY <1>1
  <2>2. QED
    BY <2>1 DEF FirstTodo
<1>3. BufHoldsRest
  BY <1>1 DEF BufHoldsRest
<1>4. TodoInOrder
  BY <1>1, <1>2, TodoMeans
<1>5. AheadIsCurrent
  BY <1>1, AheadMeans
<1>6. QED
  BY <1>3, <1>4, <1>5 DEF Feeding

(* vv_stream_push and vv_stream_finish are called with no window popped.   *)
LEMMA PushFeeding ==
    ASSUME IInv, Feeding, CallsSane, failed = "OK", failed' = "OK",
           NEW n \in Nat, Push(n)
    PROVE  Feeding'
<1>0. pc = "idle" /\ todo = << >> /\ UNCHANGED <<encoded, chunks>>
  BY DEF Push, CallsSane
<1>1. CASE Return("INVALID_ARG") /\ UNCHANGED chunker
  <2>1. pc' = "idle" /\ todo' = todo
    BY <1>0, <1>1 DEF Return
  <2>2. QED
    BY <1>0, <1>1, <2>1, FeedingStays
<1>2. CASE /\ ~finished /\ chunker_push(n) /\ pc' = "drain"
           /\ UNCHANGED <<base, nextIdx, finished, todo>>
  <2>1. BufHoldsRest'
    BY <1>2, PushBuf DEF Feeding
  <2>2. TodoInOrder' /\ AheadIsCurrent'
    BY <1>0, <1>2, NothingTodo
  <2>3. QED
    BY <2>1, <2>2 DEF Feeding
<1>3. QED
  BY <1>1, <1>2 DEF Push, fail, Return

LEMMA FinishFeeding ==
    ASSUME IInv, Feeding, CallsSane, failed = "OK", failed' = "OK", Finish
    PROVE  Feeding'
<1>0. /\ pc = "idle" /\ todo = << >> /\ UNCHANGED <<encoded, chunks>>
      /\ UNCHANGED <<buf, base, total, nextIdx>>
  BY DEF Finish, CallsSane
<1>1. CASE Return("OK") /\ UNCHANGED finished
  <2>1. pc' = "idle" /\ todo' = todo
    BY <1>0, <1>1 DEF Return
  <2>2. QED
    BY <1>0, <1>1, <2>1, FeedingStays DEF chunker
<1>2. CASE finished' = TRUE /\ pc' = "drain" /\ UNCHANGED todo
  <2>1. BufHoldsRest'
    BY <1>0, <1>2 DEF Feeding, BufHoldsRest
  <2>2. TodoInOrder' /\ AheadIsCurrent'
    BY <1>0, <1>2, NothingTodo
  <2>3. QED
    BY <2>1, <2>2 DEF Feeding
<1>3. QED
  BY <1>1, <1>2 DEF Finish, fail, Return

(* gpu_encode_ahead: the batch is the windows popped.                      *)
LEMMA EncodeFeeding ==
    ASSUME IInv, Feeding, failed = "OK", failed' = "OK", EncodeAhead
    PROVE  Feeding'
<1>0. /\ pc = "encode" /\ UNCHANGED <<chunker, chunks>>
      /\ aheadFirst' = todo[1].index /\ pc' = "chunk" /\ todo' = todo
      /\ aheadFeats' = [i \in 1..Len(todo) |-> todo[i].pcm]
  BY DEF EncodeAhead, fail, Return, Goto
<1>t. /\ nextIdx \in Nat /\ todo \in Seq(WindowType) /\ Len(todo) \in Nat
      /\ todo # << >>
  BY <1>0, WindowTypes DEF IInv, StepsSane
<1>1. FirstTodo' = FirstTodo /\ total' = total /\ nextIdx' = nextIdx
  BY <1>0 DEF FirstTodo, chunker
<1>2. BufHoldsRest'
  BY <1>0 DEF Feeding, BufHoldsRest, chunker
<1>3. TodoInOrder'
  BY <1>0, <1>1, TodoMeans, TodoMeansNext DEF Feeding, chunker
<1>4. \A j \in 1..Len(todo) : /\ todo[j].index = FirstTodo + j - 1
                              /\ todo[j].pcm = WinAt(todo[j].index, total)
  BY TodoMeans DEF Feeding
<1>5. aheadFirst' = FirstTodo /\ Len(todo) > 0
  <2>1. Len(todo) > 0
    BY <1>t, EmptySeq
  <2>2. 1 \in 1..Len(todo) /\ FirstTodo \in Int
    BY <1>t, <2>1 DEF FirstTodo
  <2>3. todo[1].index = FirstTodo + 1 - 1
    BY <1>4, <2>2
  <2>4. QED
    BY <1>0, <2>1, <2>2, <2>3
<1>6. Len(aheadFeats') = Len(todo)
  <2>1. \A i \in 1..Len(todo) : todo[i].pcm \in Seq(Nat)
    <3>1. ASSUME NEW i \in 1..Len(todo) PROVE todo[i] \in WindowType
      BY <1>t, ElementOfSeq
    <3>2. QED
      BY <3>1 DEF WindowType
  <2>2. aheadFeats' \in [1..Len(todo) -> Seq(Nat)]
    BY <1>0, <2>1
  <2>3. QED
    BY <1>t, <2>2, FunSeq
<1>7. ASSUME NEW i \in 1..Len(aheadFeats')
      PROVE  /\ aheadFirst' + i - 1 < nextIdx'
             /\ aheadFeats'[i] = WinAt(aheadFirst' + i - 1, total')
  <2>1. i \in 1..Len(todo) /\ aheadFeats'[i] = todo[i].pcm
    BY <1>0, <1>6
  <2>2. todo[i].index = aheadFirst' + i - 1
    BY <1>4, <1>5, <2>1
  <2>3. aheadFirst' + i - 1 < nextIdx
    BY <1>t, <1>5, <2>1 DEF FirstTodo
  <2>4. QED
    BY <1>1, <1>4, <2>1, <2>2, <2>3
<1>8. AheadIsCurrent'
  BY <1>7, AheadMeansNext
<1>9. QED
  BY <1>2, <1>3, <1>8 DEF Feeding

(* The window done is the first of the ones popped.                        *)
LEMMA EmitFeeding ==
    ASSUME IInv, Feeding, failed = "OK", failed' = "OK", EmitChunk
    PROVE  Feeding'
<1>0. /\ pc = "emit" /\ pc' = "check" /\ chunks' = chunks + 1
      /\ UNCHANGED <<chunker, encoded, todo>>
  BY DEF EmitChunk, fail, Return, Goto
<1>t. nextIdx \in Nat /\ Len(todo) \in Nat /\ chunks \in Nat
  BY WindowTypes
<1>1. FirstTodo' = FirstTodo
  BY <1>0 DEF FirstTodo, chunker
<1>2. BufHoldsRest' /\ AheadIsCurrent'
  BY <1>0, <1>1, AheadMeans, AheadMeansNext DEF Feeding, BufHoldsRest, chunker, encoded
<1>3. TodoInOrder'
  <2>1. /\ chunks = FirstTodo + 0
        /\ \A j \in 1..Len(todo) :
              /\ todo[j].index = FirstTodo + j - 1
              /\ todo[j].pcm = WinAt(todo[j].index, total)
              /\ Avail(todo[j].index, total, finished)
    BY <1>0, TodoMeans DEF Feeding
  <2>2. FirstTodo \in Int
    BY <1>t DEF FirstTodo
  <2>3. chunks' = FirstTodo' + 1
    BY <1>0, <1>1, <2>1, <2>2
  <2>4. QED
    BY <1>0, <1>1, <2>1, <2>3, TodoMeansNext DEF chunker
<1>4. QED
  BY <1>2, <1>3 DEF Feeding

LEMMA CheckFeeding ==
    ASSUME IInv, Feeding, failed = "OK", failed' = "OK", CheckCancel
    PROVE  Feeding'
<1>0. /\ pc = "check" /\ pc' \in {"drain", "chunk"} /\ todo' = Tail(todo)
      /\ UNCHANGED <<chunker, encoded, chunks>>
  BY DEF CheckCancel, fail, Return, Goto
<1>t. /\ nextIdx \in Nat /\ todo \in Seq(WindowType) /\ Len(todo) \in Nat
      /\ todo # << >> /\ chunks \in Nat /\ aheadFirst \in Nat /\ Len(aheadFeats) \in Nat
  BY <1>0, WindowTypes DEF IInv, StepsSane
<1>1. /\ Len(todo') = Len(todo) - 1
      /\ \A j \in 1..Len(todo') : todo'[j] = todo[j + 1] /\ j + 1 \in 1..Len(todo)
  BY <1>0, <1>t, HeadTailProperties
<1>2. FirstTodo' = FirstTodo + 1 /\ FirstTodo \in Int
  BY <1>0, <1>t, <1>1 DEF FirstTodo, chunker
<1>3. BufHoldsRest'
  BY <1>0 DEF Feeding, BufHoldsRest, chunker
<1>4. /\ chunks = FirstTodo + 1
      /\ \A j \in 1..Len(todo) :
            /\ todo[j].index = FirstTodo + j - 1
            /\ todo[j].pcm = WinAt(todo[j].index, total)
            /\ Avail(todo[j].index, total, finished)
  BY <1>0, TodoMeans DEF Feeding
<1>5. TodoInOrder'
  <2>1. ASSUME NEW j \in 1..Len(todo')
        PROVE  /\ todo'[j].index = FirstTodo' + j - 1
               /\ todo'[j].pcm = WinAt(todo'[j].index, total')
               /\ Avail(todo'[j].index, total', finished')
    <3>1. todo'[j] = todo[j + 1] /\ j + 1 \in 1..Len(todo)
      BY <1>1
    <3>2. todo[j + 1].index = FirstTodo + (j + 1) - 1
      BY <1>4, <3>1
    <3>3. FirstTodo + (j + 1) - 1 = FirstTodo' + j - 1
      BY <1>2
    <3>4. QED
      BY <1>0, <1>4, <3>1, <3>2, <3>3 DEF chunker
  <2>2. chunks' = FirstTodo' + 0 /\ pc' # "check"
    BY <1>0, <1>t, <1>2, <1>4
  <2>3. QED
    BY <2>1, <2>2, TodoMeansNext
<1>6. AheadIsCurrent'
  <2>1. \A i \in 1..Len(aheadFeats) :
          /\ aheadFirst + i - 1 < nextIdx
          /\ aheadFirst + i - 1 >= FirstTodo
                => aheadFeats[i] = WinAt(aheadFirst + i - 1, total)
    BY AheadMeans DEF Feeding
  <2>2. QED
    BY <1>0, <1>t, <1>2, <2>1, AheadMeansNext DEF encoded, chunker
<1>7. QED
  BY <1>3, <1>5, <1>6 DEF Feeding

(* Every step that does not fail keeps the windows in order.               *)
LEMMA NextFeeding ==
    ASSUME IInv, CallsSane, failed = "OK" => Feeding, [Next]_vars, failed' = "OK"
    PROVE  Feeding'
<1> USE DEF control, chunker, encoded, status
<1>1. CASE Close
  <2>1. (Fresh /\ pc = "closed")'
    BY <1>1 DEF Close, Fresh
  <2>2. QED
    BY <2>1, NoFeeding, PTL
<1>2. CASE ~Close
  <2>ok. failed = "OK" /\ Feeding
    BY <1>2 DEF Next, Running, Open, Finish, Cancel, Push, Drained, Drain, Pop,
       EncodeAhead, StartChunk, Prefill, DecodeStop, DecodeText, FeedToken, DecodeStep,
       EndChunk, AppendTokens, EmitChunk, CheckCancel, fail, vars
  <2>1. ASSUME NEW n \in 0..(MaxTotal - total), Push(n) PROVE Feeding'
    <3>1. n \in Nat
      BY WindowTypes
    <3>2. QED
      BY <2>ok, <2>1, <3>1, PushFeeding
  <2>2. CASE Finish
    BY <2>ok, <2>2, FinishFeeding
  <2>3. CASE chunker_next /\ ready > 0 /\ pc # "check" /\ pc' # "check"
             /\ UNCHANGED <<encoded, chunks>>
    BY <2>ok, <2>3, NextBuf, NextTodo DEF Feeding
  <2>4. CASE EncodeAhead
    BY <2>ok, <2>4, EncodeFeeding
  <2>5. CASE EmitChunk
    BY <2>ok, <2>5, EmitFeeding
  <2>6. CASE CheckCancel
    BY <2>ok, <2>6, CheckFeeding
  <2>7. CASE /\ UNCHANGED <<chunker, todo, encoded, chunks>>
             /\ pc = "check" <=> pc' = "check"
    BY <2>ok, <2>7, FeedingStays
  <2>8. ASSUME Open \/ Cancel \/ UNCHANGED vars
        PROVE  /\ UNCHANGED <<chunker, todo, encoded, chunks>>
               /\ pc = "check" <=> pc' = "check"
    BY <2>8 DEF Open, Cancel, vars
  <2>9. ASSUME Drained
        PROVE  /\ UNCHANGED <<chunker, todo, encoded, chunks>>
               /\ pc = "check" <=> pc' = "check"
    BY <2>ok, <2>9 DEF Drained, Return, CallsSane
  <2>10. CASE Drain \/ Pop
    BY <2>3, <2>7, <2>10, <2>ok DEF Drain, Pop, Goto, fail, Return
  <2>11. ASSUME \/ StartChunk \/ Prefill \/ DecodeStop \/ DecodeText
         PROVE  /\ UNCHANGED <<chunker, todo, encoded, chunks>>
                /\ pc = "check" <=> pc' = "check"
    BY <2>ok, <2>11 DEF StartChunk, Prefill, DecodeStop, DecodeText, fail, Return, Goto
  <2>12. ASSUME \/ FeedToken \/ DecodeStep \/ EndChunk \/ AppendTokens
         PROVE  /\ UNCHANGED <<chunker, todo, encoded, chunks>>
                /\ pc = "check" <=> pc' = "check"
    BY <2>ok, <2>12 DEF FeedToken, DecodeStep, EndChunk, AppendTokens, fail, Return, Goto
  <2>13. QED
    BY <1>2, <2>1, <2>2, <2>4, <2>5, <2>6, <2>7, <2>8, <2>9, <2>10, <2>11, <2>12
       DEF Next, Running
<1>3. QED
  BY <1>1, <1>2

(* Between the windows of a batch nothing else is popped.                  *)
LEMMA NextCallsSane == IInv /\ CallsSane /\ [Next]_vars => CallsSane'
<1> SUFFICES ASSUME IInv, CallsSane, [Next]_vars PROVE CallsSane'
  OBVIOUS
<1> USE DEF control, chunker, encoded, kv, decode, text, status
<1>1. Flushed'
  BY NextFlushed DEF CallsSane
<1>2. pc' = "closed" => Fresh'
  <2>1. CASE Close
    BY <2>1 DEF Close, Fresh
  <2>2. CASE UNCHANGED vars
    BY <2>2 DEF vars, Fresh, CallsSane
  <2>3. ASSUME ~Close, ~UNCHANGED vars PROVE pc' # "closed"
    <3>1. ASSUME Open \/ Finish \/ Cancel \/ \E n \in 0..(MaxTotal - total) : Push(n)
          PROVE  pc' # "closed"
      BY <3>1 DEF Open, Finish, Cancel, Push, fail, Return
    <3>2. ASSUME Drained \/ Drain \/ Pop \/ EncodeAhead \/ StartChunk PROVE pc' # "closed"
      BY <3>2 DEF Drained, Drain, Pop, EncodeAhead, StartChunk, fail, Return, Goto
    <3>3. ASSUME Prefill \/ DecodeStop \/ DecodeText \/ FeedToken PROVE pc' # "closed"
      BY <3>3 DEF Prefill, DecodeStop, DecodeText, FeedToken, fail, Return, Goto
    <3>4. ASSUME DecodeStep \/ EndChunk \/ AppendTokens \/ EmitChunk \/ CheckCancel
          PROVE  pc' # "closed"
      BY <3>4 DEF DecodeStep, EndChunk, AppendTokens, EmitChunk, CheckCancel, fail,
         Return, Goto
    <3>5. QED
      BY <2>3, <3>1, <3>2, <3>3, <3>4 DEF Next, Running
  <2>4. QED
    BY <2>1, <2>2, <2>3
<1>3. failed' = "OK" /\ pc' \in {"idle", "drain"} => todo' = << >>
  <2>1. CASE Open \/ Cancel \/ Close \/ UNCHANGED vars
    BY <2>1 DEF Open, Cancel, Close, vars, CallsSane, Fresh
  <2>2. CASE Finish
    BY <2>2 DEF Finish, fail, Return, CallsSane
  <2>3. CASE \E n \in 0..(MaxTotal - total) : Push(n)
    BY <2>3 DEF Push, fail, Return, CallsSane
  <2>4. CASE Drained \/ Drain \/ Pop \/ EncodeAhead \/ StartChunk
    BY <2>4 DEF Drained, Drain, Pop, EncodeAhead, StartChunk, fail, Return, Goto
  <2>5. CASE Prefill \/ DecodeStop \/ DecodeText \/ FeedToken
    BY <2>5 DEF Prefill, DecodeStop, DecodeText, FeedToken, fail, Return, Goto
  <2>6. CASE DecodeStep \/ EndChunk \/ AppendTokens \/ EmitChunk \/ CheckCancel
    BY <2>6 DEF DecodeStep, EndChunk, AppendTokens, EmitChunk, CheckCancel, fail,
         Return, Goto
  <2>7. QED
    BY <2>1, <2>2, <2>3, <2>4, <2>5, <2>6 DEF Next, Running
<1>4. call' = "finish" => finished'
  <2>1. CASE Open \/ Cancel \/ Close \/ UNCHANGED vars
    BY <2>1 DEF Open, Cancel, Close, vars, CallsSane
  <2>2. CASE Finish
    BY <2>2 DEF Finish, fail, Return, CallsSane
  <2>3. CASE \E n \in 0..(MaxTotal - total) : Push(n)
    BY <2>3 DEF Push, fail, Return, CallsSane
  <2>4. CASE Drained \/ Drain \/ Pop \/ EncodeAhead \/ StartChunk
    BY <2>4 DEF Drained, Drain, Pop, EncodeAhead, StartChunk, fail, Return, Goto,
       CallsSane, chunker_next
  <2>5. CASE Prefill \/ DecodeStop \/ DecodeText \/ FeedToken
    BY <2>5 DEF Prefill, DecodeStop, DecodeText, FeedToken, fail, Return, Goto, CallsSane
  <2>6. CASE DecodeStep \/ EndChunk \/ AppendTokens \/ EmitChunk \/ CheckCancel
    BY <2>6 DEF DecodeStep, EndChunk, AppendTokens, EmitChunk, CheckCancel, fail,
         Return, Goto, CallsSane
  <2>7. QED
    BY <2>1, <2>2, <2>3, <2>4, <2>5, <2>6 DEF Next, Running
<1>5. QED
  BY <1>1, <1>2, <1>3, <1>4 DEF CallsSane

(* The invariant of the refinement holds in every behaviour.               *)
THEOREM ProtocolInvariance == Spec => []ProtocolInv
<1>1. Init => CallsSane /\ Feeding
  BY NoFeeding DEF Init, CallsSane, Flushed, Fresh
<1>2. CallsSane => Flushed
  BY DEF CallsSane
<1>3. IInv /\ TextInOrder /\ CallsSane /\ (failed = "OK" => Feeding) <=> ProtocolInv
  BY DEF ProtocolInv, Feeding
<1>4. IInv /\ CallsSane /\ (failed = "OK" => Feeding) /\ [Next]_vars
         => (failed = "OK" => Feeding)'
  BY NextFeeding
<1>5. QED
  BY <1>1, <1>2, <1>3, <1>4, NextCallsSane, TextKeepsOrder, Invariance, PTL DEF Spec

-----------------------------------------------------------------------------
(* The refinement.  First the steps the protocol does not see.             *)
LEMMA SameView ==
    ASSUME UNCHANGED <<total, finished, shown, cache, lead, tokens, step, done>>,
           DoneChunks' = DoneChunks,
           failed' = failed \/ done,
           pc' = "closed" <=> pc = "closed",
           pc' \in InChunk <=> pc \in InChunk,
           pc' \in {"feed", "step"} <=> pc \in {"feed", "step"}
    PROVE  UNCHANGED Protocol!vars
<1>1. FedCache' = FedCache
  BY DEF FedCache, Over
<1>2. FedStep' = FedStep
  BY DEF FedStep
<1>3. FedTokens' = FedTokens
  BY DEF FedTokens, Over
<1>4. Outcome' = Outcome
  BY DEF Outcome
<1>5. (pc \in InChunk)' = (pc \in InChunk)
  OBVIOUS
<1>6. QED
  BY <1>1, <1>2, <1>3, <1>4, <1>5 DEF Protocol!vars

LEMMA SameChunks ==
    ASSUME UNCHANGED <<chunks, done>>, failed' = failed \/ done,
           pc' = "emit" <=> pc = "emit"
    PROVE  DoneChunks' = DoneChunks
  BY DEF DoneChunks, Over

(* A failure of a session that is not done stops it.                       *)
LEMMA FailStops ==
    ASSUME failed = "OK", ~done, pc # "closed", NEW st \in Status \ {"OK"}, fail(st),
           UNCHANGED <<total, finished, shown>>
    PROVE  Protocol!Stop
<1>1. pc' = "idle" /\ failed' = st /\ ~done' /\ st # "OK"
  BY DEF fail, Return
<1>2. Outcome = "live"
  BY DEF Outcome
<1>3. Outcome' \in {"error", "cancelled"}
  BY <1>1 DEF Outcome
<1>4. FedCache' = << >> /\ DoneChunks' = 0 /\ FedTokens' = 0
  BY <1>1 DEF FedCache, DoneChunks, FedTokens, Over
<1>5. FedStep' = 0 /\ (pc \in InChunk)' = FALSE
  BY <1>1 DEF FedStep, InChunk
<1>6. QED
  BY <1>2, <1>3, <1>4, <1>5 DEF Protocol!Stop

(* A session that runs is live.                                            *)
LEMMA LiveInCall ==
    ASSUME IInv, InCall
    PROVE  failed = "OK" /\ ~done /\ pc # "closed" /\ Outcome = "live"
  BY DEF IInv, StepsSane, InCall, Outcome

LEMMA OpenView ==
    ASSUME IInv, CallsSane, Open
    PROVE  Protocol!Open
<1> USE DEF chunker, decode, text, status
<1>0. pc = "closed" /\ Fresh /\ pc' = "idle" /\ cache' = Rows("prompt", << >>, PromptLen)
  BY DEF Open, CallsSane
<1>1. /\ UNCHANGED <<total, finished, chunks, tokens, shown, done, failed, lead>>
      /\ failed = "OK" /\ ~done /\ ~lead
  BY <1>0 DEF Open, Fresh
<1>2. Outcome = "closed" /\ Outcome' = "live"
  BY <1>0, <1>1 DEF Outcome
<1>3. cache' \in Seq(RowType)
  BY <1>0, RowsType, EmptySeq
<1>4. FedCache' = cache'
  BY <1>1, <1>3, ConcatEmptySeq DEF FedCache, Over
<1>5. cache' = Protocol!Rows("prompt", << >>, PromptLen)
  BY <1>0 DEF Rows, Row, Protocol!Rows, Protocol!Row
<1>6. DoneChunks' = DoneChunks /\ FedStep' = FedStep /\ FedTokens' = FedTokens
      /\ (pc \in InChunk)' = (pc \in InChunk)
  BY <1>0, <1>1 DEF DoneChunks, FedStep, FedTokens, Over, InChunk
<1>7. QED
  BY <1>1, <1>2, <1>4, <1>5, <1>6 DEF Protocol!Open

LEMMA CloseView ==
    ASSUME Close
    PROVE  Protocol!Close
<1>1. /\ pc' = "closed" /\ total' = 0 /\ finished' = FALSE /\ cache' = << >>
      /\ lead' = FALSE /\ chunks' = 0 /\ tokens' = 0 /\ shown' = << >>
      /\ failed' = "OK"
  BY DEF Close
<1>2. << >> \o << >> = << >>
  BY EmptySeq, ConcatEmptySeq
<1>3. FedCache' = << >>
  BY <1>1, <1>2 DEF FedCache, Over
<1>4. DoneChunks' = 0 /\ FedStep' = 0 /\ FedTokens' = 0
  <2>1. DoneChunks' = 0
    BY <1>1 DEF DoneChunks, Over
  <2>2. FedTokens' = 0
    <3>1. (IF pc' \in {"feed", "step"} THEN 1 ELSE 0) = 0 /\ tokens' = 0 /\ 0 - 0 = 0
      BY <1>1
    <3>2. QED
      BY <1>1, <3>1, Zenon DEF FedTokens, Over
  <2>3. FedStep' = 0
    BY <1>1 DEF FedStep, InChunk
  <2>4. QED
    BY <2>1, <2>2, <2>3
<1>5. Outcome' = "closed" /\ (pc \in InChunk)' = FALSE
  BY <1>1 DEF Outcome, InChunk
<1>6. QED
  BY <1>1, <1>3, <1>4, <1>5 DEF Protocol!Close, Protocol!Fresh

(* vv_stream_push: samples arrive, or the session has ended already.       *)
LEMMA PushView ==
    ASSUME IInv, NEW n \in Nat, Push(n)
    PROVE  Protocol!Receive \/ Protocol!Stop \/ UNCHANGED Protocol!vars
<1> USE DEF chunker, kv, decode, text, status
<1>0. pc = "idle" /\ UNCHANGED <<cache, lead, tokens, step, shown, chunks>>
  BY DEF Push
<1>1. CASE /\ pc' = "idle" /\ UNCHANGED <<total, finished, done>>
           /\ failed' = failed \/ done
  <2>1. DoneChunks' = DoneChunks
    BY <1>0, <1>1, SameChunks
  <2>2. UNCHANGED Protocol!vars
    BY <1>0, <1>1, <2>1, SameView DEF InChunk
  <2>3. QED
    BY <2>2
<1>2. ASSUME NEW st \in Status \ {"OK"}, fail(st), failed = "OK", ~done,
             UNCHANGED chunker
      PROVE  Protocol!Stop
  BY <1>0, <1>2, FailStops
<1>3. CASE /\ failed = "OK" /\ ~done /\ ~finished /\ chunker_push(n)
           /\ pc' = "drain" /\ UNCHANGED <<finished, status>>
  <2>1. total \in Nat /\ total' = total + n
    BY <1>3, WindowTypes DEF chunker_push
  <2>2. total' \in Nat /\ total' >= total
    BY <2>1
  <2>3. Outcome = "live" /\ Outcome' = Outcome
    BY <1>0, <1>3 DEF Outcome
  <2>4. FedCache' = FedCache /\ DoneChunks' = DoneChunks /\ FedStep' = FedStep
        /\ FedTokens' = FedTokens
    BY <1>0, <1>3 DEF FedCache, DoneChunks, FedStep, FedTokens, Over, InChunk
  <2>5. pc \notin InChunk /\ (pc \in InChunk)' = (pc \in InChunk)
    BY <1>0, <1>3 DEF InChunk
  <2>6. Protocol!Receive
    BY <1>0, <1>3, <2>2, <2>3, <2>4, <2>5 DEF Protocol!Receive
  <2>7. QED
    BY <2>6
<1>4. CASE failed = "OK" /\ fail("CANCELLED") /\ UNCHANGED chunker
  <2>1. CASE done
    BY <1>1, <1>4, <2>1 DEF fail, Return
  <2>2. CASE ~done
    BY <1>2, <1>4, <2>2 DEF Status
  <2>3. QED
    BY <2>1, <2>2
<1>5. CASE Return(failed) /\ UNCHANGED <<chunker, status>>
  BY <1>1, <1>5 DEF Return
<1>6. CASE Return("INVALID_ARG") /\ UNCHANGED <<chunker, status>>
  BY <1>1, <1>6 DEF Return
<1>7. CASE /\ failed = "OK" /\ ~done /\ UNCHANGED chunker
           /\ fail("INVALID_ARG") \/ fail("FAILED")
  BY <1>2, <1>7 DEF Status
<1>8. QED
  BY <1>3, <1>4, <1>5, <1>6, <1>7 DEF Push

(* vv_stream_finish.                                                       *)
LEMMA FinishView ==
    ASSUME IInv, Finish
    PROVE  Protocol!NoMore \/ Protocol!Stop \/ UNCHANGED Protocol!vars
<1> USE DEF kv, decode, text, status
<1>0. pc = "idle" /\ UNCHANGED <<total, cache, lead, tokens, step, shown, chunks>>
  BY DEF Finish
<1>1. CASE /\ pc' = "idle" /\ UNCHANGED <<finished, done>>
           /\ failed' = failed \/ done
  <2>1. DoneChunks' = DoneChunks
    BY <1>0, <1>1, SameChunks
  <2>2. UNCHANGED Protocol!vars
    BY <1>0, <1>1, <2>1, SameView DEF InChunk
  <2>3. QED
    BY <2>2
<1>2. CASE failed = "OK" /\ ~done /\ fail("CANCELLED") /\ UNCHANGED finished
  BY <1>0, <1>2, FailStops DEF Status
<1>3. CASE /\ failed = "OK" /\ ~done /\ finished' = TRUE /\ pc' = "drain"
           /\ UNCHANGED status
  <2>1. Outcome = "live" /\ Outcome' = Outcome
    BY <1>0, <1>3 DEF Outcome
  <2>2. FedCache' = FedCache /\ DoneChunks' = DoneChunks /\ FedStep' = FedStep
        /\ FedTokens' = FedTokens
    BY <1>0, <1>3 DEF FedCache, DoneChunks, FedStep, FedTokens, Over, InChunk
  <2>3. pc \notin InChunk /\ (pc \in InChunk)' = (pc \in InChunk)
    BY <1>0, <1>3 DEF InChunk
  <2>4. Protocol!NoMore
    BY <1>0, <1>3, <2>1, <2>2, <2>3 DEF Protocol!NoMore
  <2>5. QED
    BY <2>4
<1>4. CASE Return(failed) /\ UNCHANGED <<finished, status>>
  BY <1>1, <1>4 DEF Return
<1>5. CASE Return("OK") /\ UNCHANGED <<finished, status>>
  BY <1>1, <1>5 DEF Return
<1>6. QED
  BY <1>2, <1>3, <1>4, <1>5 DEF Finish

(* DONE is reported when no window is left.                                *)
LEMMA DrainedView ==
    ASSUME IInv, Feeding, CallsSane, Drained
    PROVE  Protocol!Finish \/ UNCHANGED Protocol!vars
<1> USE DEF chunker, kv, decode, text
<1>0. /\ pc = "drain" /\ ready = 0 /\ pc' = "idle" /\ todo = << >>
      /\ UNCHANGED <<total, finished, cache, lead, tokens, step, shown, chunks, failed>>
      /\ failed = "OK" /\ ~done /\ Outcome = "live"
  BY LiveInCall DEF Drained, Return, CallsSane, InCall
<1>1. CASE call # "finish"
  <2>1. UNCHANGED done
    BY <1>1 DEF Drained
  <2>2. DoneChunks' = DoneChunks
    BY <1>0, <2>1, SameChunks
  <2>3. UNCHANGED Protocol!vars
    BY <1>0, <2>1, <2>2, SameView DEF InChunk
  <2>4. QED
    BY <2>3
<1>2. CASE call = "finish"
  <2>1. done' = TRUE /\ finished
    BY <1>2 DEF Drained, CallsSane
  <2>2. Outcome' = "done"
    BY <1>0, <2>1 DEF Outcome
  <2>3. FedCache' = FedCache /\ DoneChunks' = DoneChunks /\ FedStep' = FedStep
        /\ FedTokens' = FedTokens
    BY <1>0, <2>1 DEF FedCache, DoneChunks, FedStep, FedTokens, Over, InChunk
  <2>4. pc \notin InChunk /\ (pc \in InChunk)' = (pc \in InChunk)
    BY <1>0 DEF InChunk
  <2>5. DoneChunks = nextIdx
    <3>1. nextIdx \in Nat /\ chunks \in Nat /\ Len(todo) = 0
      BY <1>0, WindowTypes, EmptySeq
    <3>2. chunks = FirstTodo + 0
      BY <1>0, TodoMeans DEF Feeding
    <3>3. chunks = nextIdx
      BY <3>1, <3>2 DEF FirstTodo
    <3>4. QED
      BY <1>0, <3>1, <3>3 DEF DoneChunks, Over
  <2>6. ~Avail(nextIdx, total, finished)
    BY <1>0, WindowTypes, ReadyIsAvailable DEF Feeding, BufHoldsRest
  <2>7. ~Protocol!Available(DoneChunks)
    BY <2>5, <2>6 DEF Avail, Protocol!Available, Protocol!Window, Window
  <2>8. Protocol!Finish
    BY <1>0, <2>1, <2>2, <2>3, <2>4, <2>7 DEF Protocol!Finish
  <2>9. QED
    BY <2>8
<1>3. QED
  BY <1>1, <1>2

(* What a window was encoded into, ahead or now, is that window's audio.   *)
LEMMA FeaturesAreOwn ==
    ASSUME IInv, Feeding, pc \notin {"check"}, todo # << >>
    PROVE  /\ Features(todo[1]) = WinAt(chunks, total)
           /\ Avail(chunks, total, finished)
<1>t. /\ nextIdx \in Nat /\ todo \in Seq(WindowType) /\ Len(todo) \in Nat
      /\ chunks \in Nat /\ aheadFirst \in Nat /\ Len(aheadFeats) \in Nat
  BY WindowTypes
<1>1. 1 \in 1..Len(todo)
  BY <1>t, EmptySeq
<1>2. FirstTodo \in Int /\ chunks = FirstTodo + 0
  BY <1>t, TodoMeans DEF Feeding, FirstTodo
<1>3. /\ todo[1].index = FirstTodo + 1 - 1
      /\ todo[1].pcm = WinAt(todo[1].index, total)
      /\ Avail(todo[1].index, total, finished)
  BY <1>1, TodoMeans DEF Feeding
<1>4. todo[1].index = chunks /\ chunks = FirstTodo
  BY <1>2, <1>3
<1>5. CASE chunks >= aheadFirst /\ chunks < aheadFirst + Len(aheadFeats)
  <2>1. /\ chunks - aheadFirst + 1 \in 1..Len(aheadFeats)
        /\ aheadFirst + (chunks - aheadFirst + 1) - 1 = chunks
    BY <1>t, <1>5
  <2>2. \A i \in 1..Len(aheadFeats) :
           aheadFirst + i - 1 >= FirstTodo
              => aheadFeats[i] = WinAt(aheadFirst + i - 1, total)
    BY AheadMeans DEF Feeding
  <2>3. aheadFeats[chunks - aheadFirst + 1] = WinAt(chunks, total)
    <3>1. aheadFirst + (chunks - aheadFirst + 1) - 1 >= FirstTodo
      BY <1>2, <1>4, <2>1
    <3>2. aheadFeats[chunks - aheadFirst + 1] =
            WinAt(aheadFirst + (chunks - aheadFirst + 1) - 1, total)
      BY <2>1, <2>2, <3>1
    <3>3. QED
      BY <2>1, <3>2
  <2>4. QED
    BY <1>3, <1>4, <1>5, <2>3 DEF Features
<1>6. CASE ~(chunks >= aheadFirst /\ chunks < aheadFirst + Len(aheadFeats))
  BY <1>3, <1>4, <1>6 DEF Features
<1>7. QED
  BY <1>5, <1>6

(* Rows put behind the cache, with or without a chunk end before them.     *)
LEMMA JoinRows ==
    ASSUME NEW c, NEW l, NEW s, NEW f, NEW e, NEW ls, NEW lsf, NEW rows,
           NEW cl, NEW cls, NEW clsf, NEW all,
           Joins(RowType, ls, l, s), Joins(RowType, lsf, ls, f),
           Joins(RowType, rows, lsf, e), Joins(RowType, cl, c, l),
           Joins(RowType, cls, cl, s), Joins(RowType, clsf, cls, f),
           Joins(RowType, all, clsf, e)
    PROVE  Joins(RowType, all, c, rows)
<1>1. Joins(RowType, cls, c, ls)
  BY Regroup
<1>2. Joins(RowType, clsf, c, lsf)
  BY <1>1, Regroup
<1>3. QED
  BY <1>2, Regroup

(* be.prefill_chunk begins the next window.                                *)
LEMMA PrefillView ==
    ASSUME IInv, Feeding, Prefill
    PROVE  Protocol!Begin \/ Protocol!Stop
<1> USE DEF chunker, encoded
<1>0. /\ pc = "prefill" /\ todo # << >> /\ failed = "OK" /\ ~done /\ Outcome = "live"
      /\ pc # "closed" /\ pc \notin InChunk
      /\ UNCHANGED <<total, finished, tokens, shown, chunks>>
  BY LiveInCall DEF Prefill, InCall, IInv, StepsSane, InChunk
<1>1. CASE fail("FAILED")
  BY <1>0, <1>1, FailStops DEF Status
<1>2. CASE /\ cache' = cache \o chunk_layout(Features(todo[1]))
           /\ lead' = FALSE /\ step' = 0 /\ Goto("decode") /\ UNCHANGED status
  <2> DEFINE win == WinAt(chunks, total)
             l == IF lead THEN ChunkEnd ELSE << >>
             s == <<Row("start", << >>)>>
             f == Rows("feature", win, Window)
             e == <<Row("end", << >>)>>
             ls == l \o s
             lsf == ls \o f
             rows == lsf \o e
             cl == cache \o l
             cls == cl \o s
             clsf == cls \o f
             all == clsf \o e
  <2>1. Features(todo[1]) = win /\ Avail(chunks, total, finished)
    BY <1>0, FeaturesAreOwn
  <2>2. cache' = cache \o rows
    BY <1>2, <2>1 DEF chunk_layout
  <2>3. /\ cache \in Seq(RowType) /\ l \in Seq(RowType) /\ s \in Seq(RowType)
        /\ f \in Seq(RowType) /\ e \in Seq(RowType) /\ Window \in Nat
    <3>1. Window \in Nat /\ total \in Nat /\ chunks \in Nat
      BY WindowTypes
    <3>2. cache \in Seq(RowType) /\ lead \in BOOLEAN
      BY DEF IInv, TypeOK, TypeModel
    <3>3. win \in Seq(Nat)
      <4>1. \A j \in 1..Window :
               (IF chunks * Chunk + j <= total THEN chunks * Chunk + j ELSE 0) \in Nat
        BY <3>1
      <4>2. win \in [1..Window -> Nat]
        BY <4>1 DEF WinAt
      <4>3. QED
        BY <3>1, <4>2, FunSeq
    <3>4. f \in Seq(RowType)
      BY <3>1, <3>3, RowsType
    <3>5. s \in Seq(RowType) /\ e \in Seq(RowType)
      BY DEF Row, RowType
    <3>6. l \in Seq(RowType)
      BY <3>2, ChunkEndType, EmptySeq
    <3>7. QED
      BY <3>1, <3>2, <3>4, <3>5, <3>6
  <2>4. FedCache = cl
    BY <1>0 DEF FedCache, Over
  <2>5. /\ f = Protocol!Rows("feature", Protocol!WindowAt(chunks), Protocol!Window)
        /\ s = <<Protocol!Row("start", << >>)>> /\ e = <<Protocol!Row("end", << >>)>>
    BY DEF Rows, Row, Protocol!Rows, Protocol!Row, WinAt, Protocol!WindowAt,
       Protocol!Window, Window
  <2>6. /\ FedCache \o <<Protocol!Row("start", << >>)>>
           \o Protocol!Rows("feature", Protocol!WindowAt(chunks), Protocol!Window)
           \o <<Protocol!Row("end", << >>)>> = all
    BY <2>4, <2>5, Zenon
  <2> HIDE DEF win, l, s, f, e
  <2>7. /\ ls \in Seq(RowType) /\ cl \in Seq(RowType)
        /\ Joins(RowType, ls, l, s) /\ Joins(RowType, cl, cache, l)
    BY <2>3, ConcatProperties DEF Joins
  <2> HIDE DEF ls, cl
  <2>8. /\ lsf \in Seq(RowType) /\ cls \in Seq(RowType)
        /\ Joins(RowType, lsf, ls, f) /\ Joins(RowType, cls, cl, s)
    BY <2>3, <2>7, ConcatProperties DEF Joins
  <2> HIDE DEF lsf, cls
  <2>9. /\ rows \in Seq(RowType) /\ clsf \in Seq(RowType)
        /\ Joins(RowType, rows, lsf, e) /\ Joins(RowType, clsf, cls, f)
    BY <2>3, <2>8, ConcatProperties DEF Joins
  <2> HIDE DEF rows, clsf
  <2>10. all \in Seq(RowType) /\ Joins(RowType, all, clsf, e)
    BY <2>3, <2>9, ConcatProperties DEF Joins
  <2> HIDE DEF all
  <2>11. all = cache \o rows
    <3>1. Joins(RowType, all, cache, rows)
      BY <2>7, <2>8, <2>9, <2>10, JoinRows
    <3>2. QED
      BY <3>1 DEF Joins
  <2>12. pc' = "decode" /\ failed' = "OK" /\ done' = done /\ ~lead'
    BY <1>0, <1>2 DEF Goto, status
  <2>13. FedCache' = all
    <3>1. cache' = all /\ cache' \in Seq(RowType)
      BY <2>2, <2>3, <2>9, <2>11, ConcatProperties
    <3>2. FedCache' = cache' \o << >>
      BY <2>12 DEF FedCache, Over
    <3>3. QED
      BY <3>1, <3>2, ConcatEmptySeq
  <2>14. DoneChunks = chunks /\ DoneChunks' = DoneChunks
    <3>1. chunks \in Nat
      BY WindowTypes
    <3>2. QED
      BY <1>0, <2>12, <3>1 DEF DoneChunks, Over
  <2>15. FedStep' = FedStep /\ FedTokens' = FedTokens /\ Outcome' = Outcome
         /\ (pc \in InChunk)' = TRUE
    BY <1>0, <1>2, <2>12 DEF FedStep, FedTokens, Over, Outcome, InChunk
  <2>16. Protocol!Available(DoneChunks)
    BY <2>1, <2>14 DEF Avail, Protocol!Available, Protocol!Window, Window
  <2>17. FedCache' = FedCache \o <<Protocol!Row("start", << >>)>>
           \o Protocol!Rows("feature", Protocol!WindowAt(DoneChunks), Protocol!Window)
           \o <<Protocol!Row("end", << >>)>>
    BY <2>6, <2>13, <2>14, Zenon
  <2>18. Protocol!Begin
    BY <1>0, <2>14, <2>15, <2>16, <2>17, Zenon DEF Protocol!Begin
  <2>19. QED
    BY <2>18
<1>3. QED
  BY <1>1, <1>2 DEF Prefill

(* The text shown is that of the first tokens.                             *)
LEMMA ShownIsPrefix ==
    ASSUME NEW s \in Seq(Nat), NEW h \in Seq(Nat), NEW n \in Nat, s \o h = Iota(n)
    PROVE  Len(s) \in Nat /\ Len(s) <= n /\ s = Iota(Len(s))
<1>1. Len(s) \in Nat /\ Len(h) \in Nat /\ Len(Iota(n)) = n
  BY LenProperties, IotaSeq
<1>2. /\ Len(s \o h) = Len(s) + Len(h)
      /\ \A i \in 1..(Len(s) + Len(h)) :
            (s \o h)[i] = IF i <= Len(s) THEN s[i] ELSE h[i - Len(s)]
  BY ConcatProperties
<1>3. Len(s) <= n
  BY <1>1, <1>2
<1>4. Iota(Len(s)) \in Seq(Nat) /\ Len(Iota(Len(s))) = Len(s)
  BY <1>1, IotaSeq
<1>5. ASSUME NEW i \in 1..Len(s) PROVE s[i] = Iota(Len(s))[i]
  <2>1. Iota(n)[i] = i /\ Iota(Len(s))[i] = i
    BY <1>1, <1>3 DEF Iota
  <2>2. (s \o h)[i] = s[i]
    BY <1>1, <1>2
  <2>3. QED
    BY <2>1, <2>2
<1>6. QED
  BY <1>1, <1>3, <1>4, <1>5, SeqEqual

(* Text released while a window is decoded.                                *)
LEMMA ShowView ==
    ASSUME IInv, TextInOrder', IInv', failed = "OK", failed' = "OK", ~done, ~done',
           pc \in InChunk, pc' \in InChunk,
           NEW a \in Seq(Nat), shown' = shown \o a,
           UNCHANGED <<total, finished, cache, lead, chunks, step>>,
           FedTokens' = FedTokens, tokens' <= FedTokens + 1
    PROVE  Protocol!Show
<1>1. shown \in Seq(Nat) /\ shown' \in Seq(Nat) /\ held' \in Seq(Nat) /\ tokens' \in Nat
  BY DEF IInv, TypeOK, TypeText, TypeModel
<1>2. shown' \o held' = Iota(tokens')
  BY DEF TextInOrder, Iota
<1>3. Len(shown') \in Nat /\ Len(shown') <= tokens' /\ shown' = Iota(Len(shown'))
  BY <1>1, <1>2, ShownIsPrefix
<1>4. Len(shown) \in Nat /\ Len(shown') >= Len(shown)
  <2>1. Len(shown \o a) = Len(shown) + Len(a) /\ Len(a) \in Nat /\ Len(shown) \in Nat
    BY <1>1, ConcatProperties, LenProperties
  <2>2. QED
    BY <2>1
<1>5. FedTokens \in Int
  <2>1. tokens \in Nat
    BY DEF IInv, TypeOK, TypeModel
  <2>2. QED
    BY <2>1 DEF FedTokens, Over
<1>6. Len(shown') \in Len(shown)..(FedTokens + 1)
  BY <1>1, <1>3, <1>4, <1>5
<1>7. shown' = Protocol!Iota(Len(shown'))
  BY <1>3 DEF Iota, Protocol!Iota
<1>8. Outcome = "live" /\ Outcome' = Outcome /\ FedStep' = FedStep
      /\ (pc \in InChunk)' = (pc \in InChunk)
  BY DEF Outcome, InChunk, FedStep
<1>9. FedCache' = FedCache /\ DoneChunks' = DoneChunks
  BY DEF FedCache, DoneChunks, Over, InChunk
<1>10. QED
  BY <1>6, <1>7, <1>8, <1>9 DEF Protocol!Show

LEMMA DecodeTextView ==
    ASSUME IInv, IInv', TextInOrder, DecodeText
    PROVE  Protocol!Show \/ Protocol!Stop
<1> USE DEF chunker, kv
<1>0. /\ pc = "decode" /\ failed = "OK" /\ ~done /\ tokens' = tokens + 1
      /\ pc # "closed" /\ tokens \in Nat
      /\ UNCHANGED <<total, finished, cache, lead, chunks, step>>
  BY LiveInCall DEF DecodeText, InCall, IInv, TypeOK, TypeModel
<1>1. CASE fail("FAILED") /\ UNCHANGED text
  BY <1>0, <1>1, FailStops DEF Status, text
<1>2. ASSUME NEW n \in 0..(Len(held) + 1), emit_delta(Append(held, tokens + 1), n),
             Goto("feed"), UNCHANGED status
      PROVE  Protocol!Show
  <2> DEFINE p == Append(held, tokens + 1)
  <2>1. held \in Seq(Nat)
    BY DEF IInv, TypeOK, TypeText
  <2>2. p \in Seq(Nat) /\ n \in 0..Len(p)
    BY <1>0, <2>1, AppendProperties
  <2>3. SubSeq(p, 1, n) \in Seq(Nat) /\ shown' = shown \o SubSeq(p, 1, n)
    BY <1>2, <2>2, Split DEF emit_delta
  <2> HIDE DEF p
  <2>4. pc' = "feed" /\ failed' = "OK" /\ ~done'
    BY <1>0, <1>2 DEF Goto, status
  <2>5. FedTokens = tokens /\ FedTokens' = tokens
    BY <1>0, <2>4 DEF FedTokens, Over
  <2>6. TextInOrder'
    BY DecodeTextText
  <2>7. pc \in InChunk /\ pc' \in InChunk /\ FedTokens' = FedTokens
        /\ tokens' <= FedTokens + 1
    BY <1>0, <2>4, <2>5 DEF InChunk
  <2>8. QED
    BY <1>0, <2>3, <2>4, <2>6, <2>7, ShowView
<1>3. QED
  BY <1>1, <1>2 DEF DecodeText

(* A chunk in progress owes no chunk end: the model was fed the cache.     *)
LEMMA CacheInChunk ==
    ASSUME IInv, pc \in InChunk, failed = "OK"
    PROVE  ~lead /\ cache \in Seq(RowType) /\ FedCache = cache
<1>1. ~lead /\ cache \in Seq(RowType)
  BY DEF IInv, StepsSane, TypeOK, TypeModel
<1>2. QED
  BY <1>1, ConcatEmptySeq DEF FedCache, Over

(* be.decode_step feeds the token whose text was pushed.                   *)
LEMMA DecodeStepView ==
    ASSUME IInv, IInv', DecodeStep
    PROVE  Protocol!Feed \/ Protocol!Stop
<1> USE DEF chunker, text
<1>0. /\ pc = "step" /\ failed = "OK" /\ ~done /\ pc # "closed" /\ Outcome = "live"
      /\ UNCHANGED <<total, finished, tokens, lead, shown, chunks>>
      /\ tokens \in Nat /\ step \in 0..MaxNew /\ step < MaxNew
  BY LiveInCall DEF DecodeStep, InCall, IInv, TypeOK, TypeModel, StepsSane
<1>1. CASE fail("FAILED")
  BY <1>0, <1>1, FailStops DEF Status
<1>2. CASE /\ cache' = Append(cache, Row("token", <<tokens>>)) /\ step' = step + 1
           /\ Goto("decode") /\ UNCHANGED status
  <2>1. pc' = "decode" /\ failed' = "OK" /\ done' = done
    BY <1>0, <1>2 DEF Goto, status
  <2>2. pc \in InChunk /\ pc' \in InChunk
    BY <1>0, <2>1 DEF InChunk
  <2>3. FedCache = cache
    BY <1>0, <2>2, CacheInChunk
  <2>4. FedCache' = cache'
    <3>1. ~lead' /\ cache' \in Seq(RowType)
      BY <2>1, <2>2 DEF IInv, StepsSane, TypeOK, TypeModel
    <3>2. QED
      BY <2>1, <3>1, ConcatEmptySeq DEF FedCache, Over
  <2>5. FedTokens = tokens - 1 /\ FedTokens' = tokens
    BY <1>0, <2>1 DEF FedTokens, Over
  <2>6. FedTokens' = FedTokens + 1 /\ FedTokens + 1 = tokens
    BY <1>0, <2>5
  <2>7. FedStep = step /\ FedStep' = step + 1
    BY <1>2, <2>2 DEF FedStep
  <2>8. DoneChunks' = DoneChunks /\ Outcome' = Outcome
        /\ (pc \in InChunk)' = (pc \in InChunk)
    BY <1>0, <2>1 DEF DoneChunks, Over, Outcome, InChunk
  <2>9. FedCache' = Append(FedCache, Protocol!Row("token", <<FedTokens + 1>>))
    BY <1>2, <2>3, <2>4, <2>6, Zenon DEF Row, Protocol!Row
  <2>10. FedStep < MaxNew
    BY <1>0, <2>7
  <2>11. Protocol!Feed
    BY <1>0, <2>2, <2>6, <2>7, <2>8, <2>9, <2>10 DEF Protocol!Feed
  <2>12. QED
    BY <2>11
<1>3. QED
  BY <1>1, <1>2 DEF DecodeStep

(* A window ends with its chunk end in the cache or folded, and all of its *)
(* text shown.                                                             *)
LEMMA EndView ==
    ASSUME IInv, pc \in InChunk \ {"feed", "step"}, pc' = "emit", failed = "OK",
           failed' = "OK", ~done, ~done', TextInOrder', IInv', held' = << >>,
           FedCache' = cache \o ChunkEnd,
           UNCHANGED <<total, finished, chunks, tokens>>
    PROVE  Protocol!End
<1>1. FedCache = cache /\ cache \in Seq(RowType)
  BY CacheInChunk
<1>2. FedCache' = Append(FedCache, Protocol!Row("chunk_end", << >>))
  <2>1. Row("chunk_end", << >>) \in RowType
    BY EmptySeq DEF Row, RowType
  <2> DEFINE r == Row("chunk_end", << >>)
  <2> HIDE DEF r
  <2>2. Append(cache, r) = cache \o <<r>>
    BY <1>1, <2>1, AppendIsConcat DEF r
  <2>3. ChunkEnd = <<r>> /\ Protocol!Row("chunk_end", << >>) = r
    BY DEF ChunkEnd, r, Row, Protocol!Row
  <2>4. QED
    BY <1>1, <2>2, <2>3, Zenon
<1>3. tokens \in Nat /\ chunks \in Nat
  BY DEF IInv, TypeOK, TypeModel, TypeCalls
<1>4. FedTokens = tokens /\ FedTokens' = tokens
  BY <1>3 DEF FedTokens, Over
<1>5. DoneChunks = chunks /\ DoneChunks' = chunks + 1
  BY <1>3 DEF DoneChunks, Over, InChunk
<1>6. shown' = Protocol!Iota(FedTokens)
  <2>1. shown' \in Seq(Nat)
    BY DEF IInv, TypeOK, TypeText
  <2>2. shown' \o << >> = Iota(tokens)
    BY DEF TextInOrder, Iota
  <2>3. shown' = Iota(tokens)
    BY <2>1, <2>2, ConcatEmptySeq
  <2>4. QED
    BY <1>4, <2>3 DEF Iota, Protocol!Iota
<1>7. Outcome = "live" /\ Outcome' = Outcome /\ FedStep' = 0
      /\ (pc \in InChunk)' = FALSE
  BY DEF Outcome, InChunk, FedStep
<1>8. QED
  BY <1>2, <1>4, <1>5, <1>6, <1>7 DEF Protocol!End

LEMMA EndChunkView ==
    ASSUME IInv, IInv', TextInOrder, EndChunk
    PROVE  Protocol!End \/ Protocol!Show \/ Protocol!Stop
<1> USE DEF chunker, decode
<1>0. /\ pc = "end" /\ failed = "OK" /\ ~done /\ pc # "closed"
      /\ UNCHANGED <<total, finished, cache, chunks, tokens, step>>
      /\ tokens \in Nat /\ held \in Seq(Nat) /\ Len(held) \in Nat
  BY LiveInCall, LenProperties DEF EndChunk, InCall, IInv, TypeOK, TypeModel, TypeText
<1>1. CASE fail("FAILED") /\ UNCHANGED <<lead, text>>
  BY <1>0, <1>1, FailStops DEF Status, text
<1>2. CASE /\ emit_delta(held, Len(held)) /\ lead' = opt.fold
           /\ Goto(IF opt.fold THEN "emit" ELSE "append") /\ UNCHANGED status
  <2>1. TextInOrder'
    BY EndChunkText
  <2>2. failed' = "OK" /\ ~done' /\ pc \in InChunk
    BY <1>0, <1>2 DEF status, InChunk
  <2>3. held' = << >>
    BY <1>0, <1>2, SubSeqEmpty DEF emit_delta
  <2>4. CASE opt.fold
    <3>1. pc' = "emit" /\ lead'
      BY <1>2, <2>4 DEF Goto
    <3>2. FedCache' = cache \o ChunkEnd
      BY <1>0, <2>2, <3>1 DEF FedCache, Over
    <3>3. Protocol!End
      BY <1>0, <2>1, <2>2, <2>3, <3>1, <3>2, EndView
    <3>4. QED
      BY <3>3
  <2>5. CASE ~opt.fold
    <3>1. pc' = "append" /\ pc' \in InChunk
      BY <1>2, <2>5 DEF Goto, InChunk
    <3>2. ~lead /\ ~lead'
      <4>1. ~lead
        BY <1>0, <2>2, CacheInChunk
      <4>2. ~lead'
        BY <1>2, <2>5, Zenon
      <4>3. QED
        BY <4>1, <4>2
    <3>3. lead' = lead
      <4>1. lead \in BOOLEAN /\ lead' \in BOOLEAN
        BY DEF IInv, TypeOK, TypeModel
      <4>2. QED
        BY <3>2, <4>1
    <3>4. FedTokens = tokens /\ FedTokens' = tokens
      BY <1>0, <2>2, <3>1 DEF FedTokens, Over
    <3>5. SubSeq(held, 1, Len(held)) \in Seq(Nat)
          /\ shown' = shown \o SubSeq(held, 1, Len(held))
      BY <1>0, <1>2, Split DEF emit_delta
    <3>6. tokens' <= FedTokens + 1 /\ FedTokens' = FedTokens
      BY <1>0, <3>4
    <3>7. Protocol!Show
      BY <1>0, <2>1, <2>2, <3>1, <3>3, <3>5, <3>6, ShowView
    <3>8. QED
      BY <3>7
  <2>6. QED
    BY <2>4, <2>5
<1>3. QED
  BY <1>1, <1>2 DEF EndChunk

LEMMA AppendTokensView ==
    ASSUME IInv, IInv', TextInOrder, Flushed, AppendTokens
    PROVE  Protocol!End \/ Protocol!Stop
<1> USE DEF chunker, decode, text
<1>0. /\ pc = "append" /\ failed = "OK" /\ ~done /\ pc # "closed" /\ held = << >>
      /\ UNCHANGED <<total, finished, lead, chunks, tokens, held, shown>>
      /\ pc \in InChunk \ {"feed", "step"}
  BY LiveInCall DEF AppendTokens, InCall, Flushed, InChunk
<1>1. CASE fail("FAILED")
  BY <1>0, <1>1, FailStops DEF Status
<1>2. CASE cache' = cache \o ChunkEnd /\ Goto("emit") /\ UNCHANGED status
  <2>1. pc' = "emit" /\ failed' = "OK" /\ ~done' /\ held' = << >>
    BY <1>0, <1>2 DEF Goto, status
  <2>2. TextInOrder'
    BY AppendTokensText
  <2>3. FedCache' = cache'
    <3>1. ~lead' /\ cache' \in Seq(RowType)
      BY <1>0, CacheInChunk DEF IInv, TypeOK, TypeModel
    <3>2. QED
      BY <2>1, <3>1, ConcatEmptySeq DEF FedCache, Over
  <2>4. FedCache' = cache \o ChunkEnd
    BY <1>2, <2>3
  <2>5. Protocol!End
    BY <1>0, <2>1, <2>2, <2>4, EndView
  <2>6. QED
    BY <2>5
<1>3. QED
  BY <1>1, <1>2 DEF AppendTokens

(* The steps inside a call that the protocol does not see, or that fail.   *)
LEMMA QuietView ==
    ASSUME IInv,
           \/ Drain \/ Pop \/ EncodeAhead \/ StartChunk \/ DecodeStop \/ FeedToken
           \/ EmitChunk \/ CheckCancel
    PROVE  Protocol!Stop \/ UNCHANGED Protocol!vars
<1> USE DEF chunker, kv, decode, text
<1>0. InCall /\ UNCHANGED <<total, finished, cache, lead, tokens, step, shown>>
  BY DEF Drain, Pop, EncodeAhead, StartChunk, DecodeStop, FeedToken, EmitChunk,
     CheckCancel, InCall, chunker_next
<1>1. failed = "OK" /\ ~done /\ pc # "closed"
  BY <1>0, LiveInCall
<1>2. ASSUME NEW st \in Status \ {"OK"}, fail(st)
      PROVE  Protocol!Stop
  BY <1>0, <1>1, <1>2, FailStops
<1>3. ASSUME UNCHANGED status, DoneChunks' = DoneChunks, pc' # "closed",
             pc' \in InChunk <=> pc \in InChunk,
             pc' \in {"feed", "step"} <=> pc \in {"feed", "step"}
      PROVE  UNCHANGED Protocol!vars
  BY <1>0, <1>1, <1>3, SameView DEF status
<1>4. ASSUME UNCHANGED <<status, chunks>>, pc' # "closed",
             pc' = "emit" <=> pc = "emit",
             pc' \in InChunk <=> pc \in InChunk,
             pc' \in {"feed", "step"} <=> pc \in {"feed", "step"}
      PROVE  UNCHANGED Protocol!vars
  <2>1. DoneChunks' = DoneChunks
    BY <1>4, SameChunks DEF status
  <2>2. QED
    BY <1>3, <1>4, <2>1
<1>5. CASE Drain
  BY <1>2, <1>4, <1>5 DEF Drain, Goto, Status, InChunk
<1>6. CASE Pop
  BY <1>4, <1>6 DEF Pop, Goto, InChunk, control
<1>7. CASE EncodeAhead
  BY <1>2, <1>4, <1>7 DEF EncodeAhead, Goto, Status, InChunk
<1>8. CASE StartChunk
  BY <1>2, <1>4, <1>8 DEF StartChunk, Goto, Status, InChunk
<1>9. CASE DecodeStop
  BY <1>4, <1>9 DEF DecodeStop, Goto, InChunk
<1>10. CASE FeedToken
  BY <1>2, <1>4, <1>10 DEF FeedToken, Goto, Status, InChunk
<1>11. CASE CheckCancel
  BY <1>2, <1>4, <1>11 DEF CheckCancel, Goto, Status, InChunk
<1>12. CASE EmitChunk
  <2>1. CASE fail("FAILED")
    BY <1>2, <2>1 DEF Status
  <2>2. CASE chunks' = chunks + 1 /\ Goto("check") /\ UNCHANGED status
    <3>1. pc = "emit" /\ pc' = "check" /\ chunks \in Nat
      BY <1>12, <2>2, WindowTypes DEF EmitChunk, Goto
    <3>2. DoneChunks' = DoneChunks
      BY <1>1, <2>2, <3>1 DEF DoneChunks, Over, status
    <3>3. QED
      BY <1>3, <2>2, <3>1, <3>2 DEF InChunk
  <2>3. QED
    BY <1>12, <2>1, <2>2 DEF EmitChunk
<1>13. QED
  BY <1>5, <1>6, <1>7, <1>8, <1>9, <1>10, <1>11, <1>12

(* Every step of a session is a step of the protocol or none.              *)
LEMMA NextView ==
    ProtocolInv /\ IInv' /\ [Next]_vars => [Protocol!Next]_(Protocol!vars)
<1> SUFFICES ASSUME ProtocolInv, IInv', [Next]_vars
             PROVE  Protocol!Next \/ UNCHANGED Protocol!vars
  OBVIOUS
<1> USE DEF control, chunker, kv, decode, text, status
<1>0. IInv /\ TextInOrder /\ CallsSane /\ Flushed /\ (failed = "OK" => Feeding)
  BY DEF ProtocolInv, CallsSane, Feeding
<1>1. InCall => Feeding
  BY <1>0 DEF IInv, StepsSane
<1>2. ASSUME NEW n \in 0..(MaxTotal - total), Push(n)
      PROVE  Protocol!Next \/ UNCHANGED Protocol!vars
  <2>1. n \in Nat
    BY <1>0, WindowTypes
  <2>2. QED
    BY <1>0, <1>2, <2>1, PushView DEF Protocol!Next
<1>3. CASE Open
  BY <1>0, <1>3, OpenView DEF Protocol!Next
<1>4. CASE Finish
  BY <1>0, <1>4, FinishView DEF Protocol!Next
<1>5. CASE Close
  BY <1>5, CloseView DEF Protocol!Next
<1>6. CASE Cancel \/ UNCHANGED vars
  <2>1. UNCHANGED <<total, finished, shown, cache, lead, tokens, step, done, failed, pc,
                    chunks>>
    BY <1>6 DEF Cancel, vars
  <2>2. DoneChunks' = DoneChunks
    BY <2>1, SameChunks
  <2>3. QED
    BY <2>1, <2>2, SameView
<1>7. CASE Drained
  <2>1. Feeding
    BY <1>1, <1>7 DEF Drained, InCall
  <2>2. QED
    BY <1>0, <1>7, <2>1, DrainedView DEF Protocol!Next
<1>8. CASE Prefill
  <2>1. Feeding
    BY <1>1, <1>8 DEF Prefill, InCall
  <2>2. QED
    BY <1>0, <1>8, <2>1, PrefillView DEF Protocol!Next
<1>9. CASE DecodeText
  BY <1>0, <1>9, DecodeTextView DEF Protocol!Next
<1>10. CASE DecodeStep
  BY <1>0, <1>10, DecodeStepView DEF Protocol!Next
<1>11. CASE EndChunk
  BY <1>0, <1>11, EndChunkView DEF Protocol!Next
<1>12. CASE AppendTokens
  BY <1>0, <1>12, AppendTokensView DEF Protocol!Next
<1>13. CASE \/ Drain \/ Pop \/ EncodeAhead \/ StartChunk \/ DecodeStop \/ FeedToken
            \/ EmitChunk \/ CheckCancel
  BY <1>0, <1>13, QuietView DEF Protocol!Next
<1>14. QED
  BY <1>2, <1>3, <1>4, <1>5, <1>6, <1>7, <1>8, <1>9, <1>10, <1>11, <1>12, <1>13
     DEF Next, Running

(* A session that has not been opened is the protocol's.                   *)
LEMMA InitView == Init => Protocol!Init
<1> SUFFICES ASSUME Init PROVE Protocol!Init
  OBVIOUS
<1>1. /\ pc = "closed" /\ total = 0 /\ finished = FALSE /\ cache = << >>
      /\ lead = FALSE /\ chunks = 0 /\ tokens = 0 /\ shown = << >> /\ failed = "OK"
  BY DEF Init, Fresh
<1>2. << >> \o << >> = << >>
  BY EmptySeq, ConcatEmptySeq
<1>3. FedCache = << >>
  BY <1>1, <1>2 DEF FedCache, Over
<1>4. DoneChunks = 0
  BY <1>1 DEF DoneChunks, Over
<1>5. FedTokens = 0
  <2>1. (IF pc \in {"feed", "step"} THEN 1 ELSE 0) = 0 /\ tokens = 0 /\ 0 - 0 = 0
    BY <1>1
  <2>2. QED
    BY <1>1, <2>1, Zenon DEF FedTokens, Over
<1>6. FedStep = 0 /\ Outcome = "closed" /\ (pc \in InChunk) = FALSE
  BY <1>1 DEF FedStep, Outcome, InChunk
<1>7. QED
  BY <1>1, <1>3, <1>4, <1>5, <1>6 DEF Protocol!Init, Protocol!Fresh

(* Whatever the sizes pushed, the batches encoded ahead, the chunk ends    *)
(* folded into the next prefill and the failures on the way, a session     *)
(* feeds the model what the protocol of stream.h prescribes.               *)
THEOREM SessionFollowsProtocol == Spec => FollowsProtocol
  BY InitView, NextView, ProtocolInvariance, Invariance, PTL
     DEF Spec, FollowsProtocol, Protocol!Spec
=============================================================================
