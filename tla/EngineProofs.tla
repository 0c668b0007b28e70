---------------------------- MODULE EngineProofs ----------------------------
(***************************************************************************)
(* Proofs about EngineSlots for every number of clients and slots.         *)
(***************************************************************************)
EXTENDS EngineSlots, FiniteSetTheorems, TLAPS

USE EngineAssumption

(* How the size of a finite set changes with one element.                  *)
LEMMA OneMoreOneLess ==
    ASSUME NEW S, IsFiniteSet(S), NEW x
    PROVE  /\ Cardinality(S) \in Nat
           /\ x \notin S => Cardinality(S \cup {x}) = Cardinality(S) + 1
           /\ x \in S => Cardinality(S \ {x}) = Cardinality(S) - 1
           /\ x \in S => Cardinality(S) >= 1
<1>1. Cardinality(S) \in Nat
  BY FS_CardinalityType
<1>2. x \notin S => Cardinality(S \cup {x}) = Cardinality(S) + 1
  BY FS_AddElement
<1>3. x \in S => Cardinality(S \ {x}) = Cardinality(S) - 1
  BY FS_RemoveElement
<1>4. x \in S => Cardinality(S) # 0
  BY FS_EmptySet
<1>5. QED
  BY <1>1, <1>2, <1>3, <1>4

(* Sets of clients and of slots are finite.                                *)
LEMMA Sizes ==
    /\ \A S \in SUBSET Client : IsFiniteSet(S) /\ Cardinality(S) \in Nat
    /\ \A S \in SUBSET Slot : IsFiniteSet(S) /\ Cardinality(S) \in Nat
<1>1. IsFiniteSet(Slot)
  <2>1. 0 \in Int /\ NSlots - 1 \in Int
    OBVIOUS
  <2>2. QED
    BY <2>1, FS_Interval DEF Slot
<1>2. QED
  BY <1>1, FS_Subset, FS_CardinalityType

(* Every slot starts free, with nobody waiting.                            *)
LEMMA InitIInv == Init => IInv
<1> SUFFICES ASSUME Init PROVE IInv
  OBVIOUS
<1>1. Lent = {}
  BY DEF Init, Lent
<1>2. SlotExclusive
  BY <1>1, FS_EmptySet DEF Init, SlotExclusive, Slot
<1>3. TypeOK
  BY DEF Init, TypeOK, PC, Job, Patience
<1>4. QED
  BY <1>2, <1>3 DEF IInv, Init, NoStrandedSlot, HoldersSane

(* A call joins the callers that are awake in acquire_slot_wait.           *)
LEMMA CallIInv ==
    ASSUME NEW c \in Client, IInv, NEW j \in Job, NEW p \in Patience,
           Call(c, j, p)
    PROVE  IInv'
<1> USE DEF IInv
<1>1. /\ pc[c] = "idle" /\ pc' = [pc EXCEPT ![c] = "acquire"]
      /\ job' = [job EXCEPT ![c] = j]
      /\ patience' = [patience EXCEPT ![c] = p]
      /\ calls' \in 0..MaxCalls
      /\ UNCHANGED <<busy, n_busy, completed, last_perf, slot, ok, perf, asleep>>
  BY DEF Call, Goto, pool, TypeOK
<1>2. TypeOK'
  BY <1>1 DEF TypeOK, PC
<1>3. Lent' = Lent /\ FreeSlots' = FreeSlots
  BY <1>1 DEF Lent, FreeSlots
<1>4. SlotExclusive'
  BY <1>1, <1>3 DEF SlotExclusive
<1>5. c \notin Acquiring /\ Acquiring' = Acquiring \cup {c}
  BY <1>1 DEF Acquiring, Awake, HoldersSane, TypeOK
<1>6. Cardinality(Acquiring') = Cardinality(Acquiring) + 1
  BY <1>5, Sizes, OneMoreOneLess DEF Acquiring
<1>7. NoStrandedSlot'
  BY <1>1, <1>3, <1>6, Sizes DEF NoStrandedSlot, FreeSlots, Acquiring
<1>8. HoldersSane'
  BY <1>1 DEF HoldersSane, TypeOK
<1>9. QED
  BY <1>1, <1>2, <1>4, <1>7, <1>8

(* Taking a slot costs one free slot and one awake caller.                 *)
LEMMA TakeIInv == ASSUME NEW c \in Client, IInv, Take(c) PROVE IInv'
<1> USE DEF IInv
<1>1. PICK i \in Slot : /\ LowestFree(i)
                        /\ busy' = [busy EXCEPT ![i] = TRUE]
                        /\ slot' = [slot EXCEPT ![c] = i]
  BY DEF Take
<1>2. /\ pc[c] = "acquire" /\ c \notin asleep
      /\ n_busy' = n_busy + 1
      /\ pc' = [pc EXCEPT ![c] = IF job[c] = "stream" THEN "open" ELSE "run"]
      /\ patience' = [patience EXCEPT ![c] = "forever"]
      /\ UNCHANGED <<completed, last_perf, job, ok, perf, asleep, calls>>
  BY DEF Take, Awake, Goto
<1>3. ~busy[i] /\ i # -1 /\ slot[c] = -1
  BY <1>1, <1>2 DEF LowestFree, FreeSlots, HoldersSane, Slot
<1>4. TypeOK'
  BY <1>1, <1>2 DEF TypeOK, PC, Patience
<1>5. c \notin Lent /\ Lent' = Lent \cup {c}
  BY <1>1, <1>3 DEF Lent, TypeOK
<1>6. Cardinality(Lent') = Cardinality(Lent) + 1
  BY <1>5, Sizes, OneMoreOneLess DEF Lent
<1>7. \A d \in Client : d # c => slot'[d] = slot[d] /\ slot[d] # i
  BY <1>1, <1>3 DEF TypeOK, SlotExclusive
<1>8. SlotExclusive'
  <2>1. \A k \in Slot : busy'[k] <=> \E d \in Client : slot'[d] = k
    <3> SUFFICES ASSUME NEW k \in Slot
                 PROVE  busy'[k] <=> \E d \in Client : slot'[d] = k
      OBVIOUS
    <3>1. CASE k = i
      BY <1>1, <3>1 DEF TypeOK
    <3>2. CASE k # i
      <4>1. busy'[k] = busy[k]
        BY <1>1, <3>2 DEF TypeOK
      <4>2. (\E d \in Client : slot'[d] = k) <=> (\E d \in Client : slot[d] = k)
        BY <1>1, <1>3, <1>7, <3>2 DEF TypeOK, Slot
      <4>3. QED
        BY <4>1, <4>2 DEF SlotExclusive
    <3>3. QED
      BY <3>1, <3>2
  <2>2. \A d, e \in Lent' : slot'[d] = slot'[e] => d = e
    BY <1>1, <1>5, <1>7 DEF SlotExclusive, Lent, TypeOK
  <2>3. n_busy' = Cardinality(Lent')
    BY <1>2, <1>6 DEF SlotExclusive
  <2>4. QED
    BY <2>1, <2>2, <2>3 DEF SlotExclusive
<1>9. i \in FreeSlots /\ FreeSlots' = FreeSlots \ {i}
  BY <1>1 DEF LowestFree, FreeSlots, TypeOK
<1>10. c \in Acquiring /\ Acquiring' = Acquiring \ {c}
  BY <1>2 DEF Acquiring, Awake, TypeOK
<1>11. /\ Cardinality(FreeSlots') = Cardinality(FreeSlots) - 1
       /\ Cardinality(Acquiring') = Cardinality(Acquiring) - 1
  BY <1>9, <1>10, Sizes, OneMoreOneLess DEF FreeSlots, Acquiring
<1>12. NoStrandedSlot'
  BY <1>2, <1>11, Sizes DEF NoStrandedSlot, FreeSlots, Acquiring
<1>13. HoldersSane'
  BY <1>1, <1>2, <1>3, <1>7 DEF HoldersSane, TypeOK
<1>14. QED
  BY <1>2, <1>4, <1>8, <1>12, <1>13

(* A caller sleeps or gives up only when no slot is free.                  *)
LEMMA NoSlotIInv ==
    ASSUME NEW c \in Client, IInv, WaitSlot(c) \/ GiveUp(c)
    PROVE  IInv'
<1> USE DEF IInv
<1>1. /\ pc[c] = "acquire" /\ FreeSlots = {}
      /\ UNCHANGED <<busy, n_busy, completed, last_perf, slot, ok, perf, calls>>
  BY DEF WaitSlot, GiveUp, Awake, pool, mine
<1>2. /\ pc' \in [Client -> PC] /\ job' \in [Client -> Job]
      /\ patience' \in [Client -> Patience] /\ asleep' \in SUBSET Client
      /\ \A d \in Client : d # c => pc'[d] = pc[d] /\ job'[d] = job[d]
      /\ pc'[c] \in {"idle", "acquire"}
      /\ \A d \in asleep' : pc'[d] = "acquire"
  <2>1. CASE WaitSlot(c)
    BY <2>1, <1>1 DEF WaitSlot, TypeOK, mine, HoldersSane
  <2>2. CASE GiveUp(c)
    BY <2>2, <1>1 DEF GiveUp, Goto, Awake, TypeOK, HoldersSane, PC, Job, Patience
  <2>3. QED
    BY <2>1, <2>2
<1>3. TypeOK'
  BY <1>1, <1>2 DEF TypeOK
<1>4. Lent' = Lent /\ FreeSlots' = {}
  BY <1>1 DEF Lent, FreeSlots
<1>5. SlotExclusive'
  BY <1>1, <1>4 DEF SlotExclusive
<1>6. NoStrandedSlot'
  <2>1. Acquiring' \in SUBSET Client
    BY DEF Acquiring
  <2>2. Cardinality(FreeSlots') = 0 /\ Cardinality(Acquiring') \in Nat
    BY <1>4, <2>1, FS_EmptySet, Sizes
  <2>3. QED
    BY <2>2 DEF NoStrandedSlot
<1>7. HoldersSane'
  BY <1>1, <1>2 DEF HoldersSane, TypeOK
<1>8. QED
  BY <1>1, <1>3, <1>5, <1>6, <1>7

(* A wake adds an awake caller and takes a sleeping one away.              *)
LEMMA WakeIInv ==
    ASSUME NEW c \in Client, IInv, TimerWake(c) \/ SpuriousWake(c)
    PROVE  IInv'
<1> USE DEF IInv
<1>1. /\ c \in asleep /\ asleep' = asleep \ {c}
      /\ UNCHANGED <<busy, n_busy, completed, last_perf, pc, job, slot, patience,
                     ok, perf, calls>>
  BY DEF TimerWake, SpuriousWake, pool, mine
<1>2. TypeOK' /\ HoldersSane'
  BY <1>1 DEF TypeOK, HoldersSane
<1>3. Lent' = Lent /\ FreeSlots' = FreeSlots
  BY <1>1 DEF Lent, FreeSlots
<1>4. SlotExclusive'
  BY <1>1, <1>3 DEF SlotExclusive
<1>5. c \notin Acquiring /\ Acquiring' = Acquiring \cup {c}
  BY <1>1 DEF Acquiring, Awake, HoldersSane
<1>6. Cardinality(Acquiring') = Cardinality(Acquiring) + 1
  BY <1>5, Sizes, OneMoreOneLess DEF Acquiring
<1>7. NoStrandedSlot'
  BY <1>1, <1>3, <1>6, Sizes DEF NoStrandedSlot, FreeSlots, Acquiring
<1>8. QED
  BY <1>2, <1>4, <1>7

(* A run, an open or a finish touches its own slot's metrics alone.        *)
LEMMA UseIInv ==
    ASSUME NEW c \in Client, IInv,
           \/ Run(c) \/ StreamOpened(c) \/ StreamFinish(c) \/ DeadlinePasses(c)
    PROVE  IInv'
<1> USE DEF IInv
<1>1. UNCHANGED <<busy, n_busy, completed, job, slot, perf, asleep, calls>>
  BY DEF Run, StreamOpened, StreamFinish, DeadlinePasses, pool, mine
<1>2. /\ pc' \in [Client -> PC]
      /\ \A d \in Client : /\ d # c => pc'[d] = pc[d]
                           /\ (pc'[d] = "acquire") <=> (pc[d] = "acquire")
                           /\ (pc'[d] = "idle") <=> (pc[d] = "idle")
  BY DEF Run, StreamOpened, StreamFinish, DeadlinePasses, Goto, TypeOK, PC
<1>3. patience' \in [Client -> Patience]
  BY DEF Run, StreamOpened, StreamFinish, DeadlinePasses, mine, TypeOK, Patience
<1>4. ok' \in [Client -> BOOLEAN]
  <2>1. CASE Run(c)
    <3>1. PICK good \in BOOLEAN : ok' = [ok EXCEPT ![c] = good]
      BY <2>1 DEF Run
    <3>2. QED
      BY <3>1 DEF TypeOK
  <2>2. CASE StreamOpened(c) \/ StreamFinish(c) \/ DeadlinePasses(c)
    BY <2>2 DEF StreamOpened, StreamFinish, DeadlinePasses, mine, TypeOK
  <2>3. QED
    BY <2>1, <2>2
<1>5. /\ last_perf' \in [Slot -> SUBSET Client]
      /\ \A i \in Slot : i # slot[c] => last_perf'[i] = last_perf[i]
      /\ pc'[c] = "ran" /\ job[c] = "transcribe" => last_perf'[slot[c]] = {c}
  <2>1. CASE Run(c)
    <3>1. PICK new \in SUBSET Client :
             /\ last_perf' = [last_perf EXCEPT ![slot[c]] = new]
             /\ job[c] = "transcribe" => new = {c}
      <4>1. slot[c] \in Slot
        BY <2>1 DEF Run, HoldersSane, TypeOK
      <4>2. PICK good \in BOOLEAN :
              last_perf' = [last_perf EXCEPT ![slot[c]] =
                              IF job[c] = "transcribe" THEN {c}
                              ELSE IF good THEN @ \cup {c} ELSE @]
        BY <2>1 DEF Run
      <4>3. CASE job[c] = "transcribe"
        BY <4>2, <4>3
      <4>4. CASE job[c] # "transcribe"
        <5>1. last_perf[slot[c]] \in SUBSET Client
          BY <4>1 DEF TypeOK
        <5>2. CASE good
          <6>1. last_perf' = [last_perf EXCEPT ![slot[c]] =
                                last_perf[slot[c]] \cup {c}]
            BY <4>2, <4>4, <5>2
          <6>2. last_perf[slot[c]] \cup {c} \in SUBSET Client
            BY <5>1
          <6>3. QED
            BY <4>4, <6>1, <6>2
        <5>3. CASE ~good
          <6>1. last_perf' = [last_perf EXCEPT ![slot[c]] = last_perf[slot[c]]]
            BY <4>2, <4>4, <5>3
          <6>2. QED
            BY <4>4, <5>1, <6>1
        <5>4. QED
          BY <5>2, <5>3
      <4>5. QED
        BY <4>3, <4>4
    <3>2. slot[c] \in Slot
      BY <2>1 DEF Run, HoldersSane, TypeOK
    <3>3. QED
      BY <3>1, <3>2 DEF TypeOK
  <2>2. CASE StreamOpened(c)
    BY <2>2 DEF StreamOpened, Goto, TypeOK
  <2>3. CASE StreamFinish(c) \/ DeadlinePasses(c)
    BY <2>3 DEF StreamFinish, DeadlinePasses, TypeOK
  <2>4. QED
    BY <2>1, <2>2, <2>3
<1>6. TypeOK'
  BY <1>1, <1>2, <1>3, <1>4, <1>5 DEF TypeOK
<1>7. Lent' = Lent /\ FreeSlots' = FreeSlots /\ Acquiring' = Acquiring
  BY <1>1, <1>2 DEF Lent, FreeSlots, Acquiring, Awake
<1>8. SlotExclusive' /\ NoStrandedSlot'
  BY <1>1, <1>7 DEF SlotExclusive, NoStrandedSlot
<1>9. HoldersSane'
  <2>1. ASSUME NEW d \in Client, pc'[d] = "ran", job'[d] = "transcribe"
        PROVE  last_perf'[slot'[d]] = {d}
    <3>1. CASE d = c
      BY <1>1, <1>5, <2>1, <3>1
    <3>2. CASE d # c
      <4>1. pc[d] = "ran" /\ slot[d] # -1 /\ last_perf[slot[d]] = {d}
        BY <1>1, <1>2, <2>1, <3>2 DEF HoldersSane
      <4>2. slot[d] \in Slot /\ slot[d] # slot[c]
        BY <3>2, <4>1 DEF SlotExclusive, Lent, TypeOK
      <4>3. QED
        BY <1>1, <1>5, <4>1, <4>2
    <3>3. QED
      BY <3>1, <3>2
  <2>2. QED
    BY <1>1, <1>2, <2>1 DEF HoldersSane, TypeOK
<1>10. QED
  BY <1>6, <1>8, <1>9

(* What release_slot does to the pool, whoever calls it.                   *)
LEMMA ReleaseIInv ==
    ASSUME NEW c \in Client, IInv, ReleaseSlot(c),
           pc[c] \in {"ran", "open", "live"},
           UNCHANGED <<patience, calls>>,
           perf' \in [Client -> SUBSET Client],
           last_perf' \in [Slot -> SUBSET Client],
           \A i \in Slot : i # slot[c] => last_perf'[i] = last_perf[i]
    PROVE  IInv'
<1> USE DEF IInv
<1>1. /\ busy' = [busy EXCEPT ![slot[c]] = FALSE]
      /\ n_busy' = n_busy - 1
      /\ completed' = completed + (IF ok[c] THEN 1 ELSE 0)
      /\ slot' = [slot EXCEPT ![c] = -1]
      /\ job' = [job EXCEPT ![c] = "none"]
      /\ ok' = [ok EXCEPT ![c] = FALSE]
      /\ pc' = [pc EXCEPT ![c] = "idle"]
      /\ \/ asleep' = asleep /\ asleep = {}
         \/ \E d \in asleep : asleep' = asleep \ {d}
  BY DEF ReleaseSlot, Goto, Signal
<1>2. /\ slot[c] \in Slot /\ slot[c] # -1 /\ c \in Lent
      /\ busy[slot[c]] /\ c \notin asleep
  BY DEF HoldersSane, SlotExclusive, TypeOK, Lent
<1>3. Lent' = Lent \ {c}
  BY <1>1 DEF Lent, TypeOK
<1>4. /\ Cardinality(Lent') = Cardinality(Lent) - 1
      /\ Cardinality(Lent) >= 1 /\ Cardinality(Lent) \in Nat
  BY <1>2, <1>3, Sizes, OneMoreOneLess DEF Lent
<1>5. TypeOK'
  <2>1. n_busy' \in Nat /\ completed' \in Nat
    BY <1>1, <1>4 DEF TypeOK, SlotExclusive
  <2>2. asleep' \in SUBSET Client
    BY <1>1 DEF TypeOK
  <2>3. QED
    BY <1>1, <2>1, <2>2 DEF TypeOK, PC, Job, Slot
<1>6. \A d \in Client : d # c => /\ slot'[d] = slot[d] /\ slot[d] # slot[c]
                                 /\ pc'[d] = pc[d] /\ job'[d] = job[d]
  BY <1>1, <1>2 DEF TypeOK, SlotExclusive, Lent
<1>7. SlotExclusive'
  <2>1. \A k \in Slot : busy'[k] <=> \E d \in Client : slot'[d] = k
    <3> SUFFICES ASSUME NEW k \in Slot
                 PROVE  busy'[k] <=> \E d \in Client : slot'[d] = k
      OBVIOUS
    <3>0. k # -1 /\ slot'[c] = -1
      BY <1>1 DEF Slot, TypeOK
    <3>1. CASE k = slot[c]
      <4>1. ~busy'[k]
        BY <1>1, <1>2, <3>1 DEF TypeOK
      <4>2. ~ \E d \in Client : slot'[d] = k
        BY <1>6, <3>0, <3>1
      <4>3. QED
        BY <4>1, <4>2
    <3>2. CASE k # slot[c]
      <4>1. busy'[k] = busy[k]
        BY <1>1, <3>2 DEF TypeOK
      <4>2. (\E d \in Client : slot'[d] = k) <=> (\E d \in Client : slot[d] = k)
        BY <1>6, <3>0, <3>2
      <4>3. QED
        BY <4>1, <4>2 DEF SlotExclusive
    <3>3. QED
      BY <3>1, <3>2
  <2>2. \A d, e \in Lent' : slot'[d] = slot'[e] => d = e
    BY <1>3, <1>6 DEF SlotExclusive, Lent
  <2>3. n_busy' = Cardinality(Lent')
    BY <1>1, <1>4 DEF SlotExclusive
  <2>4. QED
    BY <2>1, <2>2, <2>3 DEF SlotExclusive
<1>8. slot[c] \notin FreeSlots /\ FreeSlots' = FreeSlots \cup {slot[c]}
  BY <1>1, <1>2 DEF FreeSlots, TypeOK
<1>9. Cardinality(FreeSlots') = Cardinality(FreeSlots) + 1
  BY <1>8, Sizes, OneMoreOneLess, SMTT(30) DEF FreeSlots
<1>10. NoStrandedSlot'
  <2>1. CASE asleep' = {}
    BY <2>1 DEF NoStrandedSlot
  <2>2. CASE asleep' # {}
    <3>1. PICK d \in asleep : asleep' = asleep \ {d}
      BY <1>1, <2>2
    <3>2. d \in Client /\ d # c /\ pc[d] = "acquire"
      BY <1>2, <3>1 DEF HoldersSane, TypeOK
    <3>3. d \notin Acquiring /\ Acquiring' = Acquiring \cup {d}
      BY <1>1, <3>1, <3>2 DEF Acquiring, Awake, TypeOK
    <3>4. Cardinality(Acquiring') = Cardinality(Acquiring) + 1
      BY <3>3, Sizes, OneMoreOneLess DEF Acquiring
    <3>5. QED
      BY <1>9, <3>1, <3>4, Sizes DEF NoStrandedSlot, FreeSlots, Acquiring
  <2>3. QED
    BY <2>1, <2>2
<1>11. HoldersSane'
  <2>1. \A d \in Client : slot'[d] = -1 <=> pc'[d] \in {"idle", "acquire"}
    BY <1>1, <1>6 DEF HoldersSane, TypeOK
  <2>2. \A d \in Client : pc'[d] = "ran" /\ job'[d] = "transcribe"
                              => last_perf'[slot'[d]] = {d}
    <3> SUFFICES ASSUME NEW d \in Client, pc'[d] = "ran", job'[d] = "transcribe"
                 PROVE  last_perf'[slot'[d]] = {d}
      OBVIOUS
    <3>1. d # c
      BY <1>1 DEF TypeOK
    <3>2. last_perf[slot[d]] = {d} /\ slot[d] \in Slot /\ slot[d] # slot[c]
      BY <1>6, <3>1 DEF HoldersSane, TypeOK
    <3>3. QED
      BY <1>6, <3>1, <3>2
  <2>3. \A d \in asleep' : pc'[d] = "acquire"
    BY <1>1, <1>2 DEF HoldersSane, TypeOK
  <2>4. QED
    BY <2>1, <2>2, <2>3 DEF HoldersSane
<1>12. QED
  BY <1>5, <1>7, <1>10, <1>11

(* Each caller of release_slot meets what ReleaseIInv asks for.            *)
LEMMA ReturnIInv ==
    ASSUME NEW c \in Client, IInv,
           BatchReturn(c) \/ StreamOpenFails(c) \/ StreamClose(c)
    PROVE  IInv'
<1>1. CASE BatchReturn(c)
  <2>1. /\ pc[c] = "ran" /\ ReleaseSlot(c)
        /\ perf' = [perf EXCEPT ![c] = last_perf[slot[c]]]
        /\ UNCHANGED <<last_perf, patience, calls>>
    BY <1>1 DEF BatchReturn
  <2>2. perf' \in [Client -> SUBSET Client]
    BY <2>1 DEF IInv, TypeOK, HoldersSane
  <2>3. QED
    BY <2>1, <2>2, ReleaseIInv DEF IInv, TypeOK
<1>2. CASE StreamOpenFails(c)
  <2>1. /\ pc[c] = "open" /\ ReleaseSlot(c)
        /\ last_perf' = [last_perf EXCEPT ![slot[c]] = {}]
        /\ UNCHANGED <<patience, perf, calls>>
    BY <1>2 DEF StreamOpenFails
  <2>2. QED
    BY <2>1, ReleaseIInv DEF IInv, TypeOK
<1>3. CASE StreamClose(c)
  <2>1. /\ pc[c] = "live" /\ ReleaseSlot(c)
        /\ UNCHANGED <<last_perf, patience, perf, calls>>
    BY <1>3 DEF StreamClose
  <2>2. QED
    BY <2>1, ReleaseIInv DEF IInv, TypeOK
<1>4. QED
  BY <1>1, <1>2, <1>3

(* Every step keeps the invariant.                                         *)
LEMMA NextIInv == IInv /\ [Next]_vars => IInv'
<1> SUFFICES ASSUME IInv, [Next]_vars PROVE IInv'
  OBVIOUS
<1>1. CASE UNCHANGED vars
  BY <1>1 DEF vars, pool, mine, IInv, TypeOK, SlotExclusive, NoStrandedSlot,
     HoldersSane, Lent, FreeSlots, Acquiring, Awake
<1>2. ASSUME NEW c \in Client, Step(c) PROVE IInv'
  <2>1. CASE Transcribe(c) \/ Generate(c) \/ StreamOpen(c)
    BY <2>1, CallIInv DEF Transcribe, Generate, StreamOpen, Job, Patience
  <2>2. CASE \/ Take(c) \/ WaitSlot(c) \/ GiveUp(c)
             \/ TimerWake(c) \/ SpuriousWake(c)
    BY <2>2, TakeIInv, NoSlotIInv, WakeIInv
  <2>3. CASE \/ Run(c) \/ StreamOpened(c) \/ StreamFinish(c) \/ DeadlinePasses(c)
    BY <2>3, UseIInv
  <2>4. CASE BatchReturn(c) \/ StreamOpenFails(c) \/ StreamClose(c)
    BY <2>4, ReturnIInv
  <2>5. QED
    BY <1>2, <2>1, <2>2, <2>3, <2>4 DEF Step
<1>3. QED
  BY <1>1, <1>2 DEF Next, Done

(* The inductive invariant of the slot pool holds in every behaviour.      *)
THEOREM Invariance == Spec => []IInv
<1>1. Init => IInv
  BY InitIInv
<1>2. QED
  BY <1>1, NextIInv, PTL DEF Spec

(* The engine's variables keep their types.                                *)
THEOREM TypeCorrect == Spec => []TypeOK
BY Invariance, PTL DEF IInv

(* A slot is never lent to two callers, and busy[] and n_busy agree.       *)
THEOREM SlotsAreExclusive == Spec => []SlotExclusive
BY Invariance, PTL DEF IInv

(* vv_cond_signal never leaves a slot idle with only sleepers to want it.  *)
THEOREM NoSlotIsStranded == Spec => []NoStrandedSlot
BY Invariance, PTL DEF IInv

(* Only BatchReturn takes a caller from "ran" anywhere else.               *)
LEMMA OnlyReturnEndsRun ==
    ASSUME NEW c \in Client, NEW d \in Client, TypeOK, Step(d),
           pc[c] = "ran", pc'[c] # "ran"
    PROVE  c = d /\ BatchReturn(c)
<1>1. CASE Transcribe(d) \/ Generate(d) \/ StreamOpen(d)
  BY <1>1 DEF Transcribe, Generate, StreamOpen, Call, Goto, TypeOK
<1>2. CASE Take(d) \/ GiveUp(d) \/ Run(d)
  BY <1>2 DEF Take, GiveUp, Run, Awake, Goto, TypeOK
<1>3. CASE \/ WaitSlot(d) \/ DeadlinePasses(d) \/ TimerWake(d)
           \/ SpuriousWake(d) \/ StreamFinish(d)
  BY <1>3 DEF WaitSlot, DeadlinePasses, TimerWake, SpuriousWake, StreamFinish
<1>4. CASE StreamOpened(d) \/ StreamOpenFails(d) \/ StreamClose(d)
  BY <1>4 DEF StreamOpened, StreamOpenFails, StreamClose, ReleaseSlot, Goto,
     TypeOK
<1>5. CASE BatchReturn(d)
  BY <1>5 DEF BatchReturn, ReleaseSlot, Goto, TypeOK
<1>6. QED
  BY <1>1, <1>2, <1>3, <1>4, <1>5 DEF Step

(* For any number of slots and callers, the metrics vv_engine_transcribe   *)
(* hands back are its own request's.                                       *)
THEOREM MetricsAreOwn == Spec => PerfIsOwn
<1>1. ASSUME IInv, [Next]_vars, NEW c \in Client,
             pc[c] = "ran", job[c] = "transcribe", pc'[c] # "ran"
      PROVE  perf'[c] = {c}
  <2>1. PICK d \in Client : Step(d)
    BY <1>1 DEF Next, Done, vars
  <2>2. BatchReturn(c)
    BY <1>1, <2>1, OnlyReturnEndsRun DEF IInv
  <2>3. QED
    BY <1>1, <2>2 DEF BatchReturn, IInv, TypeOK, HoldersSane
<1>2. IInv /\ [Next]_vars =>
         [\A c \in Client :
            (pc[c] = "ran" /\ job[c] = "transcribe" /\ pc'[c] # "ran")
                => perf'[c] = {c}]_vars
  BY <1>1
<1>3. QED
  BY <1>2, Invariance, PTL DEF Spec, PerfIsOwn
=============================================================================
