---------------------------- MODULE KvPoolProofs ----------------------------
(***************************************************************************)
(* Proofs about KvPool for every number of caches and pages.               *)
(***************************************************************************)
EXTENDS KvPool, FiniteSetTheorems, TLAPS

USE KvPoolAssumption

(* Adding pages nobody had, and taking pages away.                         *)
LEMMA CardinalityMove ==
    ASSUME NEW A, NEW B, IsFiniteSet(A), IsFiniteSet(B)
    PROVE  /\ A \cap B = {} => Cardinality(A \cup B) = Cardinality(A) + Cardinality(B)
           /\ B \subseteq A => Cardinality(A \ B) = Cardinality(A) - Cardinality(B)
<1>1. ASSUME A \cap B = {}
      PROVE  Cardinality(A \cup B) = Cardinality(A) + Cardinality(B)
  <2>1. Cardinality(A \cup B) = Cardinality(A) + Cardinality(B) - Cardinality(A \cap B)
    BY FS_Union
  <2>2. Cardinality(A \cap B) = 0
    BY <1>1, FS_EmptySet
  <2>3. Cardinality(A) \in Nat /\ Cardinality(B) \in Nat
    BY FS_CardinalityType
  <2>4. QED
    BY <2>1, <2>2, <2>3
<1>2. ASSUME B \subseteq A
      PROVE  Cardinality(A \ B) = Cardinality(A) - Cardinality(B)
  <2>1. A \cap B = B
    BY <1>2
  <2>2. QED
    BY <2>1, FS_Difference
<1>3. QED
  BY <1>1, <1>2

(* One element more, one element less.                                     *)
LEMMA CardinalityOne ==
    ASSUME NEW S, NEW x, IsFiniteSet(S)
    PROVE  /\ Cardinality(S \cup {x}) = Cardinality(S) + Bit(x \notin S)
           /\ Cardinality(S \ {x}) = Cardinality(S) - Bit(x \in S)
<1>1. Cardinality(S) \in Nat
  BY FS_CardinalityType
<1>2. Cardinality(S \cup {x}) = IF x \in S THEN Cardinality(S) ELSE Cardinality(S) + 1
  BY FS_AddElement
<1>3. Cardinality(S \ {x}) = IF x \in S THEN Cardinality(S) - 1 ELSE Cardinality(S)
  BY FS_RemoveElement
<1>4. QED
  BY <1>1, <1>2, <1>3 DEF Bit

(* Sets of caches and of pages are finite, and their sizes are naturals.   *)
LEMMA Sizes ==
    /\ \A S \in SUBSET Page : IsFiniteSet(S) /\ Cardinality(S) \in Nat
    /\ \A S \in SUBSET Cache : IsFiniteSet(S) /\ Cardinality(S) \in Nat
    /\ PoolPages \in Nat
BY FS_Subset, FS_CardinalityType DEF PoolPages

(* A number of positions takes a natural number of pages.                  *)
LEMMA WantPagesType == ASSUME NEW n \in Nat PROVE WantPages(n) \in Nat
<1>1. n + PageSize - 1 \in Nat /\ PageSize \in Nat \ {0}
  OBVIOUS
<1>2. \A a \in Nat, b \in Nat \ {0} : a \div b \in Nat
  OBVIOUS
<1>3. QED
  BY <1>1, <1>2 DEF WantPages

-----------------------------------------------------------------------------
(* A pool fresh from vv_kv_pool_create satisfies the invariant.            *)
LEMMA InitIInv == Init => IInv
<1> SUFFICES ASSUME Init PROVE IInv
  OBVIOUS
<1>1. TypeOK
  BY Sizes DEF Init, TypeOK, PC
<1>2. PagesPartitioned
  <2>1. \A c \in Cache : Owned(c) = {}
    BY DEF Init, Owned
  <2>2. QED
    BY <2>1, FS_EmptySet DEF Init, PagesPartitioned, PoolPages
<1>3. Holders = {} /\ Stalled = {}
  BY DEF Init, Holders, Stalled, InCall
<1>4. CountersExact
  BY <1>3, FS_EmptySet DEF Init, CountersExact
<1>5. LocalsSane
  BY DEF Init, LocalsSane, InCall
<1>6. QED
  BY <1>1, <1>2, <1>4, <1>5 DEF IInv

(* A request that starts touches no counter.                               *)
LEMMA BeginIInv == ASSUME NEW c \in Cache, IInv, Begin(c) PROVE IInv'
<1> USE DEF IInv
<1>1. TypeOK'
  BY DEF TypeOK, Begin, pool, local, PC
<1>2. PagesPartitioned'
  BY DEF PagesPartitioned, Owned, Begin, pool
<1>3. Holders' = Holders /\ Stalled' = Stalled
  BY DEF Holders, Stalled, InCall, CountedNow, Begin, pool, local, TypeOK
<1>4. CountersExact'
  BY <1>3 DEF CountersExact, Begin, pool, local
<1>5. LocalsSane'
  BY DEF LocalsSane, InCall, Begin, pool, local, TypeOK
<1>6. QED
  BY <1>1, <1>2, <1>4, <1>5

(* The part of reserve_pages before the lock sets the call's locals only.  *)
LEMMA ReserveIInv ==
    ASSUME NEW c \in Cache, NEW n \in 1..(MaxSeqLen + 1), NEW w \in BOOLEAN,
           IInv, Reserve(c, n, w)
    PROVE  IInv'
<1> USE DEF IInv
<1>0. WantPages(n) \in Nat
  BY WantPagesType
<1>1. TypeOK'
  <2>1. need' \in [Cache -> Nat]
    BY <1>0 DEF TypeOK, Reserve, local
  <2>2. wait' \in [Cache -> BOOLEAN]
    BY DEF TypeOK, Reserve, local
  <2>3. pc' \in [Cache -> PC]
    BY DEF TypeOK, Reserve, PC
  <2>4. calls' \in 0..MaxCalls
    BY DEF TypeOK, Reserve
  <2>5. UNCHANGED <<pool, cache, counted, my_gen>>
    BY DEF Reserve, local
  <2>6. QED
    BY <2>1, <2>2, <2>3, <2>4, <2>5 DEF TypeOK, pool, cache
<1>2. PagesPartitioned'
  BY DEF PagesPartitioned, Owned, Reserve, pool, cache
<1>3. ~counted[c] /\ pc[c] = "running"
  BY DEF LocalsSane, InCall, Reserve
<1>4. UNCHANGED <<counted, my_gen, pool, cache>>
  BY DEF Reserve, local
<1>5. /\ \A d \in Cache : d # c => pc'[d] = pc[d] /\ need'[d] = need[d]
      /\ pc'[c] \in {"full", "running", "lock"}
      /\ pc'[c] = "lock" => need'[c] > 0
  BY <1>0 DEF Reserve, local, TypeOK
<1>6. Holders' = Holders /\ Stalled' = Stalled
  BY <1>3, <1>4, <1>5 DEF Holders, Stalled, InCall, CountedNow, pool, cache
<1>7. c \notin Stalled
  BY <1>3 DEF Stalled, CountedNow
<1>8. CountersExact'
  BY <1>4, <1>5, <1>6, <1>7 DEF CountersExact, Stalled, pool
<1>9. LocalsSane'
  BY <1>3, <1>4, <1>5 DEF LocalsSane, InCall, pool, cache
<1>10. QED
  BY <1>1, <1>2, <1>8, <1>9

(* The sets of holders and of stalled holders lose or gain c alone.        *)
LEMMA GrantIInv == ASSUME NEW c \in Cache, IInv, Grant(c) PROVE IInv'
<1> USE DEF IInv
<1>1. PICK S \in SUBSET free :
         /\ Cardinality(S) = need[c]
         /\ free' = free \ S
         /\ taken' = [taken EXCEPT ![c] = S]
  BY DEF Grant
<1>2. pc[c] = "lock" /\ taken[c] = {} /\ need[c] > 0 /\ need[c] \in Nat
  BY DEF Grant, LocalsSane, InCall, TypeOK
<1>3. UNCHANGED <<stall_gen, pages, n_pages, no_wait, local, calls>>
  BY DEF Grant
<1>4. /\ pc'[c] = "mapping" /\ taken'[c] = S
      /\ \A d \in Cache : d # c => pc'[d] = pc[d] /\ taken'[d] = taken[d]
  BY <1>1 DEF Grant, TypeOK
<1>5. free \subseteq Page /\ S \subseteq Page /\ IsFiniteSet(free) /\ IsFiniteSet(S)
  BY Sizes DEF TypeOK
<1>6. n_free' = Cardinality(free')
  <2>1. Cardinality(free \ S) = Cardinality(free) - Cardinality(S)
    BY <1>5, CardinalityMove
  <2>2. QED
    BY <1>1, <2>1 DEF Grant, PagesPartitioned
<1>7. PagesPartitioned'
  <2>1. \A p \in S : \A d \in Cache : p \notin Owned(d)
    BY DEF PagesPartitioned
  <2>2. \A d \in Cache : d # c => Owned(d)' = Owned(d)
    BY <1>3, <1>4 DEF Owned
  <2>3. Owned(c)' = Owned(c) \cup S
    BY <1>2, <1>3, <1>4 DEF Owned
  <2>4. free' = {p \in Page : \A d \in Cache : p \notin Owned(d)'}
    BY <1>1, <1>5, <2>2, <2>3 DEF PagesPartitioned
  <2>5. \A d, e \in Cache : d # e => Owned(d)' \cap Owned(e)' = {}
    BY <2>1, <2>2, <2>3 DEF PagesPartitioned
  <2>6. \A d \in Cache : pages'[d] \cap taken'[d] = {}
    BY <2>1, <1>3, <1>4 DEF PagesPartitioned, Owned
  <2>7. QED
    BY <1>3, <1>6, <2>4, <2>5, <2>6 DEF PagesPartitioned
<1>8. n_holders' = Cardinality(Holders')
  <2>1. Holders' = Holders \cup {c}
    BY <1>3, <1>4 DEF Holders
  <2>2. c \in Holders <=> n_pages[c] # 0
    BY <1>2 DEF Holders, TypeOK
  <2>3. IsFiniteSet(Holders) /\ Cardinality(Holders) \in Nat
    BY Sizes DEF Holders
  <2>4. Cardinality(Holders \cup {c}) = Cardinality(Holders) + Bit(c \notin Holders)
    BY <2>3, CardinalityOne
  <2>5. QED
    BY <2>1, <2>2, <2>4 DEF CountersExact, Grant, Bit
<1>9. n_stalled' = Cardinality(Stalled') /\ Stalled' = Stalled \ {c}
  <2>1. Stalled' = Stalled \ {c}
    BY <1>3, <1>4 DEF Stalled, InCall, CountedNow, local
  <2>2. c \in Stalled <=> CountedNow(c)
    BY <1>2 DEF Stalled, InCall
  <2>3. IsFiniteSet(Stalled) /\ Cardinality(Stalled) \in Nat
    BY Sizes DEF Stalled
  <2>4. Cardinality(Stalled \ {c}) = Cardinality(Stalled) - Bit(c \in Stalled)
    BY <2>3, CardinalityOne
  <2>5. QED
    BY <2>1, <2>2, <2>4 DEF CountersExact, Grant, Bit
<1>10. CountersExact'
  <2>1. \A d \in Stalled' : d \in Holders' /\ n_free' < need'[d]
    BY <1>2, <1>3, <1>4, <1>9 DEF CountersExact, Holders, Grant, local, TypeOK, Stalled
  <2>2. QED
    BY <1>8, <1>9, <2>1 DEF CountersExact
<1>11. TypeOK'
  <2>1. n_free' \in Nat /\ n_holders' \in Nat /\ n_stalled' \in Nat
    BY <1>1, <1>5, <1>6, <1>8, <1>9, Sizes DEF Holders, Stalled
  <2>2. pc' \in [Cache -> PC] /\ taken' \in [Cache -> SUBSET Page] /\ free' \in SUBSET Page
    BY <1>1, <1>5 DEF Grant, TypeOK, PC
  <2>3. QED
    BY <2>1, <2>2, <1>3 DEF TypeOK, local
<1>12. LocalsSane'
  BY <1>1, <1>2, <1>3, <1>4 DEF LocalsSane, InCall, local
<1>13. QED
  BY <1>7, <1>10, <1>11, <1>12

(* A call that gives up leaves n_stalled if it was in it.                  *)
LEMMA GiveUpIInv == ASSUME NEW c \in Cache, IInv, GiveUp(c) PROVE IInv'
<1> USE DEF IInv
<1>1. UNCHANGED <<free, n_free, n_holders, stall_gen, cache, calls>>
  BY DEF GiveUp
<1>2. /\ pc[c] = "lock" /\ pc'[c] = "failed"
      /\ need'[c] = 0 /\ wait'[c] = FALSE /\ counted'[c] = FALSE /\ my_gen'[c] = 0
      /\ \A d \in Cache : d # c =>
            /\ pc'[d] = pc[d] /\ need'[d] = need[d]
            /\ counted'[d] = counted[d] /\ my_gen'[d] = my_gen[d]
  BY DEF GiveUp, Return, TypeOK
<1>3. PagesPartitioned'
  BY <1>1 DEF PagesPartitioned, Owned, cache
<1>4. Holders' = Holders
  BY <1>1, <1>2 DEF Holders, cache
<1>5. Stalled' = Stalled \ {c}
  BY <1>1, <1>2 DEF Stalled, InCall, CountedNow
<1>6. n_stalled' = Cardinality(Stalled')
  <2>1. c \in Stalled <=> CountedNow(c)
    BY <1>2 DEF Stalled, InCall
  <2>2. IsFiniteSet(Stalled)
    BY Sizes DEF Stalled
  <2>3. Cardinality(Stalled \ {c}) = Cardinality(Stalled) - Bit(c \in Stalled)
    BY <2>2, CardinalityOne
  <2>4. QED
    BY <1>5, <2>1, <2>3 DEF CountersExact, GiveUp, Bit
<1>7. CountersExact'
  BY <1>1, <1>2, <1>4, <1>5, <1>6 DEF CountersExact, Stalled
<1>8. TypeOK'
  <2>1. n_stalled' \in Nat
    BY <1>5, <1>6, Sizes DEF Stalled
  <2>2. /\ pc' \in [Cache -> PC] /\ need' \in [Cache -> Nat]
        /\ wait' \in [Cache -> BOOLEAN] /\ counted' \in [Cache -> BOOLEAN]
        /\ my_gen' \in [Cache -> Nat]
    BY DEF GiveUp, Return, TypeOK, PC
  <2>3. QED
    BY <1>1, <2>1, <2>2 DEF TypeOK, cache
<1>9. LocalsSane'
  BY <1>1, <1>2 DEF LocalsSane, InCall, cache, TypeOK
<1>10. QED
  BY <1>3, <1>7, <1>8, <1>9

(* A holder that goes to sleep joins n_stalled once per generation.        *)
LEMMA StallIInv == ASSUME NEW c \in Cache, IInv, Stall(c) PROVE IInv'
<1> USE DEF IInv
<1> DEFINE joins == Holds(c) /\ ~CountedNow(c)
<1>1. UNCHANGED <<free, n_free, n_holders, stall_gen, cache, need, wait, calls>>
  BY DEF Stall
<1>2. /\ pc[c] = "lock" /\ pc'[c] = "sleep" /\ n_free < need[c]
      /\ counted'[c] = (CountedNow(c) \/ joins)
      /\ my_gen'[c] = IF joins THEN stall_gen ELSE my_gen[c]
      /\ n_stalled' = n_stalled + Bit(joins)
      /\ \A d \in Cache : d # c =>
            pc'[d] = pc[d] /\ counted'[d] = counted[d] /\ my_gen'[d] = my_gen[d]
  BY DEF Stall, TypeOK
<1>3. PagesPartitioned'
  BY <1>1 DEF PagesPartitioned, Owned, cache
<1>4. Holders' = Holders
  BY <1>1, <1>2 DEF Holders, cache
<1>5. c \in Stalled <=> CountedNow(c)
  BY <1>2 DEF Stalled, InCall
<1>6. CountedNow(c)' <=> (CountedNow(c) \/ joins)
  BY <1>1, <1>2 DEF CountedNow
<1>7. Stalled' = IF joins THEN Stalled \cup {c} ELSE Stalled
  BY <1>1, <1>2, <1>5, <1>6 DEF Stalled, InCall, CountedNow
<1>8. n_stalled' = Cardinality(Stalled')
  <2>1. IsFiniteSet(Stalled)
    BY Sizes DEF Stalled
  <2>2. Cardinality(Stalled \cup {c}) = Cardinality(Stalled) + Bit(c \notin Stalled)
    BY <2>1, CardinalityOne
  <2>3. Cardinality(Stalled) \in Nat
    BY Sizes DEF Stalled
  <2>4. QED
    BY <1>2, <1>5, <1>7, <2>2, <2>3 DEF CountersExact, Bit
<1>9. CountersExact'
  <2>1. joins => c \in Holders
    BY DEF Holders, Holds
  <2>2. QED
    BY <1>1, <1>2, <1>4, <1>7, <1>8, <2>1 DEF CountersExact
<1>10. TypeOK'
  <2>1. Stalled' \in SUBSET Cache
    BY <1>7 DEF Stalled
  <2>2. n_stalled' \in Nat
    BY <1>8, <2>1, Sizes
  <2>3. pc' \in [Cache -> PC] /\ my_gen' \in [Cache -> Nat]
    BY DEF Stall, TypeOK, PC
  <2>4. counted' \in [Cache -> BOOLEAN]
    BY DEF Stall, TypeOK, CountedNow
  <2>5. QED
    BY <1>1, <2>2, <2>3, <2>4 DEF TypeOK, cache
<1>11. CountedNow(c) => n_pages[c] > 0
  BY DEF CountedNow, LocalsSane
<1>12. LocalsSane'
  BY <1>1, <1>2, <1>11 DEF LocalsSane, InCall, Holds, cache, TypeOK
<1>13. QED
  BY <1>3, <1>9, <1>10, <1>12

(* A spurious wakeup leaves the sleeper counted.                           *)
LEMMA SpuriousWakeIInv == ASSUME NEW c \in Cache, IInv, SpuriousWake(c) PROVE IInv'
<1> USE DEF IInv
<1>1. /\ UNCHANGED <<pool, cache, local, calls>>
      /\ pc[c] = "sleep" /\ pc'[c] = "lock"
      /\ \A d \in Cache : d # c => pc'[d] = pc[d]
  BY DEF SpuriousWake, TypeOK
<1>2. PagesPartitioned'
  BY <1>1 DEF PagesPartitioned, Owned, cache, pool
<1>3. Holders' = Holders /\ Stalled' = Stalled
  BY <1>1 DEF Holders, Stalled, InCall, CountedNow, pool, cache, local
<1>4. CountersExact'
  BY <1>1, <1>3 DEF CountersExact, pool, local
<1>5. TypeOK'
  <2>1. pc' \in [Cache -> PC]
    BY DEF SpuriousWake, TypeOK, PC
  <2>2. QED
    BY <1>1, <2>1 DEF TypeOK, pool, cache, local
<1>6. LocalsSane'
  BY <1>1 DEF LocalsSane, InCall, pool, cache, local
<1>7. QED
  BY <1>2, <1>4, <1>5, <1>6

(* The popped pages become the cache's own.                                *)
LEMMA MapOkIInv == ASSUME NEW c \in Cache, IInv, MapOk(c) PROVE IInv'
<1> USE DEF IInv
<1>1. UNCHANGED <<pool, no_wait, calls>>
  BY DEF MapOk
<1>2. /\ pc[c] = "mapping" /\ pc'[c] = "running"
      /\ pages'[c] = pages[c] \cup taken[c] /\ taken'[c] = {}
      /\ n_pages'[c] = n_pages[c] + need[c]
      /\ need'[c] = 0 /\ counted'[c] = FALSE /\ my_gen'[c] = 0
      /\ \A d \in Cache : d # c =>
            /\ pc'[d] = pc[d] /\ pages'[d] = pages[d] /\ taken'[d] = taken[d]
            /\ n_pages'[d] = n_pages[d] /\ need'[d] = need[d]
            /\ counted'[d] = counted[d] /\ my_gen'[d] = my_gen[d]
  BY DEF MapOk, Return, TypeOK
<1>3. need[c] \in Nat /\ need[c] > 0 /\ Cardinality(taken[c]) = need[c] /\ n_pages[c] \in Nat
  BY <1>2 DEF LocalsSane, TypeOK
<1>4. PagesPartitioned'
  <2>1. \A d \in Cache : Owned(d)' = Owned(d)
    BY <1>2 DEF Owned
  <2>2. IsFiniteSet(pages[c]) /\ IsFiniteSet(taken[c])
    BY Sizes DEF TypeOK
  <2>3. Cardinality(pages[c] \cup taken[c]) = Cardinality(pages[c]) + Cardinality(taken[c])
    BY <2>2, CardinalityMove DEF PagesPartitioned
  <2>4. n_pages'[c] = Cardinality(pages'[c])
    BY <1>2, <1>3, <2>3 DEF PagesPartitioned
  <2>5. QED
    BY <1>1, <1>2, <2>1, <2>4, ZenonT(40) DEF PagesPartitioned, pool
<1>5. Holders' = Holders
  BY <1>2, <1>3 DEF Holders
<1>6. Stalled' = Stalled
  BY <1>1, <1>2 DEF Stalled, InCall, CountedNow, pool
<1>7. CountersExact'
  BY <1>1, <1>2, <1>5, <1>6 DEF CountersExact, Stalled, InCall, pool
<1>8. TypeOK'
  <2>1. /\ pages' \in [Cache -> SUBSET Page] /\ taken' \in [Cache -> SUBSET Page]
        /\ n_pages' \in [Cache -> Nat] /\ pc' \in [Cache -> PC]
    BY DEF MapOk, TypeOK, PC
  <2>2. /\ need' \in [Cache -> Nat] /\ wait' \in [Cache -> BOOLEAN]
        /\ counted' \in [Cache -> BOOLEAN] /\ my_gen' \in [Cache -> Nat]
    BY DEF MapOk, Return, TypeOK
  <2>3. QED
    BY <1>1, <2>1, <2>2 DEF TypeOK, pool
<1>9. LocalsSane'
  BY <1>1, <1>2, <1>3 DEF LocalsSane, InCall, pool, TypeOK
<1>10. QED
  BY <1>4, <1>7, <1>8, <1>9

(* Once pages came back nobody is counted: no generation recorded so far   *)
(* equals the new one.                                                     *)
LEMMA NobodyStalled ==
    ASSUME IInv, stall_gen' = stall_gen + 1,
           \A d \in Cache : my_gen'[d] \in {my_gen[d], 0}
    PROVE  Stalled' = {}
<1>1. \A d \in Cache : my_gen[d] \in Nat /\ my_gen[d] <= stall_gen /\ stall_gen \in Nat
  BY DEF IInv, TypeOK, LocalsSane
<1>2. \A d \in Cache : my_gen'[d] # stall_gen'
  BY <1>1
<1>3. QED
  BY <1>2 DEF Stalled, CountedNow

(* The popped pages go back, and with them perhaps the cache's only ones.  *)
LEMMA MapFailIInv == ASSUME NEW c \in Cache, IInv, MapFail(c) PROVE IInv'
<1> USE DEF IInv
<1>1. /\ UNCHANGED <<pages, n_pages, no_wait, calls>>
      /\ free' = free \cup taken[c] /\ n_free' = n_free + need[c]
      /\ n_holders' = n_holders - Bit(n_pages[c] = 0)
      /\ n_stalled' = 0 /\ stall_gen' = stall_gen + 1
  BY DEF MapFail, PushBack, PagesReturn
<1>2. /\ pc[c] = "mapping" /\ pc'[c] = "failed" /\ taken'[c] = {}
      /\ need'[c] = 0 /\ counted'[c] = FALSE /\ my_gen'[c] = 0
      /\ \A d \in Cache : d # c =>
            /\ pc'[d] = IF pc[d] = "sleep" THEN "lock" ELSE pc[d]
            /\ taken'[d] = taken[d] /\ need'[d] = need[d]
            /\ counted'[d] = counted[d] /\ my_gen'[d] = my_gen[d]
  BY DEF MapFail, PagesReturn, WakeAll, Return, TypeOK
<1>3. need[c] \in Nat /\ need[c] > 0 /\ Cardinality(taken[c]) = need[c]
  BY <1>2 DEF LocalsSane, TypeOK
<1>4. PagesPartitioned'
  <2>1. \A d \in Cache : d # c => Owned(d)' = Owned(d)
    BY <1>1, <1>2 DEF Owned
  <2>2. Owned(c)' = Owned(c) \ taken[c]
    BY <1>1, <1>2 DEF Owned, PagesPartitioned
  <2>3. taken[c] \subseteq Page /\ taken[c] \subseteq Owned(c)
    BY DEF TypeOK, Owned
  <2>4. free' = {p \in Page : \A d \in Cache : p \notin Owned(d)'}
    BY <1>1, <2>1, <2>2, <2>3 DEF PagesPartitioned
  <2>5. \A d, e \in Cache : d # e => Owned(d)' \cap Owned(e)' = {}
    BY <2>1, <2>2 DEF PagesPartitioned
  <2>6. free \cap taken[c] = {} /\ IsFiniteSet(free) /\ IsFiniteSet(taken[c])
    BY <2>3, Sizes DEF PagesPartitioned, TypeOK
  <2>7. Cardinality(free \cup taken[c]) = Cardinality(free) + Cardinality(taken[c])
    BY <2>6, CardinalityMove
  <2>8. n_free' = Cardinality(free')
    BY <1>1, <1>3, <2>7 DEF PagesPartitioned
  <2>9. QED
    BY <1>1, <1>2, <2>4, <2>5, <2>8 DEF PagesPartitioned
<1>5. n_holders' = Cardinality(Holders')
  <2>1. Holders' = IF n_pages[c] = 0 THEN Holders \ {c} ELSE Holders
    BY <1>1, <1>2 DEF Holders, TypeOK
  <2>2. c \in Holders /\ IsFiniteSet(Holders) /\ Cardinality(Holders) \in Nat
    BY <1>2, Sizes DEF Holders
  <2>3. Cardinality(Holders \ {c}) = Cardinality(Holders) - Bit(c \in Holders)
    BY <2>2, CardinalityOne
  <2>4. QED
    BY <1>1, <2>1, <2>2, <2>3 DEF CountersExact, Bit
<1>6. Stalled' = {}
  BY <1>1, <1>2, NobodyStalled
<1>7. CountersExact'
  BY <1>1, <1>5, <1>6, FS_EmptySet DEF CountersExact
<1>8. TypeOK'
  <2>1. /\ pc' \in [Cache -> PC] /\ taken' \in [Cache -> SUBSET Page]
        /\ free' \in SUBSET Page
    BY <1>1 DEF MapFail, PagesReturn, WakeAll, TypeOK, PC
  <2>2. /\ need' \in [Cache -> Nat] /\ wait' \in [Cache -> BOOLEAN]
        /\ counted' \in [Cache -> BOOLEAN] /\ my_gen' \in [Cache -> Nat]
    BY DEF MapFail, Return, TypeOK
  <2>3. n_holders' \in Nat
    BY <1>5, Sizes DEF Holders
  <2>4. n_free' \in Nat /\ stall_gen' \in Nat /\ n_stalled' \in Nat
    BY <1>1, <1>3 DEF TypeOK
  <2>5. QED
    BY <1>1, <2>1, <2>2, <2>3, <2>4 DEF TypeOK
<1>9. LocalsSane'
  BY <1>1, <1>2 DEF LocalsSane, InCall, TypeOK
<1>10. QED
  BY <1>4, <1>7, <1>8, <1>9

(* A release gives every page back and starts a new generation.            *)
LEMMA ReleaseIInv == ASSUME NEW c \in Cache, IInv, Release(c) PROVE IInv'
<1> USE DEF IInv
<1>1. /\ pc[c] \in {"running", "full", "failed"} /\ taken[c] = {} /\ counted[c] = FALSE
      /\ UNCHANGED <<taken, local, calls>>
      /\ no_wait' \in [Cache -> BOOLEAN]
  BY DEF Release, LocalsSane, InCall, TypeOK
<1>2. CASE n_pages[c] = 0
  <2>1. /\ UNCHANGED <<pool, pages, n_pages>>
        /\ pc'[c] = "idle" /\ pc' \in [Cache -> PC]
        /\ \A d \in Cache : d # c => pc'[d] = pc[d]
    BY <1>2 DEF Release, TypeOK, PC
  <2>2. PagesPartitioned'
    BY <1>1, <2>1 DEF PagesPartitioned, Owned, pool
  <2>3. Holders' = Holders /\ Stalled' = Stalled
    BY <1>1, <2>1 DEF Holders, Stalled, InCall, CountedNow, pool, local
  <2>4. CountersExact'
    BY <1>1, <2>1, <2>3 DEF CountersExact, pool, local
  <2>5. TypeOK'
    BY <1>1, <2>1 DEF TypeOK, pool, local
  <2>6. LocalsSane'
    BY <1>1, <1>2, <2>1 DEF LocalsSane, InCall, pool, local
  <2>7. QED
    BY <2>2, <2>4, <2>5, <2>6
<1>3. CASE n_pages[c] > 0
  <2>1. /\ free' = free \cup pages[c] /\ n_free' = n_free + n_pages[c]
        /\ n_holders' = n_holders - 1
        /\ n_stalled' = 0 /\ stall_gen' = stall_gen + 1
    BY <1>3 DEF Release, PushBack, PagesReturn
  <2>2. /\ pc'[c] = "idle" /\ pages'[c] = {} /\ n_pages'[c] = 0
        /\ \A d \in Cache : d # c =>
              /\ pc'[d] = IF pc[d] = "sleep" THEN "lock" ELSE pc[d]
              /\ pages'[d] = pages[d] /\ n_pages'[d] = n_pages[d]
    BY <1>3 DEF Release, PagesReturn, WakeAll, TypeOK
  <2>3. PagesPartitioned'
    <3>1. \A d \in Cache : d # c => Owned(d)' = Owned(d)
      BY <1>1, <2>2 DEF Owned
    <3>2. Owned(c)' = {} /\ Owned(c) = pages[c]
      BY <1>1, <2>2 DEF Owned
    <3>3. pages[c] \subseteq Page
      BY DEF TypeOK
    <3>4. free' = {p \in Page : \A d \in Cache : p \notin Owned(d)'}
      BY <2>1, <3>1, <3>2, <3>3 DEF PagesPartitioned
    <3>5. \A d, e \in Cache : d # e => Owned(d)' \cap Owned(e)' = {}
      BY <3>1, <3>2 DEF PagesPartitioned
    <3>6. free \cap pages[c] = {} /\ IsFiniteSet(free) /\ IsFiniteSet(pages[c])
      BY <3>2, <3>3, Sizes DEF PagesPartitioned, TypeOK
    <3>7. Cardinality(free \cup pages[c]) = Cardinality(free) + Cardinality(pages[c])
      BY <3>6, CardinalityMove
    <3>8. n_free' = Cardinality(free') /\ n_pages'[c] = Cardinality(pages'[c])
      BY <2>1, <2>2, <3>7, FS_EmptySet DEF PagesPartitioned
    <3>9. QED
      BY <1>1, <2>2, <3>4, <3>5, <3>8 DEF PagesPartitioned
  <2>4. n_holders' = Cardinality(Holders')
    <3>1. Holders' = Holders \ {c}
      BY <1>1, <2>2 DEF Holders
    <3>2. c \in Holders /\ IsFiniteSet(Holders)
      BY <1>3, Sizes DEF Holders
    <3>3. Cardinality(Holders \ {c}) = Cardinality(Holders) - Bit(c \in Holders)
      BY <3>2, CardinalityOne
    <3>4. QED
      BY <2>1, <3>1, <3>2, <3>3 DEF CountersExact, Bit
  <2>5. Stalled' = {}
    BY <1>1, <2>1, NobodyStalled DEF local
  <2>6. CountersExact'
    BY <2>1, <2>4, <2>5, FS_EmptySet DEF CountersExact
  <2>7. TypeOK'
    <3>1. /\ pc' \in [Cache -> PC] /\ pages' \in [Cache -> SUBSET Page]
          /\ n_pages' \in [Cache -> Nat]
      BY <1>3 DEF Release, PagesReturn, WakeAll, TypeOK, PC
    <3>2. free' \in SUBSET Page /\ n_free' \in Nat /\ stall_gen' \in Nat /\ n_stalled' \in Nat
      BY <2>1 DEF TypeOK
    <3>3. n_holders' \in Nat
      BY <2>4, Sizes DEF Holders
    <3>4. QED
      BY <1>1, <3>1, <3>2, <3>3 DEF TypeOK, local
  <2>8. LocalsSane'
    BY <1>1, <2>1, <2>2 DEF LocalsSane, InCall, TypeOK, local
  <2>9. QED
    BY <2>3, <2>6, <2>7, <2>8
<1>4. QED
  BY <1>2, <1>3 DEF TypeOK

(* Every step of the pool preserves the invariant.                         *)
LEMMA NextIInv == IInv /\ [Next]_vars => IInv'
<1> SUFFICES ASSUME IInv, [Next]_vars PROVE IInv'
  OBVIOUS
<1>1. ASSUME NEW c \in Cache, Step(c) PROVE IInv'
  BY <1>1, BeginIInv, ReserveIInv, GrantIInv, GiveUpIInv, StallIInv,
     SpuriousWakeIInv, MapOkIInv, MapFailIInv, ReleaseIInv DEF Step
<1>2. CASE UNCHANGED vars
  BY <1>2 DEF IInv, TypeOK, PagesPartitioned, CountersExact, LocalsSane, Owned,
     Holders, Stalled, InCall, CountedNow, vars, pool, cache, local
<1>3. QED
  BY <1>1, <1>2 DEF Next

(* The invariant holds in every state of kv_cache.c's pool.                *)
THEOREM Invariance == Spec => []IInv
BY InitIInv, NextIInv, PTL DEF Spec

(* For any number of caches and pages: the counters never go negative and  *)
(* every variable keeps its type.                                          *)
THEOREM TypeCorrect == Spec => []TypeOK
BY Invariance, PTL DEF IInv

(* For any number of caches and pages, no page is ever lost or owned by two*)
(* caches, whatever page map copies fail (reserve_pages, release).         *)
THEOREM NoPageSharedOrLost == Spec => []PagesPartitioned
BY Invariance, PTL DEF IInv

(* For any number of caches and pages, n_holders and n_stalled are exact.  *)
THEOREM CountersAreExact == Spec => []CountersExact
BY Invariance, PTL DEF IInv

-----------------------------------------------------------------------------
(* What the counters tell a holder about to give up: every other holder is *)
(* stalled.  What they tell a cache that holds nothing: all pages are free.*)
LEMMA GiveUpJustified ==
    ASSUME NEW c \in Cache, IInv, GiveUp(c), wait[c], need[c] <= PoolPages
    PROVE  Holds(c) /\ \A d \in Holders \ {c} : InCall(d) /\ n_free < need[d]
<1> USE DEF IInv
<1>1. pc[c] = "lock" /\ n_free < need[c] /\ Hopeless(c)
  BY DEF GiveUp
<1>2. need[c] \in Nat /\ n_pages[c] \in Nat /\ PoolPages \in Nat /\ n_free \in Nat
  BY Sizes DEF TypeOK
<1>3. ASSUME ~Holds(c) PROVE FALSE
  <2>1. n_holders = 0
    BY <1>1, <1>2, <1>3 DEF Hopeless
  <2>2. Holders = {}
    <3>1. IsFiniteSet(Holders) /\ Cardinality(Holders) = 0
      BY <2>1, Sizes DEF CountersExact, Holders
    <3>2. QED
      BY <3>1, FS_EmptySet
  <2>3. \A d \in Cache : Owned(d) = {}
    <3>1. \A d \in Cache : n_pages[d] = 0 /\ taken[d] = {}
      BY <2>2 DEF Holders, TypeOK, LocalsSane
    <3>2. \A d \in Cache : IsFiniteSet(pages[d]) /\ Cardinality(pages[d]) = 0
      BY <3>1, Sizes DEF TypeOK, PagesPartitioned
    <3>3. \A d \in Cache : pages[d] = {}
      BY <3>2, FS_EmptySet
    <3>4. QED
      BY <3>1, <3>3 DEF Owned
  <2>4. free = Page
    BY <2>3 DEF PagesPartitioned
  <2>5. n_free = PoolPages
    BY <2>4 DEF PagesPartitioned, PoolPages
  <2>6. QED
    BY <1>1, <1>2, <2>5
<1>4. ASSUME Holds(c) PROVE Holders \ {c} = Stalled \ {c}
  <2>1. Running(c) <= 0
    BY <1>1, <1>2, <1>4 DEF Hopeless
  <2>2. c \in Holders /\ (c \in Stalled <=> CountedNow(c))
    BY <1>1, <1>4 DEF Holders, Holds, Stalled, InCall
  <2>3. IsFiniteSet(Holders) /\ IsFiniteSet(Stalled)
    BY Sizes DEF Holders, Stalled
  <2>4. /\ Cardinality(Holders \ {c}) = n_holders - 1
        /\ Cardinality(Stalled \ {c}) = n_stalled - Bit(CountedNow(c))
    <3>1. Cardinality(Holders \ {c}) = Cardinality(Holders) - Bit(c \in Holders)
      BY <2>3, CardinalityOne
    <3>2. Cardinality(Stalled \ {c}) = Cardinality(Stalled) - Bit(c \in Stalled)
      BY <2>3, CardinalityOne
    <3>3. QED
      BY <2>2, <3>1, <3>2 DEF CountersExact, Bit
  <2>5. Cardinality(Holders \ {c}) <= Cardinality(Stalled \ {c})
    BY <1>4, <2>1, <2>4 DEF Running, Bit, TypeOK
  <2>6. Stalled \ {c} \in SUBSET (Holders \ {c})
    BY DEF CountersExact
  <2>7. IsFiniteSet(Holders \ {c})
    BY <2>3, FS_RemoveElement
  <2>8. /\ Cardinality(Stalled \ {c}) <= Cardinality(Holders \ {c})
        /\ Cardinality(Holders \ {c}) = Cardinality(Stalled \ {c})
              => Holders \ {c} = Stalled \ {c}
    BY <2>6, <2>7, FS_Subset
  <2>9. Cardinality(Holders \ {c}) \in Nat /\ Cardinality(Stalled \ {c}) \in Nat
    BY Sizes DEF Holders, Stalled
  <2>10. QED
    BY <2>5, <2>8, <2>9
<1>5. Holds(c)
  BY <1>3
<1>6. \A d \in Holders \ {c} : d \in Stalled
  BY <1>4, <1>5
<1>7. QED
  BY <1>5, <1>6 DEF CountersExact, Stalled

(* Only a call that gives up goes from the mutex to failure.               *)
LEMMA OnlyGiveUpFails ==
    ASSUME NEW c \in Cache, IInv, [Next]_vars, pc[c] = "lock", pc'[c] = "failed"
    PROVE  GiveUp(c)
<1>1. PICK d \in Cache : Step(d)
  BY DEF Next, vars
<1>2. pc \in [Cache -> PC]
  BY DEF IInv, TypeOK
<1>3. CASE d = c
  BY <1>1, <1>2, <1>3 DEF Step, Begin, Reserve, Grant, Stall, SpuriousWake,
     MapOk, MapFail, Release
<1>4. CASE d # c
  BY <1>1, <1>2, <1>4 DEF Step, Begin, Reserve, Grant, GiveUp, Stall, SpuriousWake,
     MapOk, MapFail, Release, PagesReturn, WakeAll
<1>5. QED
  BY <1>3, <1>4

(* For any number of caches and pages, a reservation that may wait is      *)
(* refused only when waiting is useless: the stall_gen scheme never fails a*)
(* request that a woken holder could still have helped.                    *)
THEOREM ExhaustionIsReal == Spec => NoFalseExhaustion
<1>1. ASSUME IInv, [Next]_vars
      PROVE  [\A c \in Cache :
               (pc[c] = "lock" /\ pc'[c] = "failed" /\ wait[c]) =>
                  \/ need[c] > PoolPages
                  \/ /\ Holds(c)
                     /\ \A d \in Holders \ {c} : InCall(d) /\ n_free < need[d]]_vars
  <2> SUFFICES ASSUME NEW c \in Cache, pc[c] = "lock", pc'[c] = "failed", wait[c],
                      ~(need[c] > PoolPages)
               PROVE  /\ Holds(c)
                      /\ \A d \in Holders \ {c} : InCall(d) /\ n_free < need[d]
    OBVIOUS
  <2>1. GiveUp(c)
    BY <1>1, OnlyGiveUpFails
  <2>2. need[c] <= PoolPages
    BY <1>1, Sizes DEF IInv, TypeOK
  <2>3. QED
    BY <1>1, <2>1, <2>2, GiveUpJustified
<1>2. QED
  BY <1>1, Invariance, PTL DEF Spec, NoFalseExhaustion

-----------------------------------------------------------------------------
(* Refinement.  The three mapped functions, named.                         *)
HeldMap == [c \in Cache |-> Owned(c)]
AskingMap == [c \in Cache |-> IF InCall(c) THEN need[c] ELSE 0]
PatientMap == [c \in Cache |-> InCall(c) /\ wait[c]]

(* The allocator's Cardinality is this module's.                           *)
LEMMA SameCardinality == \A S : Allocator!Cardinality(S) = Cardinality(S)
BY Zenon DEF Allocator!Cardinality, Cardinality, Allocator!IsFiniteSet, IsFiniteSet

(* A step that changes neither the owners nor who is asking is a stutter.  *)
LEMMA AllocatorStutter ==
    ASSUME free' = free,
           \A d \in Cache : Owned(d)' = Owned(d),
           \A d \in Cache : InCall(d)' = InCall(d),
           \A d \in Cache : InCall(d) => need'[d] = need[d] /\ wait'[d] = wait[d]
    PROVE  UNCHANGED Allocator!vars
BY DEF Allocator!vars

(* An owner is a holder.                                                   *)
LEMMA OwnersHold == ASSUME NEW d \in Cache, IInv, Owned(d) # {} PROVE d \in Holders
<1> USE DEF IInv
<1>1. CASE taken[d] # {}
  BY <1>1 DEF LocalsSane, Holders
<1>2. CASE taken[d] = {}
  <2>1. pages[d] # {} /\ IsFiniteSet(pages[d]) /\ Cardinality(pages[d]) \in Nat
    BY <1>2, Sizes DEF Owned, TypeOK
  <2>2. n_pages[d] # 0 /\ n_pages[d] \in Nat
    BY <2>1, FS_EmptySet DEF PagesPartitioned
  <2>3. QED
    BY <2>2 DEF Holders
<1>3. QED
  BY <1>1, <1>2

(* A call that reaches the lock is an Ask, one that returns at once a stutter.*)
LEMMA ReserveRefines ==
    ASSUME NEW c \in Cache, NEW n \in 1..(MaxSeqLen + 1), NEW w \in BOOLEAN,
           IInv, Reserve(c, n, w)
    PROVE  Allocator!Ask(c) \/ UNCHANGED Allocator!vars
<1> USE DEF IInv
<1>1. UNCHANGED <<pool, cache>> /\ pc[c] = "running" /\ WantPages(n) \in Nat
  BY WantPagesType DEF Reserve
<1>2. \A d \in Cache : Owned(d)' = Owned(d)
  BY <1>1 DEF Owned, cache
<1>3. CASE pc'[c] # "lock"
  <2>1. \A d \in Cache : InCall(d)' = InCall(d)
    BY <1>1, <1>3 DEF Reserve, InCall, TypeOK
  <2>2. UNCHANGED local
    BY <1>3 DEF Reserve, TypeOK
  <2>3. QED
    BY <1>1, <1>2, <2>1, <2>2, AllocatorStutter DEF pool, local
<1>4. CASE pc'[c] = "lock"
  <2>1. /\ need'[c] > 0
        /\ \A d \in Cache : d # c =>
             pc'[d] = pc[d] /\ need'[d] = need[d] /\ wait'[d] = wait[d]
    BY <1>1, <1>4 DEF Reserve, TypeOK
  <2>2. InCall(c)' /\ ~InCall(c) /\ \A d \in Cache : d # c => InCall(d)' = InCall(d)
    BY <1>1, <1>4, <2>1 DEF InCall
  <2>3. AskingMap[c] = 0 /\ AskingMap'[c] > 0
    BY <2>1, <2>2 DEF AskingMap
  <2>4. AskingMap' = [AskingMap EXCEPT ![c] = AskingMap'[c]]
    BY <2>1, <2>2 DEF AskingMap
  <2>5. PatientMap' = [PatientMap EXCEPT ![c] = PatientMap'[c]]
    BY <2>1, <2>2 DEF PatientMap
  <2>6. HeldMap' = HeldMap /\ free' = free
    BY <1>1, <1>2 DEF HeldMap, pool
  <2>7. QED
    BY <2>3, <2>4, <2>5, <2>6 DEF Allocator!Ask, AskingMap, PatientMap, HeldMap
<1>5. QED
  BY <1>3, <1>4

(* Both answers end the asking.                                            *)
LEMMA AnsweredRefines ==
    ASSUME NEW c \in Cache, InCall(c), ~InCall(c)',
           \A d \in Cache : d # c => /\ InCall(d)' = InCall(d)
                                     /\ need'[d] = need[d] /\ wait'[d] = wait[d]
    PROVE  Allocator!Answered(c)
<1>1. AskingMap' = [AskingMap EXCEPT ![c] = 0]
  BY DEF AskingMap
<1>2. PatientMap' = [PatientMap EXCEPT ![c] = FALSE]
  BY DEF PatientMap
<1>3. QED
  BY <1>1, <1>2 DEF Allocator!Answered, AskingMap, PatientMap

(* Pages popped under the lock are a Grant.                                *)
LEMMA GrantRefines ==
    ASSUME NEW c \in Cache, IInv, Grant(c) PROVE Allocator!Grant(c)
<1> USE DEF IInv
<1>1. PICK S \in SUBSET free :
         /\ Cardinality(S) = need[c]
         /\ free' = free \ S
         /\ taken' = [taken EXCEPT ![c] = S]
  BY DEF Grant
<1>2. /\ pc[c] = "lock" /\ pc'[c] = "mapping" /\ taken[c] = {} /\ need[c] > 0
      /\ UNCHANGED <<pages, local>>
      /\ \A d \in Cache : d # c => pc'[d] = pc[d]
  BY DEF Grant, TypeOK, LocalsSane, InCall
<1>3. Allocator!Answered(c)
  BY <1>2, AnsweredRefines DEF InCall, local
<1>4. HeldMap' = [HeldMap EXCEPT ![c] = HeldMap[c] \cup S]
  BY <1>1, <1>2 DEF HeldMap, Owned, TypeOK
<1>5. AskingMap[c] = need[c]
  BY <1>2 DEF AskingMap, InCall
<1>6. AskingMap[c] > 0
  BY <1>2, <1>5
<1>7. \E T \in SUBSET free :
         /\ Cardinality(T) = AskingMap[c]
         /\ free' = free \ T
         /\ HeldMap' = [HeldMap EXCEPT ![c] = @ \cup T]
  BY <1>1, <1>4, <1>5
<1>8. QED
  BY <1>3, <1>6, <1>7, SameCardinality, Zenon DEF Allocator!Grant, HeldMap, AskingMap

(* VV_ERR_KV_POOL_EXHAUSTED is a Refuse the allocator allows.              *)
LEMMA GiveUpRefines ==
    ASSUME NEW c \in Cache, IInv, GiveUp(c) PROVE Allocator!Refuse(c)
<1> USE DEF IInv
<1>1. /\ pc[c] = "lock" /\ pc'[c] = "failed" /\ n_free < need[c]
      /\ UNCHANGED <<free, cache>>
      /\ \A d \in Cache : d # c =>
            pc'[d] = pc[d] /\ need'[d] = need[d] /\ wait'[d] = wait[d]
  BY DEF GiveUp, Return, TypeOK
<1>2. Allocator!Answered(c)
  BY <1>1, AnsweredRefines DEF InCall
<1>3. HeldMap' = HeldMap /\ free' = free
  BY <1>1 DEF HeldMap, Owned, cache
<1>4. InCall(c) /\ AskingMap[c] = need[c] /\ AskingMap[c] > Cardinality(free)
  BY <1>1 DEF AskingMap, InCall, PagesPartitioned, TypeOK
<1>5. ASSUME wait[c], need[c] <= PoolPages
      PROVE  /\ HeldMap[c] # {}
             /\ \A d \in Cache \ {c} : HeldMap[d] # {} => AskingMap[d] > Cardinality(free)
  <2>1. Holds(c) /\ \A d \in Holders \ {c} : InCall(d) /\ n_free < need[d]
    BY <1>5, GiveUpJustified
  <2>2. pages[c] # {}
    BY <2>1, FS_EmptySet DEF Holds, PagesPartitioned
  <2>3. ASSUME NEW d \in Cache \ {c}, HeldMap[d] # {}
        PROVE  AskingMap[d] > Cardinality(free)
    <3>1. d \in Holders
      BY <2>3, OwnersHold DEF HeldMap
    <3>2. InCall(d) /\ n_free < need[d]
      BY <2>1, <2>3, <3>1
    <3>3. QED
      BY <3>2, <2>3 DEF AskingMap, PagesPartitioned, TypeOK
  <2>4. QED
    BY <2>2, <2>3 DEF HeldMap, Owned
<1>6. \/ ~PatientMap[c]
      \/ AskingMap[c] > Cardinality(Page)
      \/ /\ HeldMap[c] # {}
         /\ \A d \in Cache \ {c} : HeldMap[d] # {} => AskingMap[d] > Cardinality(free)
  <2>1. CASE ~wait[c]
    BY <2>1 DEF PatientMap
  <2>2. CASE need[c] > PoolPages
    BY <1>4, <2>2 DEF PoolPages
  <2>3. CASE wait[c] /\ ~(need[c] > PoolPages)
    <3>1. need[c] <= PoolPages
      BY <2>3, Sizes DEF TypeOK
    <3>2. QED
      BY <1>5, <2>3, <3>1
  <2>4. QED
    BY <2>1, <2>2, <2>3
<1>7. Allocator!MayRefuse(c)
  BY <1>6, SameCardinality, Zenon DEF Allocator!MayRefuse, Allocator!OthersStuck, HeldMap, AskingMap, PatientMap
<1>8. AskingMap[c] > Cardinality(free) /\ HeldMap' = HeldMap /\ free' = free
  BY <1>3, <1>4
<1>9. QED
  BY <1>2, <1>7, <1>8, SameCardinality, Zenon DEF Allocator!Refuse, HeldMap, AskingMap

(* Pages going back to the pool are a Return, whoever else wakes up.       *)
LEMMA ReturnRefines ==
    ASSUME NEW c \in Cache, IInv, NEW S \in SUBSET Owned(c),
           ~InCall(c), ~InCall(c)', free' = free \cup S, Owned(c)' = Owned(c) \ S,
           \A d \in Cache : d # c => /\ Owned(d)' = Owned(d) /\ InCall(d)' = InCall(d)
                                     /\ need'[d] = need[d] /\ wait'[d] = wait[d]
    PROVE  Allocator!Return(c)
<1>1. HeldMap' = [HeldMap EXCEPT ![c] = HeldMap[c] \ S]
  BY DEF HeldMap
<1>2. AskingMap' = AskingMap /\ PatientMap' = PatientMap /\ AskingMap[c] = 0
  BY DEF AskingMap, PatientMap
<1>3. HeldMap[c] = Owned(c)
  BY DEF HeldMap
<1>4. QED
  BY <1>1, <1>2, <1>3 DEF Allocator!Return, HeldMap, AskingMap, PatientMap

(* Every step is a step of the allocator, or a stutter.                    *)
LEMMA StepRefines ==
    ASSUME NEW c \in Cache, IInv, Step(c)
    PROVE  Allocator!Next \/ UNCHANGED Allocator!vars
<1> USE DEF IInv
<1>1. CASE Begin(c)
  <2>1. /\ \A d \in Cache : InCall(d)' = InCall(d) /\ Owned(d)' = Owned(d)
        /\ free' = free /\ UNCHANGED local
    BY <1>1 DEF Begin, InCall, Owned, TypeOK, pool
  <2>2. QED
    BY <2>1, AllocatorStutter DEF local
<1>2. ASSUME NEW n \in 1..(MaxSeqLen + 1), NEW w \in BOOLEAN, Reserve(c, n, w)
      PROVE  Allocator!Next \/ UNCHANGED Allocator!vars
  BY <1>2, ReserveRefines DEF Allocator!Next
<1>3. CASE Grant(c)
  BY <1>3, GrantRefines DEF Allocator!Next
<1>4. CASE GiveUp(c)
  BY <1>4, GiveUpRefines DEF Allocator!Next
<1>5. CASE Stall(c)
  <2>1. /\ \A d \in Cache : InCall(d)' = InCall(d) /\ Owned(d)' = Owned(d)
        /\ free' = free /\ UNCHANGED <<need, wait>>
    BY <1>5 DEF Stall, InCall, Owned, TypeOK, cache
  <2>2. QED
    BY <2>1, AllocatorStutter
<1>6. CASE SpuriousWake(c)
  <2>1. /\ \A d \in Cache : InCall(d)' = InCall(d) /\ Owned(d)' = Owned(d)
        /\ free' = free /\ UNCHANGED local
    BY <1>6 DEF SpuriousWake, InCall, Owned, TypeOK, pool, cache
  <2>2. QED
    BY <2>1, AllocatorStutter DEF local
<1>7. CASE MapOk(c)
  <2>1. /\ \A d \in Cache : InCall(d)' = InCall(d) /\ Owned(d)' = Owned(d)
        /\ free' = free
    BY <1>7 DEF MapOk, InCall, Owned, TypeOK, pool
  <2>2. \A d \in Cache : InCall(d) => need'[d] = need[d] /\ wait'[d] = wait[d]
    BY <1>7 DEF MapOk, Return, InCall, TypeOK
  <2>3. QED
    BY <2>1, <2>2, AllocatorStutter
<1>8. CASE MapFail(c)
  <2>1. ~InCall(c) /\ ~InCall(c)' /\ free' = free \cup taken[c]
    BY <1>8 DEF MapFail, PushBack, PagesReturn, WakeAll, InCall
  <2>2. taken[c] \subseteq Owned(c) /\ Owned(c)' = Owned(c) \ taken[c]
    BY <1>8 DEF MapFail, Owned, TypeOK, PagesPartitioned
  <2>3. \A d \in Cache : d # c =>
           /\ Owned(d)' = Owned(d) /\ InCall(d)' = InCall(d)
           /\ need'[d] = need[d] /\ wait'[d] = wait[d]
    BY <1>8 DEF MapFail, PagesReturn, WakeAll, Return, Owned, InCall, TypeOK
  <2>4. Allocator!Return(c)
    BY <2>1, <2>2, <2>3, ReturnRefines
  <2>5. QED
    BY <2>4 DEF Allocator!Next
<1>9. CASE Release(c)
  <2>1. CASE n_pages[c] = 0
    <3>1. /\ \A d \in Cache : InCall(d)' = InCall(d) /\ Owned(d)' = Owned(d)
          /\ free' = free /\ UNCHANGED local
      BY <1>9, <2>1 DEF Release, InCall, Owned, TypeOK, pool
    <3>2. QED
      BY <3>1, AllocatorStutter DEF local
  <2>2. CASE n_pages[c] > 0
    <3>1. ~InCall(c) /\ ~InCall(c)' /\ free' = free \cup pages[c] /\ taken[c] = {}
      BY <1>9, <2>2 DEF Release, PushBack, PagesReturn, WakeAll, InCall, LocalsSane
    <3>2. pages[c] \subseteq Owned(c) /\ Owned(c)' = Owned(c) \ pages[c]
      BY <1>9, <2>2, <3>1 DEF Release, Owned, TypeOK
    <3>3. \A d \in Cache : d # c =>
             /\ Owned(d)' = Owned(d) /\ InCall(d)' = InCall(d)
             /\ need'[d] = need[d] /\ wait'[d] = wait[d]
      BY <1>9, <2>2 DEF Release, PagesReturn, WakeAll, Owned, InCall, TypeOK, local
    <3>4. Allocator!Return(c)
      BY <3>1, <3>2, <3>3, ReturnRefines
    <3>5. QED
      BY <3>4 DEF Allocator!Next
  <2>3. QED
    BY <2>1, <2>2 DEF TypeOK
<1>10. QED
  BY <1>1, <1>2, <1>3, <1>4, <1>5, <1>6, <1>7, <1>8, <1>9 DEF Step

(* For any number of caches and pages, the counting scheme of kv_cache.c   *)
(* implements PageAllocator.                                               *)
THEOREM ImplementsAllocator == Spec => AllocatorSpec
<1>1. Init => Allocator!Init
  <2> SUFFICES ASSUME Init PROVE Allocator!Init
    OBVIOUS
  <2>1. \A c \in Cache : Owned(c) = {} /\ ~InCall(c)
    BY DEF Init, Owned, InCall
  <2>2. QED
    BY <2>1 DEF Init, Allocator!Init
<1>2. IInv /\ [Next]_vars => [Allocator!Next]_(Allocator!vars)
  <2>1. ASSUME IInv, NEW c \in Cache, Step(c)
        PROVE  [Allocator!Next]_(Allocator!vars)
    BY <2>1, StepRefines
  <2>2. ASSUME UNCHANGED vars PROVE UNCHANGED Allocator!vars
    BY <2>2, AllocatorStutter DEF vars, pool, cache, local, Owned, InCall
  <2>3. QED
    BY <2>1, <2>2 DEF Next
<1>3. QED
  BY <1>1, <1>2, Invariance, PTL DEF Spec, AllocatorSpec, Allocator!Spec
=============================================================================
