------------------------------- MODULE KvPool -------------------------------
(***************************************************************************)
(* The paged KV pool of src/inference/kv_cache.c: a stack of free pages    *)
(* shared by the slots' caches, handed out by reserve_pages and given back *)
(* by vv_kv_cache_release.  Each cache belongs to one slot thread, so a    *)
(* cache is also the thread that calls on it.                              *)
(*                                                                         *)
(* Everything between vv_mutex_lock and vv_mutex_unlock (or vv_cond_wait)  *)
(* is one step.  The device copy of the page ids (vv_kv_page_map_dev) runs *)
(* outside the lock and may fail, so it is a step of its own.              *)
(*                                                                         *)
(* The contents of the free stack and of a cache's page list are sets; the *)
(* code's counters n_free, n_pages, n_holders and n_stalled are kept beside*)
(* them, because every decision of the code is taken on the counters.      *)
(***************************************************************************)
EXTENDS Integers, FiniteSets

CONSTANTS Cache,       \* the caches created on the pool, one per slot
          Page,        \* the pool's pages
          PageSize,    \* VV_KV_PAGE_SIZE
          MaxSeqLen,   \* max_seq_len of every cache
          MaxCalls     \* bound: reserve calls in one behaviour

ASSUME KvPoolAssumption ==
    /\ IsFiniteSet(Cache)
    /\ IsFiniteSet(Page) /\ Page # {}
    /\ PageSize \in Nat \ {0}
    /\ MaxSeqLen \in Nat \ {0}
    /\ MaxCalls \in Nat

VARIABLES
    free, n_free,        \* the free stack and its height
    n_holders,           \* caches holding pages
    n_stalled,           \* holders blocked in reserve_wait
    stall_gen,           \* bumped whenever pages come back
    pages, n_pages,      \* per cache: the mapped pages and their number
    taken,               \* per cache: popped, not yet in the device table
    no_wait,             \* per cache: set by a live stream
    pc,                  \* per cache: where its thread is
    need, wait,          \* locals of reserve_pages
    counted, my_gen,     \*   ... "in n_stalled (as of stall_gen my_gen)"
    calls                \* reserve calls made so far

pool  == <<free, n_free, n_holders, n_stalled, stall_gen>>
cache == <<pages, n_pages, taken, no_wait>>
local == <<need, wait, counted, my_gen>>
vars  == <<pool, cache, local, pc, calls>>

PoolPages == Cardinality(Page)

(* "lock": in reserve_pages, at the pool's mutex; "sleep": in vv_cond_wait;*)
(* "mapping": past the unlock, copying page ids to the device; "full" and  *)
(* "failed": the last call returned VV_ERR_OVERFLOW, or another error.     *)
PC == {"idle", "running", "lock", "sleep", "mapping", "full", "failed"}

TypeOK ==
    /\ free \in SUBSET Page
    /\ n_free \in Nat /\ n_holders \in Nat /\ n_stalled \in Nat
    /\ stall_gen \in Nat
    /\ pages \in [Cache -> SUBSET Page]
    /\ taken \in [Cache -> SUBSET Page]
    /\ n_pages \in [Cache -> Nat]
    /\ no_wait \in [Cache -> BOOLEAN]
    /\ pc \in [Cache -> PC]
    /\ need \in [Cache -> Nat]
    /\ wait \in [Cache -> BOOLEAN]
    /\ counted \in [Cache -> BOOLEAN]
    /\ my_gen \in [Cache -> Nat]
    /\ calls \in 0..MaxCalls

Init ==
    /\ free = Page /\ n_free = PoolPages
    /\ n_holders = 0 /\ n_stalled = 0 /\ stall_gen = 0
    /\ pages = [c \in Cache |-> {}] /\ taken = [c \in Cache |-> {}]
    /\ n_pages = [c \in Cache |-> 0]
    /\ no_wait = [c \in Cache |-> FALSE]
    /\ pc = [c \in Cache |-> "idle"]
    /\ need = [c \in Cache |-> 0] /\ wait = [c \in Cache |-> FALSE]
    /\ counted = [c \in Cache |-> FALSE] /\ my_gen = [c \in Cache |-> 0]
    /\ calls = 0

-----------------------------------------------------------------------------
(* A request starts on the slot.  A live stream marks its cache no_wait    *)
(* (set_kv_no_wait); any other request leaves it waiting.                  *)
Begin(c) ==
    /\ pc[c] = "idle"
    /\ pc' = [pc EXCEPT ![c] = "running"]
    /\ \E b \in BOOLEAN : no_wait' = [no_wait EXCEPT ![c] = b]
    /\ UNCHANGED <<pool, pages, n_pages, taken, local, calls>>

WantPages(n) == (n + PageSize - 1) \div PageSize

(* reserve_pages up to vv_mutex_lock: the early returns and the locals.    *)
Reserve(c, n, w) ==
    /\ pc[c] = "running"
    /\ calls < MaxCalls
    /\ calls' = calls + 1
    /\ \/ /\ n > MaxSeqLen
          /\ pc' = [pc EXCEPT ![c] = "full"]
          /\ UNCHANGED local
       \/ /\ n <= MaxSeqLen
          /\ WantPages(n) <= n_pages[c]
          /\ UNCHANGED <<pc, local>>
       \/ /\ n <= MaxSeqLen
          /\ WantPages(n) > n_pages[c]
          /\ need' = [need EXCEPT ![c] = WantPages(n) - n_pages[c]]
          /\ wait' = [wait EXCEPT ![c] = w /\ ~no_wait[c]]
          /\ pc' = [pc EXCEPT ![c] = "lock"]
          /\ UNCHANGED <<counted, my_gen>>
    /\ UNCHANGED <<pool, cache>>

(* The call returns: its locals die (cleared, so that they never tell two  *)
(* states apart).                                                          *)
Return(c) ==
    /\ need' = [need EXCEPT ![c] = 0]
    /\ wait' = [wait EXCEPT ![c] = FALSE]
    /\ counted' = [counted EXCEPT ![c] = FALSE]
    /\ my_gen' = [my_gen EXCEPT ![c] = 0]

Bit(b) == IF b THEN 1 ELSE 0

Holds(c) == n_pages[c] > 0

(* `counted`, once a stale generation has been discounted.                 *)
CountedNow(c) == counted[c] /\ stall_gen = my_gen[c]

(* Other holders that are not waiting themselves.                          *)
Running(c) == (n_holders - Bit(Holds(c))) - (n_stalled - Bit(CountedNow(c)))

HopelessUnlessRunning(c) ==              \* mutant: no test for a deadlock
    \/ need[c] > PoolPages
    \/ ~Holds(c) /\ n_holders = 0

HopelessOffByOne(c) ==                   \* mutant: one running holder is none
    \/ need[c] > PoolPages
    \/ Holds(c) /\ Running(c) <= 1
    \/ ~Holds(c) /\ n_holders = 0

Hopeless(c) ==
    \/ need[c] > PoolPages
    \/ Holds(c) /\ Running(c) <= 0
    \/ ~Holds(c) /\ n_holders = 0

(* The wait loop ends with enough pages: leave n_stalled, become a holder, *)
(* pop the pages and unlock.                                               *)
Grant(c) ==
    /\ pc[c] = "lock"
    /\ n_free >= need[c]
    /\ n_stalled' = n_stalled - Bit(CountedNow(c))
    /\ n_holders' = n_holders + Bit(n_pages[c] = 0)
    /\ \E S \in SUBSET free :
         /\ Cardinality(S) = need[c]
         /\ free' = free \ S
         /\ taken' = [taken EXCEPT ![c] = S]
    /\ n_free' = n_free - need[c]
    /\ pc' = [pc EXCEPT ![c] = "mapping"]
    /\ UNCHANGED <<stall_gen, pages, n_pages, no_wait, local, calls>>

(* The wait loop gives up with VV_ERR_KV_POOL_EXHAUSTED.                   *)
GiveUp(c) ==
    /\ pc[c] = "lock"
    /\ n_free < need[c]
    /\ ~wait[c] \/ Hopeless(c)
    /\ n_stalled' = n_stalled - Bit(CountedNow(c))
    /\ pc' = [pc EXCEPT ![c] = "failed"]
    /\ Return(c)
    /\ UNCHANGED <<free, n_free, n_holders, stall_gen, cache, calls>>

(* The wait loop counts a holder as stalled and sleeps on `freed`.         *)
Stall(c) ==
    /\ pc[c] = "lock"
    /\ n_free < need[c]
    /\ wait[c] /\ ~Hopeless(c)
    /\ LET joins == Holds(c) /\ ~CountedNow(c)
       IN  /\ n_stalled' = n_stalled + Bit(joins)
           /\ counted' = [counted EXCEPT ![c] = CountedNow(c) \/ joins]
           /\ my_gen' = [my_gen EXCEPT ![c] = IF joins THEN stall_gen ELSE @]
    /\ pc' = [pc EXCEPT ![c] = "sleep"]
    /\ UNCHANGED <<free, n_free, n_holders, stall_gen, cache, need, wait,
                   calls>>

(* A condition variable may wake a thread nobody signalled.                *)
SpuriousWake(c) ==
    /\ pc[c] = "sleep"
    /\ pc' = [pc EXCEPT ![c] = "lock"]
    /\ UNCHANGED <<pool, cache, local, calls>>

(* k pages go back on the stack.                                           *)
PushBackShort(S, k) ==                   \* mutant: the last page is forgotten
    \E p \in S : free' = free \cup (S \ {p}) /\ n_free' = n_free + k - 1

PushBack(S, k) == free' = free \cup S /\ n_free' = n_free + k

WakeAll(c, next) ==
    pc' = [d \in Cache |-> IF d = c THEN next
                           ELSE IF pc[d] = "sleep" THEN "lock" ELSE pc[d]]

(* Pages came back: nobody counts as stalled any more, everybody asleep    *)
(* looks again, and c itself moves on to `next`.                           *)
PagesReturn(c, next) ==
    /\ n_stalled' = 0
    /\ stall_gen' = stall_gen + 1
    /\ WakeAll(c, next)

MapOk(c) ==
    /\ pc[c] = "mapping"
    /\ pages' = [pages EXCEPT ![c] = @ \cup taken[c]]
    /\ n_pages' = [n_pages EXCEPT ![c] = @ + need[c]]
    /\ taken' = [taken EXCEPT ![c] = {}]
    /\ pc' = [pc EXCEPT ![c] = "running"]
    /\ Return(c)
    /\ UNCHANGED <<pool, no_wait, calls>>

(* vv_kv_page_map_dev failed: push the pages back under the lock.          *)
MapFail(c) ==
    /\ pc[c] = "mapping"
    /\ PushBack(taken[c], need[c])
    /\ n_holders' = n_holders - Bit(n_pages[c] = 0)
    /\ PagesReturn(c, "failed")
    /\ taken' = [taken EXCEPT ![c] = {}]
    /\ Return(c)
    /\ UNCHANGED <<pages, n_pages, no_wait, calls>>

(* The request is over, well or badly: its slot gives every page back      *)
(* (vv_kv_cache_release, nothing to do when it holds none) and turns idle. *)
Release(c) ==
    /\ pc[c] \in {"running", "full", "failed"}
    /\ \/ /\ n_pages[c] = 0
          /\ pc' = [pc EXCEPT ![c] = "idle"]
          /\ UNCHANGED <<pool, pages, n_pages>>
       \/ /\ n_pages[c] > 0
          /\ PushBack(pages[c], n_pages[c])
          /\ n_holders' = n_holders - 1
          /\ PagesReturn(c, "idle")
          /\ pages' = [pages EXCEPT ![c] = {}]
          /\ n_pages' = [n_pages EXCEPT ![c] = 0]
    /\ no_wait' = [no_wait EXCEPT ![c] = FALSE]
    /\ UNCHANGED <<taken, local, calls>>

-----------------------------------------------------------------------------
Step(c) ==
    \/ Begin(c)
    \/ \E n \in 1..(MaxSeqLen + 1), w \in BOOLEAN : Reserve(c, n, w)
    \/ Grant(c) \/ GiveUp(c) \/ Stall(c) \/ SpuriousWake(c)
    \/ MapOk(c) \/ MapFail(c)
    \/ Release(c)

Next == \E c \in Cache : Step(c)

Spec == Init /\ [][Next]_vars

(* A thread at the mutex gets it, a device copy completes, and a request   *)
(* ends: its decode loop is bounded by max_new_tokens and the window.      *)
Fairness ==
    \A c \in Cache :
        /\ WF_vars(Grant(c) \/ GiveUp(c) \/ Stall(c))
        /\ WF_vars(MapOk(c) \/ MapFail(c))
        /\ WF_vars(Release(c))

FairSpec == Spec /\ Fairness

-----------------------------------------------------------------------------
(* Caches that own pages: mapped ones, or popped and being mapped.         *)
Holders == {c \in Cache : n_pages[c] > 0 \/ pc[c] = "mapping"}

(* In reserve_pages, before its answer.                                    *)
InCall(c) == pc[c] \in {"lock", "sleep"}

(* Caches counted as stalled in the current generation.                    *)
Stalled == {c \in Cache : InCall(c) /\ CountedNow(c)}

Owned(c) == pages[c] \cup taken[c]

(* No page is lost or owned twice: the free stack and the caches' pages    *)
(* partition the pool, also while a page map copy is in flight or has      *)
(* failed, and every height the code keeps counts the pages it stands for. *)
PagesPartitioned ==
    /\ free = {p \in Page : \A c \in Cache : p \notin Owned(c)}
    /\ \A c, d \in Cache : c # d => Owned(c) \cap Owned(d) = {}
    /\ \A c \in Cache : pages[c] \cap taken[c] = {}
    /\ n_free = Cardinality(free)
    /\ \A c \in Cache : n_pages[c] = Cardinality(pages[c])

(* The two counters the deadlock test is taken on are exact at every       *)
(* unlock: n_holders counts the caches that own pages, n_stalled those of  *)
(* them that looked since pages last came back, and each of these is still *)
(* short of what it asked for.                                             *)
CountersExact ==
    /\ n_holders = Cardinality(Holders)
    /\ n_stalled = Cardinality(Stalled)
    /\ \A c \in Stalled : c \in Holders /\ n_free < need[c]

(* What the locals of a call and the pages in transit say of each other.   *)
LocalsSane ==
    \A c \in Cache :
        /\ InCall(c) => need[c] > 0
        /\ pc[c] = "mapping" => Cardinality(taken[c]) = need[c] /\ need[c] > 0
        /\ pc[c] # "mapping" => taken[c] = {}
        /\ my_gen[c] <= stall_gen
        /\ counted[c] => n_pages[c] > 0 /\ (InCall(c) \/ pc[c] = "mapping")
        /\ pc[c] = "idle" => n_pages[c] = 0

(* The inductive invariant the proofs rest on: every page is free, in one  *)
(* table or on its way to one, and never two of these; and the counters    *)
(* the deadlock test reads are exact at every unlock (reserve_pages,       *)
(* release_pages).                                                         *)
IInv == TypeOK /\ PagesPartitioned /\ CountersExact /\ LocalsSane

(* A reservation that may wait fails only when waiting is useless: the pool*)
(* is smaller than the request, or the cache holds pages and every other   *)
(* holder is itself blocked on more than is free.  In particular a cache   *)
(* that holds nothing is never refused pages the pool could ever give it.  *)
NoFalseExhaustion ==
    [][\A c \in Cache :
          (pc[c] = "lock" /\ pc'[c] = "failed" /\ wait[c]) =>
              \/ need[c] > PoolPages
              \/ /\ Holds(c)
                 /\ \A d \in Holders \ {c} : InCall(d) /\ n_free < need[d]]_vars

(* Nobody hangs: every call of reserve_pages returns.                      *)
ReserveReturns ==
    \A c \in Cache : (pc[c] = "lock") ~> (pc[c] \in {"running", "failed"})

(* The pool implements the allocator it promises to be.                    *)
Allocator == INSTANCE PageAllocator WITH
    Client  <- Cache,
    avail   <- free,
    held    <- [c \in Cache |-> Owned(c)],
    asking  <- [c \in Cache |-> IF InCall(c) THEN need[c] ELSE 0],
    patient <- [c \in Cache |-> InCall(c) /\ wait[c]]

AllocatorSpec == Allocator!Spec
=============================================================================
