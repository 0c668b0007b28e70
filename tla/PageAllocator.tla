--------------------------- MODULE PageAllocator ---------------------------
(***************************************************************************)
(* What the shared KV pool promises its users, without saying how: pages   *)
(* have one owner at a time, a request is granted whole or not at all, and *)
(* a patient request is refused only when waiting could never help.  KvPool*)
(* (the counting scheme of kv_cache.c) is shown to implement this module.  *)
(***************************************************************************)
EXTENDS Integers, FiniteSets

CONSTANTS Client,    \* the caches that share the pool
          Page       \* the pages of the pool

VARIABLES avail,     \* pages nobody owns
          held,      \* held[c]: pages client c owns
          asking,    \* asking[c]: pages c is blocked on, 0 when it is not
          patient    \* patient[c]: it would rather wait than fail

vars == <<avail, held, asking, patient>>

Init ==
    /\ avail = Page
    /\ held = [c \in Client |-> {}]
    /\ asking = [c \in Client |-> 0]
    /\ patient = [c \in Client |-> FALSE]

Ask(c) ==
    /\ asking[c] = 0
    /\ asking'[c] > 0
    /\ asking' = [asking EXCEPT ![c] = asking'[c]]
    /\ patient' = [patient EXCEPT ![c] = patient'[c]]
    /\ UNCHANGED <<avail, held>>

Answered(c) ==
    /\ asking' = [asking EXCEPT ![c] = 0]
    /\ patient' = [patient EXCEPT ![c] = FALSE]

Grant(c) ==
    /\ asking[c] > 0
    /\ \E S \in SUBSET avail :
         /\ Cardinality(S) = asking[c]
         /\ avail' = avail \ S
         /\ held' = [held EXCEPT ![c] = @ \cup S]
    /\ Answered(c)

(* Nobody who owns pages can return any: each such client is blocked, and  *)
(* on more than is available.                                              *)
OthersStuck(c) ==
    \A d \in Client \ {c} : held[d] # {} => asking[d] > Cardinality(avail)

(* A request that does not wait may be refused when the pool is short.  One*)
(* that waits is refused only when it could never be granted: it is larger *)
(* than the pool, or it owns pages itself and every other owner is stuck.  *)
MayRefuse(c) ==
    \/ ~patient[c]
    \/ asking[c] > Cardinality(Page)
    \/ held[c] # {} /\ OthersStuck(c)

Refuse(c) ==
    /\ asking[c] > Cardinality(avail)
    /\ MayRefuse(c)
    /\ Answered(c)
    /\ UNCHANGED <<avail, held>>

Return(c) ==
    /\ asking[c] = 0
    /\ \E S \in SUBSET held[c] :
         /\ avail' = avail \cup S
         /\ held' = [held EXCEPT ![c] = @ \ S]
    /\ UNCHANGED <<asking, patient>>

Next == \E c \in Client : Ask(c) \/ Grant(c) \/ Refuse(c) \/ Return(c)

Spec == Init /\ [][Next]_vars
=============================================================================
