-------------------------- MODULE ChunkedProtocol --------------------------
(***************************************************************************)
(* What a streaming session promises, without buffers, batches or folded   *)
(* tokens: one window after another, each prefilled as                     *)
(*     start, the window's features, end                                   *)
(* on top of the same cache, its tokens fed one by one, then one chunk-end *)
(* token; the text shown is the tokens' text in order.                     *)
(*                                                                         *)
(* Sample k of the audio is the number k (from 1), 0 is padding.  Token k  *)
(* of the session is the number k, and so is its text.                     *)
(***************************************************************************)
EXTENDS Naturals, Sequences

CONSTANTS Chunk, Lookahead, PromptLen, MaxNew

VARIABLES total,    \* samples received
          over,     \* no more will come
          cache,    \* what the model has been fed
          chunks,   \* windows done
          busy,     \* a window's tokens are being decoded
          fed,      \* tokens fed for this window
          toks,     \* tokens fed in all
          shown,    \* text handed to the caller
          status

vars == <<total, over, cache, chunks, busy, fed, toks, shown, status>>

Window == Chunk + Lookahead

Row(kind, v) == [kind |-> kind, v |-> v]
Rows(kind, v, n) == [i \in 1..n |-> Row(kind, v)]

Iota(n) == [i \in 1..n |-> i]

WindowAt(i) ==
    [j \in 1..Window |-> IF i * Chunk + j <= total THEN i * Chunk + j ELSE 0]

Available(i) == IF over THEN i * Chunk < total
                        ELSE i * Chunk + Window <= total

Fresh ==
    /\ total = 0 /\ over = FALSE
    /\ cache = << >> /\ chunks = 0
    /\ busy = FALSE /\ fed = 0 /\ toks = 0 /\ shown = << >>

Init == Fresh /\ status = "closed"

Open ==
    /\ status = "closed"
    /\ status' = "live"
    /\ cache' = Rows("prompt", << >>, PromptLen)
    /\ UNCHANGED <<total, over, chunks, busy, fed, toks, shown>>

Receive ==
    /\ status = "live" /\ ~over /\ ~busy
    /\ total' \in Nat /\ total' >= total
    /\ UNCHANGED <<over, cache, chunks, busy, fed, toks, shown, status>>

NoMore ==
    /\ status = "live" /\ ~busy
    /\ over' = TRUE
    /\ UNCHANGED <<total, cache, chunks, busy, fed, toks, shown, status>>

Begin ==
    /\ status = "live" /\ ~busy /\ Available(chunks)
    /\ cache' = cache \o <<Row("start", << >>)>>
                      \o Rows("feature", WindowAt(chunks), Window)
                      \o <<Row("end", << >>)>>
    /\ busy' = TRUE
    /\ UNCHANGED <<total, over, chunks, fed, toks, shown, status>>

Show ==
    /\ status = "live" /\ busy
    /\ \E n \in Len(shown)..(toks + 1) : shown' = Iota(n)
    /\ UNCHANGED <<total, over, cache, chunks, busy, fed, toks, status>>

Feed ==
    /\ status = "live" /\ busy /\ fed < MaxNew
    /\ cache' = Append(cache, Row("token", <<toks + 1>>))
    /\ fed' = fed + 1 /\ toks' = toks + 1
    /\ UNCHANGED <<total, over, chunks, busy, shown, status>>

End ==
    /\ status = "live" /\ busy
    /\ cache' = Append(cache, Row("chunk_end", << >>))
    /\ shown' = Iota(toks)
    /\ chunks' = chunks + 1 /\ busy' = FALSE /\ fed' = 0
    /\ UNCHANGED <<total, over, toks, status>>

(* Done only when no window is left.                                       *)
Finish ==
    /\ status = "live" /\ over /\ ~busy /\ ~Available(chunks)
    /\ status' = "done"
    /\ UNCHANGED <<total, over, cache, chunks, busy, fed, toks, shown>>

(* The cache of a session that failed is promised to nobody.               *)
Stop ==
    /\ status = "live"
    /\ status' \in {"error", "cancelled"}
    /\ cache' = << >> /\ chunks' = 0
    /\ busy' = FALSE /\ fed' = 0 /\ toks' = 0
    /\ UNCHANGED <<total, over, shown>>

Close == Fresh' /\ status' = "closed"

Next ==
    \/ Open \/ Receive \/ NoMore \/ Begin \/ Show \/ Feed \/ End
    \/ Finish \/ Stop \/ Close

Spec == Init /\ [][Next]_vars
=============================================================================
