------------------------------ MODULE TextOut ------------------------------
(***************************************************************************)
(* What leaves the language model as text: the deltas of a stream          *)
(* (src/inference/stream.c), the text of a generation (pipeline.c), the    *)
(* choice of a token (sampling.c) and the segments of an answer            *)
(* (postprocess.c). Text is a sequence of bytes from a small alphabet: "2" *)
(* and "3" lead a character of two and of three bytes, "c" and "d" go on   *)
(* with one (only "d" may follow "3", as after E0), "R" is U+FFFD.         *)
(***************************************************************************)
EXTENDS Integers, Sequences, FiniteSetsExt, SequencesExt, Functions

CONSTANTS Strip,       \* k_strip: the control strings
          Stop         \* the caller's stop strings

From(s, n) == SubSeq(s, n + 1, Len(s))
Upto(s, n) == SubSeq(s, 1, Min({n, Len(s)}))
FirstOr(S, n) == Min(S \cup {n})
-----------------------------------------------------------------------------
(* utf8_seq: the length of the character s begins with, 0 when s may still *)
(* become one, -k when k bytes are one U+FFFD.                             *)
Follow(c) == CASE c = "2" -> <<{"c", "d"}>> [] c = "3" -> <<{"d"}, {"c", "d"}>> [] OTHER -> <<>>
utf8_seq(s) ==
  LET f == Follow(s[1])
      bad == {i \in DOMAIN f : i < Len(s) /\ s[i + 1] \notin f[i]}
  IN CASE s[1] \in {"c", "d"} -> -1
       [] bad # {} -> -Min(bad)
       [] Len(s) <= Len(f) -> 0
       [] OTHER -> Len(f) + 1

RECURSIVE decode_raw(_, _, _)
decode_raw(raw, text, final) ==
  IF raw = <<>> THEN [raw |-> raw, text |-> text]
  ELSE LET k == utf8_seq(raw)
       IN CASE k > 0 -> decode_raw(From(raw, k), text \o Upto(raw, k), final)
            [] k < 0 -> decode_raw(From(raw, -k), Append(text, "R"), final)
            [] OTHER -> [raw |-> IF final THEN <<>> ELSE raw, text |-> IF final THEN Append(text, "R") ELSE text]

(* release_text: control strings are removed; unless it is the end, a tail *)
(* that may grow into one is kept.                                         *)
IsStripPrefixShort(s) == \E p \in Strip : Len(s) < Len(p) - 1 /\ IsPrefix(s, p)
is_strip_prefix(s) == \E p \in Strip : Len(s) < Len(p) /\ IsPrefix(s, p)
Hits(s) == {Len(p) : p \in {q \in Strip : IsPrefix(q, s)}}
RECURSIVE release_text(_, _, _)
release_text(text, out, final) ==
  CASE text = <<>> -> [text |-> text, out |-> out]
    [] text # <<>> /\ Hits(text) # {} -> release_text(From(text, Min(Hits(text))), out, final)
    [] text # <<>> /\ Hits(text) = {} /\ text[1] = "<" /\ ~final /\ is_strip_prefix(text) -> [text |-> text, out |-> out]
    [] OTHER -> LET j == FirstOr({i \in 2..Len(text) : text[i] = "<"}, Len(text) + 1)
                IN release_text(From(text, j - 1), out \o Upto(text, j - 1), final)

(* text_step: vv_stream_text_push and, at the end, vv_stream_text_flush.   *)
text_step(t, bytes, final) ==
  LET d == decode_raw(t.raw \o bytes, t.text, final)
      r == release_text(d.text, <<>>, final)
  IN [raw |-> d.raw, text |-> r.text, out |-> t.out \o r.out, fed |-> t.fed \o bytes, done |-> final]
vv_stream_text_create == [raw |-> <<>>, text |-> <<>>, out |-> <<>>, fed |-> <<>>, done |-> FALSE]

(* What a reader of the whole text would release: the deltas joined are    *)
(* that, however tokens cut characters and control strings.                *)
DeltasAreWhole(t) ==
  /\ t.done => t.out = release_text(decode_raw(t.fed, <<>>, TRUE).text, <<>>, TRUE).out
  /\ decode_raw(t.out, <<>>, FALSE).raw = <<>>
-----------------------------------------------------------------------------
(* The loop of vv_inference_generate, from a token to on_text.             *)
(* utf8_complete: how much of s is whole characters, seen from its end.    *)
Need(c) == CASE c = "2" -> 2 [] c = "3" -> 3 [] OTHER -> 1
utf8_complete(s) ==
  LET backs == {b \in 1..Min({4, Len(s)}) : s[Len(s) - b + 1] \notin {"c", "d"}}
  IN IF backs = {} THEN Len(s)
     ELSE LET b == Min(backs) IN IF b >= Need(s[Len(s) - b + 1]) THEN Len(s) ELSE Len(s) - b
Ends(text, p) == Len(p) > 0 /\ IsSuffix(p, text)
stop_cut(text) == {Len(text) - Len(Stop[i]) : i \in {j \in DOMAIN Stop : Ends(text, Stop[j]) /\ \A k \in 1..(j - 1) : ~Ends(text, Stop[k])}}

Generation(max_new) == [pending |-> <<>>, text |-> <<>>, sent |-> <<>>, fed |-> <<>>, n |-> 0, max |-> max_new, reason |-> "none"]
Running(g) == g.reason = "none"

(* One generated token: its bytes wait until they are whole characters, a  *)
(* stop string ends the text, and what is new is sent (go: whether the     *)
(* client still listens).                                                  *)
Token(g, bytes, go) ==
  LET p == g.pending \o bytes
      whole == utf8_complete(p)
      text == g.text \o Upto(p, whole)
      next == [g EXCEPT !.pending = From(p, whole), !.text = text, !.n = @ + 1, !.fed = @ \o bytes]
      cut == stop_cut(text)
  IN CASE cut # {} -> [next EXCEPT !.text = Upto(text, Min(cut)), !.reason = IF next.n >= g.max THEN "length" ELSE "stop"]
       [] cut = {} /\ Len(text) > Len(g.sent) -> [next EXCEPT !.sent = @ \o From(text, Len(g.sent)), !.reason = IF go THEN @ ELSE "cancelled"]
       [] OTHER -> next
(* The loop ends at the cap or at one of the model's own stop tokens.      *)
Over(g) == [g EXCEPT !.reason = IF g.n >= g.max THEN "length" ELSE "stop"]

(* A client is sent whole characters (of valid text), and what it was sent *)
(* is the text, all of the bytes that are whole characters, until a stop   *)
(* string ends it: the text then ends in front of that string, and may end *)
(* before what was sent, when earlier tokens held the beginning of the     *)
(* string, or behind it, when the last token also held text in front of it *)
(* (stop_cut, utf8_complete, vv_inference_generate).                       *)
SentIsText(g) ==
  /\ "R" \notin Range(decode_raw(g.fed, <<>>, FALSE).text) => decode_raw(g.sent, <<>>, FALSE).raw = <<>>
  /\ \/ g.sent = g.text /\ g.text \o g.pending = g.fed /\ stop_cut(g.text) = {}
     \/ /\ ~Running(g) /\ IsPrefix(g.sent, g.fed)
        /\ \E i \in DOMAIN Stop :
             /\ g.text \o Stop[i] \o g.pending = g.fed
             /\ IsPrefix(g.sent, g.text) \/ \E n \in 1..(Len(Stop[i]) - 1) : g.sent = g.text \o Upto(Stop[i], n)
-----------------------------------------------------------------------------
(* vv_sample_topk and vv_sample_logits_f32: the k largest logits by        *)
(* insertion, descending in the first, ascending in the second.            *)
Inserted(s, pos, x) == Upto(s, pos - 1) \o <<x>> \o From(s, pos - 1)
RECURSIVE topk_loop(_, _, _, _)
topk_loop(logits, k, i, top) ==
  IF i > Len(logits) THEN top
  ELSE LET v == logits[i]
           pos == FirstOr({p \in DOMAIN top : v > top[p][1]}, Len(top) + 1)
       IN topk_loop(logits, k, i + 1, Upto(Inserted(top, pos, <<v, i>>), k))
Top(logits, k) == topk_loop(logits, k, 1, <<>>)

SlideShort(vals, v) == Cardinality({j \in 1..(Len(vals) - 1) : vals[j][1] < v})
Slide(vals, v) == Cardinality({j \in DOMAIN vals : vals[j][1] < v})
RECURSIVE keep_loop(_, _, _, _)
keep_loop(logits, k, i, vals) ==
  IF i > Len(logits) THEN vals
  ELSE LET v == logits[i]
           full == Len(vals) = k
           base == IF full THEN From(vals, 1) ELSE vals
       IN IF full /\ v <= vals[1][1] THEN keep_loop(logits, k, i + 1, vals)
          ELSE keep_loop(logits, k, i + 1, Inserted(base, Slide(base, v) + 1, <<v, i>>))
Kept(logits, k) == keep_loop(logits, Min({k, Len(logits)}), 1, <<>>)

(* The nucleus: from the most likely down to the mass p (in percent); a    *)
(* logit's weight stands for its exponential.                              *)
Weight(x) == 2 ^ x[1]
Mass(vals, i) == LET f[j \in i..(Len(vals) + 1)] == IF j > Len(vals) THEN 0 ELSE Weight(vals[j]) + f[j + 1] IN f[i]
Nucleus(vals, p) ==
  IF p \in 1..99 THEN LET ok == {i \in DOMAIN vals : 100 * Mass(vals, i) >= p * Mass(vals, 1)}
                          IN From(vals, (IF ok = {} THEN 1 ELSE Max(ok)) - 1)
  ELSE vals
(* The token drawn for a point r of the kept mass.                         *)
Drawn(vals, r) ==
  LET hit == {i \in DOMAIN vals : r <= Mass(vals, 1) - (Mass(vals, i) - Weight(vals[i]))}
  IN IF hit = {} THEN Last(vals)[2] ELSE vals[Min(hit)][2]

(* Both keep the k best, no token twice; the nucleus is the shortest list  *)
(* of best ones with the mass asked for; a drawn token is one of them.     *)
SamplesBest(logits, k, p) ==
  LET d == Top(logits, Min({k, Len(logits)}))
      a == Kept(logits, k)
      n == Nucleus(a, p)
      Ids(s) == {s[i][2] : i \in DOMAIN s}
      Best(s) == /\ Cardinality(Ids(s)) = Min({k, Len(logits)}) /\ Len(s) = Min({k, Len(logits)})
                 /\ \A i \in Ids(s), j \in (1..Len(logits)) \ Ids(s) : logits[i] >= logits[j]
                 /\ \A i \in DOMAIN s : s[i][1] = logits[s[i][2]]
  IN /\ Best(d) /\ Best(a)
     /\ \A i \in 1..(Len(a) - 1) : a[i][1] <= a[i + 1][1] /\ d[i][1] >= d[i + 1][1]
     /\ p \in 1..99 => 100 * Mass(n, 1) >= p * Mass(a, 1) /\ 100 * Mass(n, 2) < p * Mass(a, 1)
     /\ \A r \in 0..Mass(n, 1) : Drawn(n, r) \in Ids(n)
-----------------------------------------------------------------------------
(* An answer: brackets, "k" a member name with its colon, "q" a quote, "b" *)
(* a backslash, "t" any other character.                                   *)
(* extract_json: the outermost brackets; in a truncated answer up to the   *)
(* last closing brace, closed again. <<>> when there is nothing.           *)
Opens == {"[", "{"}
Closers == {"]", "}"}
RECURSIVE scan(_, _, _, _, _)
scan(s, i, depth, str, esc) ==
  IF i > Len(s) THEN [end |-> Len(s), depth |-> depth]
  ELSE LET c == s[i]
           d == IF str THEN depth ELSE IF c \in Opens THEN depth + 1 ELSE IF c \in Closers THEN depth - 1 ELSE depth
       IN CASE esc -> scan(s, i + 1, depth, str, FALSE)
            [] ~esc /\ c = "b" -> scan(s, i + 1, depth, str, TRUE)
            [] ~esc /\ c = "q" -> scan(s, i + 1, depth, ~str, FALSE)
            [] ~str /\ c \in Closers /\ d = 0 -> [end |-> i, depth |-> 0]
            [] OTHER -> scan(s, i + 1, d, str, FALSE)
extract_json(text) ==
  LET open == {i \in DOMAIN text : text[i] \in Opens}
      s == From(text, Min(open) - 1)
      r == scan(s, 1, 0, FALSE, FALSE)
      braces == {i \in DOMAIN s : s[i] = "}"}
  IN CASE open = {} -> <<>>
       [] open # {} /\ r.depth = 0 -> Upto(s, r.end)
       [] open # {} /\ r.depth # 0 /\ braces = {} -> <<>>
       [] OTHER -> Upto(s, Max(braces)) \o (IF s[1] = "[" THEN <<"]">> ELSE <<>>)

(* read_json_string, from the opening quote: what it holds and where it    *)
(* ends; the end of the text ends it too.                                  *)
RECURSIVE Unquoted(_, _, _)
Unquoted(s, i, out) ==
  CASE i > Len(s) -> [val |-> out, next |-> i, closed |-> FALSE]
    [] i <= Len(s) /\ s[i] = "q" -> [val |-> out, next |-> i + 1, closed |-> TRUE]
    [] i < Len(s) /\ s[i] = "b" -> Unquoted(s, i + 2, Append(out, s[i + 1]))
    [] OTHER -> Unquoted(s, i + 1, Append(out, s[i]))
ReadNoEscapes(s, i) ==
  LET e == FirstOr({j \in (i + 1)..Len(s) : s[j] = "q"}, Len(s) + 1)
  IN [val |-> SubSeq(s, i + 1, e - 1), next |-> e + 1, closed |-> e <= Len(s)]
read_json_string(s, i) == Unquoted(s, i + 1, <<>>)

(* cJSON_Parse on what such an answer may be: an array of objects with one *)
(* string member, or one object.                                           *)
RECURSIVE ParseObjects(_, _, _, _)
ParseObjects(s, i, array, got) ==
  LET v == Unquoted(s, i + 3, <<>>)
      good == i + 2 <= Len(s) /\ s[i] = "{" /\ s[i + 1] = "k" /\ s[i + 2] = "q"
      j == v.next + 1
  IN CASE ~good -> [ok |-> FALSE, got |-> <<>>]
       [] good /\ ~(v.closed /\ v.next <= Len(s) /\ s[v.next] = "}") -> [ok |-> FALSE, got |-> <<>>]
       [] ~array -> [ok |-> TRUE, got |-> Append(got, v.val)]
       [] j <= Len(s) /\ s[j] = "]" -> [ok |-> TRUE, got |-> Append(got, v.val)]
       [] j <= Len(s) /\ s[j] = "," -> ParseObjects(s, j + 1, array, Append(got, v.val))
       [] OTHER -> [ok |-> FALSE, got |-> <<>>]
cJSON_Parse(s) ==
  CASE s = <<>> -> [ok |-> FALSE, got |-> <<>>]
    [] s # <<>> /\ s[1] = "[" -> ParseObjects(s, 2, TRUE, <<>>)
    [] OTHER -> ParseObjects(s, 1, FALSE, <<>>)

(* recover_segments: from every brace to the next one, the string after    *)
(* the first member name.                                                  *)
RECURSIVE recover_segments(_, _, _)
recover_segments(s, p, got) ==
  LET at == {i \in DOMAIN s : i >= p /\ s[i] = "{"}
      open == Min(at)
      end == FirstOr({i \in DOMAIN s : i > open /\ s[i] = "{"}, Len(s) + 1)
      keys == {i \in open..(end - 1) : s[i] = "k"}
      v == Min(keys) + 1
  IN CASE at = {} -> got
       [] at # {} /\ keys # {} /\ v <= Len(s) /\ s[v] = "q" -> recover_segments(s, end, Append(got, read_json_string(s, v).val))
       [] OTHER -> recover_segments(s, open + 1, got)
vv_postprocess_text(text) ==
  LET json == cJSON_Parse(extract_json(text))
  IN IF json.ok THEN json.got ELSE recover_segments(text, 1, <<>>)

(* An answer that stops anywhere (the token budget) keeps every segment    *)
(* that was finished, in order and unchanged, and adds at most one, the    *)
(* beginning of the next.                                                  *)
RECURSIVE Written(_, _)
Written(strings, i) ==
  IF i > Len(strings) THEN <<"]">>
  ELSE (IF i = 1 THEN <<"[">> ELSE <<",">>) \o <<"{", "k", "q">> \o strings[i].as \o <<"q", "}">> \o Written(strings, i + 1)
AnswerKept(strings, n) ==
  LET text == Upto(Written(strings, 1), n)
      Done(i) == n >= Len(Written(Upto(strings, i), 1)) - 1
      whole == Max({i \in 0..Len(strings) : i = 0 \/ Done(i)})
      got == vv_postprocess_text(text)
  IN /\ Len(got) \in {whole, Min({whole + 1, Len(strings)})}
     /\ \A i \in 1..Min({whole, Len(got)}) : got[i] = strings[i].is
     /\ \A i \in (whole + 1)..Len(got) :
          \/ IsPrefix(got[i], strings[i].is)
          \/ Last(got[i]) = "b" /\ IsPrefix(Front(got[i]), strings[i].is)
=============================================================================
