------------------------------ MODULE Tokenizer ------------------------------
(***************************************************************************)
(* The byte-level BPE tokenizer of src/text_tokenizer/bpe.c, between bytes *)
(* and tokens.  A text is a sequence of bytes; a token of the vocabulary   *)
(* is the sequence of its code points in the byte-level alphabet, an added *)
(* token the bytes it stands for.  Ids are the tokens themselves: the hash *)
(* tables that find one from the other are lookups here.                   *)
(***************************************************************************)
EXTENDS Integers, Sequences, FiniteSets, SequencesExt

CONSTANTS
    ByteLevel,      \* the tables bytelevel_build leaves, once
    Merges,         \* model.merges: pairs of tokens, in the order of their rank
    AddedTokens     \* added_tokens, in file order: [str, special]

-----------------------------------------------------------------------------
(* The byte-level alphabet, and UTF-8.                                     *)
printable(b) == b \in 33..126 \/ b \in 161..172 \/ b \in 174..255

\* Unprintable bytes take the code points from 256 on, in order.
bytelevel_build ==
  LET n == [b \in 0..255 |-> Cardinality({c \in 0..b - 1 : ~printable(c)})]
      to == <<>> \o [i \in 1..256 |-> IF printable(i - 1) THEN i - 1 ELSE 256 + n[i - 1]]
  IN [to_cp |-> to,
      to_byte |-> <<>> \o [k \in 1..324 |-> IF \E i \in 1..256 : to[i] = k - 1 THEN (CHOOSE i \in 1..256 : to[i] = k - 1) - 1 ELSE -1]]
g_byte_to_cp(b) == ByteLevel.to_cp[b + 1]
g_cp_to_byte(cp) == ByteLevel.to_byte[cp + 1]

\* The code point at the front and the bytes it takes; a byte that starts no
\* sequence, or whose sequence is cut, counts alone.
utf8_get(s) ==
  LET c == s[1]
      More(n, lead) == IF Len(s) < n THEN [cp |-> c, n |-> 1]
                       ELSE [cp |-> FoldLeft(LAMBDA acc, i : acc * 64 + (s[i] % 64), c % lead, [k \in 1..n - 1 |-> k + 1]), n |-> n]
  IN CASE c \in 192..223 -> More(2, 32)
       [] c \in 224..239 -> More(3, 16)
       [] c \in 240..247 -> More(4, 8)
       [] OTHER -> [cp |-> c, n |-> 1]

Newlines == {10, 13}
Within(c, ranges) == \E r \in ranges : r[1] <= c /\ c <= r[2]
cp_is_space(c) ==
  c \in {32, 9, 10, 13, 11, 12, 133, 160, 5760, 8232, 8233, 8239, 8287, 12288} \/ Within(c, {<<8192, 8202>>})
cp_is_digit(c) ==
  c \in {178, 179, 185} \/ Within(c, {<<48, 57>>, <<188, 190>>, <<1632, 1641>>, <<1776, 1785>>, <<2406, 2415>>,
                                      <<2534, 2543>>, <<3664, 3673>>, <<65296, 65305>>})
cp_is_sym(c) ==
  \/ c < 128 /\ ~Within(c, {<<97, 122>>, <<65, 90>>})
  \/ c \in {215, 247} \/ c >= 65520
  \/ Within(c, {<<160, 191>>, <<8192, 11263>>, <<12288, 12351>>, <<65024, 65135>>, <<65280, 65295>>,
                <<65306, 65312>>, <<65339, 65344>>, <<65371, 65381>>})
cp_is_letter(c) == ~cp_is_space(c) /\ ~cp_is_digit(c) /\ ~cp_is_sym(c)
-----------------------------------------------------------------------------
(* The split regex, walked over the bytes.                                 *)
From(s, p) == SubSeq(s, p + 1, Len(s))

Is(kind, c) ==
  CASE kind = "letter" -> cp_is_letter(c)
    [] kind = "space" -> cp_is_space(c)
    [] kind = "newline" -> c \in Newlines
    [] kind = "mark" -> ~cp_is_space(c) /\ ~cp_is_letter(c) /\ ~cp_is_digit(c)

\* Where the code points from p on stop being of a kind.
RECURSIVE Run(_, _, _)
Run(s, p, kind) ==
  IF p >= Len(s) THEN p
  ELSE LET u == utf8_get(From(s, p)) IN IF Is(kind, u.cp) THEN Run(s, p + u.n, kind) ELSE p

Lower(b) == IF (b \div 32) % 2 = 0 THEN b + 32 ELSE b
Contraction(s) ==
  IF Len(s) >= 2 /\ s[1] = 39
  THEN LET c1 == Lower(s[2]) IN
       IF c1 \in {115, 116, 109, 100} THEN 2
       ELSE IF Len(s) >= 3 /\ <<c1, Lower(s[3])>> \in {<<114, 101>>, <<118, 101>>, <<108, 108>>} THEN 3 ELSE 0
  ELSE 0

Word(s, u) ==
  LET p == IF u.cp \notin Newlines /\ ~cp_is_letter(u.cp) /\ ~cp_is_digit(u.cp) THEN u.n ELSE 0
      Some(q) == IF q > p THEN q ELSE 0
  IN Some(Run(s, p, "letter"))

Marks(s, u) ==
  LET p == IF u.cp = 32 THEN 1 ELSE 0
      Some(q) == IF q > p THEN Run(s, q, "newline") ELSE 0
  IN Some(Run(s, p, "mark"))

\* In bytes: the last space goes to the next piece when a non-space follows.
Blank(s, end) ==
  LET nls == {i \in 1..end : s[i] \in Newlines}
  IN CASE nls # {} -> CHOOSE i \in nls : \A j \in nls : j <= i
       [] nls = {} /\ end < Len(s) /\ end >= 2 -> end - 1
       [] OTHER -> end

\* The first rule that takes something.
OrElse(n, otherwise) == IF n > 0 THEN n ELSE otherwise
Piece(s, u) ==
  OrElse(Contraction(s), OrElse(Word(s, u),
    IF cp_is_digit(u.cp) THEN u.n
    ELSE OrElse(Marks(s, u), IF cp_is_space(u.cp) THEN Blank(s, Run(s, 0, "space")) ELSE u.n)))
next_piece(s) == Piece(s, utf8_get(s))

\* encode_text_run cuts a run into pieces and encodes each.
RECURSIVE Pieces(_)
Pieces(s) == IF s = <<>> THEN <<>> ELSE LET n == next_piece(s) IN <<SubSeq(s, 1, n)>> \o Pieces(From(s, n))
-----------------------------------------------------------------------------
(* Merging: the adjacent pair of the lowest rank, the leftmost of equals,  *)
(* until no pair has one.                                                  *)
Symbols(piece) == [i \in DOMAIN piece |-> <<g_byte_to_cp(piece[i])>>]
merge_rank(a, b) == IF \E r \in DOMAIN Merges : Merges[r] = <<a, b>> THEN CHOOSE r \in DOMAIN Merges : Merges[r] = <<a, b>> ELSE 0

Merge(sym, i) == SubSeq(sym, 1, i - 1) \o <<sym[i] \o sym[i + 1]>> \o SubSeq(sym, i + 2, Len(sym))
Pairs(sym) == {i \in 1..Len(sym) - 1 : merge_rank(sym[i], sym[i + 1]) > 0}

LastOfEquals(sym) ==
  CHOOSE i \in Pairs(sym) : \A j \in Pairs(sym) :
    LET ri == merge_rank(sym[i], sym[i + 1]) rj == merge_rank(sym[j], sym[j + 1]) IN ri < rj \/ (ri = rj /\ i >= j)
best_i(sym) ==
  CHOOSE i \in Pairs(sym) : \A j \in Pairs(sym) :
    LET ri == merge_rank(sym[i], sym[i + 1]) rj == merge_rank(sym[j], sym[j + 1]) IN ri < rj \/ (ri = rj /\ i <= j)

RECURSIVE MergeAll(_)
MergeAll(sym) == IF Pairs(sym) = {} THEN sym ELSE MergeAll(Merge(sym, best_i(sym)))

InVocab(x) == Len(x) = 1 \/ \E r \in DOMAIN Merges : x = Merges[r][1] \o Merges[r][2]
Id(token) == [added |-> FALSE, token |-> token]
bpe_piece(piece) ==
  LET sym == SelectSeq(MergeAll(Symbols(piece)), InVocab) IN [i \in DOMAIN sym |-> Id(sym[i])]
encode_text_run(s) == LET ps == Pieces(s) IN FlattenSeq([i \in DOMAIN ps |-> bpe_piece(ps[i])])
-----------------------------------------------------------------------------
\* Added tokens longest first, so that overlapping literals match greedily.
Insert(sorted, e) ==
  LET at == {k \in DOMAIN sorted : Len(sorted[k].str) < Len(e.str)}
      j == IF at = {} THEN Len(sorted) + 1 ELSE CHOOSE k \in at : \A m \in at : k <= m
  IN SubSeq(sorted, 1, j - 1) \o <<e>> \o SubSeq(sorted, j, Len(sorted))
sentry == FoldLeft(Insert, <<>>, AddedTokens)

Hits(s) == IF s # <<>> /\ s[1] = 60 THEN {i \in DOMAIN sentry : IsPrefix(sentry[i].str, s)} ELSE {}

\* run: the text since the last added token.
RECURSIVE EncodeFrom(_, _)
EncodeFrom(run, s) ==
  IF s = <<>> THEN encode_text_run(run)
  ELSE IF Hits(s) = {} THEN EncodeFrom(Append(run, s[1]), Tail(s))
  ELSE LET hit == sentry[CHOOSE i \in Hits(s) : \A j \in Hits(s) : i <= j]
       IN encode_text_run(run) \o <<[added |-> TRUE, token |-> hit.str]>> \o EncodeFrom(<<>>, From(s, Len(hit.str)))
vv_tokenizer_encode(text) == EncodeFrom(<<>>, text)

IsSpecial(str) == \E i \in DOMAIN sentry : sentry[i].str = str /\ sentry[i].special
decode_write(ids, skip_special) ==
  FlattenSeq([i \in DOMAIN ids |->
    IF ids[i].added THEN IF skip_special /\ IsSpecial(ids[i].token) THEN <<>> ELSE ids[i].token
    ELSE [k \in DOMAIN ids[i].token |-> g_cp_to_byte(ids[i].token[k])]])

decode_bound(ids) ==
  FoldLeft(LAMBDA n, id : n + FoldLeft(LAMBDA m, cp : m + IF id.added \/ cp < 128 THEN 1 ELSE 2, 0, id.token), 0, ids)
-----------------------------------------------------------------------------
(* References: the regex of the checkpoint over characters, each           *)
(* alternative by what it may match, and BPE as the papers state it, every *)
(* occurrence of the best pair at once.                                    *)
RECURSIVE Chars(_)
Chars(s) == IF s = <<>> THEN <<>> ELSE LET u == utf8_get(s) IN <<[cp |-> u.cp, n |-> u.n]>> \o Chars(From(s, u.n))

AllIn(cs, lo, hi, kind) == \A i \in lo..hi : Is(kind, cs[i].cp)
Matches(cs) ==
  LET L == Len(cs)
      low(i) == Lower(cs[i].cp)
  IN << {n \in 2..3 : n <= L /\ cs[1].cp = 39 /\
           IF n = 2 THEN low(2) \in {115, 116, 109, 100} ELSE <<low(2), low(3)>> \in {<<114, 101>>, <<118, 101>>, <<108, 108>>}},
        {n \in 1..L : \/ AllIn(cs, 1, n, "letter")
                      \/ n > 1 /\ cs[1].cp \notin Newlines /\ ~cp_is_letter(cs[1].cp) /\ ~cp_is_digit(cs[1].cp) /\ AllIn(cs, 2, n, "letter")},
        {n \in 1..1 : cp_is_digit(cs[1].cp)},
        {n \in 1..L : \E p \in 0..1, m \in 1..n : /\ m > p /\ (p = 1 => cs[1].cp = 32)
                                                 /\ AllIn(cs, p + 1, m, "mark") /\ AllIn(cs, m + 1, n, "newline")},
        {n \in 1..L : AllIn(cs, 1, n, "space") /\ cs[n].cp \in Newlines},
        {n \in 1..L : AllIn(cs, 1, n, "space") /\ (n = L \/ cp_is_space(cs[n + 1].cp))},
        {n \in 1..L : AllIn(cs, 1, n, "space")} >>
Longest(S) == CHOOSE n \in S : \A m \in S : m <= n
FirstToMatch(m) == Longest(m[CHOOSE i \in DOMAIN m : m[i] # {} /\ \A j \in 1..i - 1 : m[j] = {}])
RegexPiece(cs) == FirstToMatch(Matches(cs))
BytesOf(cs, n) == FoldLeft(LAMBDA acc, c : acc + c.n, 0, SubSeq(cs, 1, n))
RECURSIVE RegexSplit(_)
RegexSplit(s) ==
  IF s = <<>> THEN <<>>
  ELSE LET n == BytesOf(Chars(s), RegexPiece(Chars(s))) IN <<SubSeq(s, 1, n)>> \o RegexSplit(From(s, n))

RECURSIVE EachOnce(_, _)
EachOnce(sym, r) ==
  IF Len(sym) < 2 THEN sym
  ELSE IF <<sym[1], sym[2]>> = Merges[r] THEN <<sym[1] \o sym[2]>> \o EachOnce(SubSeq(sym, 3, Len(sym)), r)
  ELSE <<sym[1]>> \o EachOnce(Tail(sym), r)
Bpe(piece) == FoldLeft(EachOnce, Symbols(piece), [r \in DOMAIN Merges |-> r])

\* The runs of text between the added tokens of an encoding.
Plain(ids) == SelectSeq(ids, LAMBDA x : ~x.added)

\* Encoding loses nothing (the bytes come back, without the special tokens
\* where they are skipped, within the bound the caller sized its buffer by),
\* and a text without added tokens is cut where the checkpoint's regex cuts
\* it and merged as its merges say. ids is what the encoding gave.
TokensAreText(text, ids) ==
  /\ decode_write(ids, FALSE) = text
  /\ decode_write(ids, TRUE) = decode_write(SelectSeq(ids, LAMBDA x : ~(x.added /\ IsSpecial(x.token))), FALSE)
  /\ Len(decode_write(ids, FALSE)) <= decode_bound(ids)
  /\ \A i \in DOMAIN text : Hits(From(text, i - 1)) # {} => \E k \in DOMAIN ids : ids[k].added
  /\ Plain(ids) = ids =>
       /\ Pieces(text) = RegexSplit(text)
       /\ [i \in DOMAIN ids |-> ids[i].token] = LET ps == Pieces(text) IN FlattenSeq([i \in DOMAIN ps |-> Bpe(ps[i])])
=============================================================================
