----------------------------- MODULE Tokenizer ------------------------------
(***************************************************************************)
(* The tokenizer of src/src/tokenizer.cpp, and the decoder that prints its *)
(* tokens: a text is cut into runs of digits and of other bytes, each run  *)
(* of digits into threes, and in every piece the pair of neighbours whose  *)
(* concatenation is the token with the lowest id is merged, until no pair  *)
(* is a token.                                                             *)
(*                                                                         *)
(* A byte is a number, a text or a token's string a sequence of bytes.     *)
(* The ids of a vocabulary are its merge ranks, counted from 0.  The text  *)
(* is a C string: byte 0 does not occur in it, and the token for it is     *)
(* exported under a printable name, "<0x00>", that decode_piece turns      *)
(* into the byte.                                                          *)
(***************************************************************************)
EXTENDS Integers, SequencesExt

CONSTANT HexByte    \* parse_hex_byte_token: a function from the strings "<0xHH>"
                   \* of the vocabulary to the byte each stands for

IsDigit(byte) == byte \in 48 .. 57

(* compare_tokens: memcmp of the common length, then the shorter first. *)
Compare(s, u) ==
  LET differ == {k \in 1 .. Min({Len(s), Len(u)}) : s[k] # u[k]}
  IN  IF differ = {} THEN Len(s) - Len(u) ELSE s[Min(differ)] - u[Min(differ)]

(* read_tokenizer: the strings by id, the ids in the order of their        *)
(* strings, and which of them are special (a score of at most -1e29).      *)
ReadTokenizer(pieces, special) ==
  [pieces         |-> pieces,
   special        |-> special,
   maxTokenLength |-> Max({Len(pieces[k]) : k \in DOMAIN pieces}),
   sorted         |-> SetToSortSeq({k - 1 : k \in DOMAIN pieces},
                        LAMBDA i, j : Compare(pieces[i + 1], pieces[j + 1]) < 0)]

Piece(t, id) == t.pieces[id + 1]
VocabSize(t) == Len(t.pieces)

(* find_token_bytes: bsearch in the sorted vocabulary, -1 for no token. *)
FindToken(t, s) ==
  LET search[low \in 0 .. VocabSize(t), high \in 0 .. VocabSize(t)] ==
        LET middle == (low + high) \div 2
            order  == Compare(s, Piece(t, t.sorted[middle + 1]))
        IN  IF low >= high THEN -1
            ELSE IF order < 0 THEN search[low, middle]
            ELSE IF order > 0 THEN search[middle + 1, high]
            ELSE t.sorted[middle + 1]
  IN  search[0, VocabSize(t)]

(* Mutant: a special token may come out of a merge. *)
MergeRankOfAny(t, piece, parts, i) ==
  IF i + 2 > Len(parts) THEN VocabSize(t)
  ELSE LET id == FindToken(t, SubSeq(piece, parts[i] + 1, parts[i + 2]))
       IN  IF id < 0 THEN VocabSize(t) ELSE id

(* What is no token, or a special one, does not merge. *)
RankOfToken(t, id) == IF id < 0 \/ id \in t.special THEN VocabSize(t) ELSE id

(* get_merge_rank: the rank of merging parts i and i + 1, VocabSize (the   *)
(* code's RANK_MAX) when they do not merge.  parts holds the boundaries.   *)
MergeRank(t, piece, parts, i) ==
  IF \/ i + 2 > Len(parts)
     \/ parts[i + 2] - parts[i] > t.maxTokenLength
    THEN VocabSize(t)
    ELSE RankOfToken(t, FindToken(t, SubSeq(piece, parts[i] + 1, parts[i + 2])))

(* The first of the pairs with the lowest rank, 0 if nothing merges. *)
FirstLowest(rank, none) ==
  LET lowest == Min({rank[i] : i \in DOMAIN rank})
  IN  IF lowest = none THEN 0 ELSE Min({i \in DOMAIN rank : rank[i] = lowest})
BestPair(t, piece, parts) ==
  FirstLowest([i \in 1 .. Len(parts) |-> MergeRank(t, piece, parts, i)], VocabSize(t))

(* encode_piece_bytes_bpe.  A single byte is looked up as it is; what is   *)
(* no token becomes token 0.                                               *)
EncodePiece(t, piece) ==
  LET n == Len(piece)
      merged[k \in 0 .. n] ==
        IF k = 0 THEN [i \in 1 .. n + 1 |-> i - 1]
        ELSE LET parts == merged[k - 1]
                 best  == BestPair(t, piece, parts)
             IN  IF best = 0 THEN parts ELSE RemoveAt(parts, best + 1)
      parts  == IF n = 1 THEN <<0, 1>> ELSE merged[n]
      Id(i)  == FindToken(t, SubSeq(piece, parts[i] + 1, parts[i + 1]))
  IN  [i \in 1 .. Len(parts) - 1 |-> Max({Id(i), 0})]

(* The end of the run of bytes like the one at i: digits or no digits. *)
RunEnd(bytes, i) ==
  Min({j \in i + 1 .. Len(bytes) : IsDigit(bytes[j]) # IsDigit(bytes[i])}
        \cup {Len(bytes) + 1})

(* The end of the piece at i: at most three digits. *)
PieceEnd(bytes, i) ==
  IF IsDigit(bytes[i]) THEN Min({RunEnd(bytes, i), i + 3}) ELSE RunEnd(bytes, i)

(* Mutant: the capacity is not reduced by what is there already. *)
StoreWithoutOffset(written, ids, cap) ==
  [n   |-> written.n + Len(ids),
   out |-> written.out \o SubSeq(ids, 1, Min({Len(ids), cap}))]

(* What a piece's tokens add: n counts them all, out has room for cap. *)
Store(written, ids, cap) ==
  [n   |-> written.n + Len(ids),
   out |-> IF written.n < cap
             THEN written.out \o SubSeq(ids, 1, Min({Len(ids), cap - written.n}))
             ELSE written.out]

(* encode_with_simple_splits: at[i] is the position after i pieces and     *)
(* what is written by then.                                                *)
EncodeSplits(t, bytes, cap) ==
  LET at[i \in 0 .. Len(bytes)] ==
        IF i = 0 THEN [next |-> 1, written |-> [n |-> 0, out |-> << >>]]
        ELSE LET before == at[i - 1]
             IN  IF before.next > Len(bytes) THEN before
                 ELSE LET end == PieceEnd(bytes, before.next)
                      IN  [next    |-> end,
                           written |-> Store(before.written,
                             EncodePiece(t, SubSeq(bytes, before.next, end - 1)), cap)]
  IN  at[Len(bytes)].written

(* encode, as it is called: without begin and end tokens (-1). *)
Encode(t, bytes, maxTokens) ==
  IF maxTokens <= 0 THEN << >>
  ELSE LET written == EncodeSplits(t, bytes, maxTokens)
       IN  SubSeq(written.out, 1, Min({written.n, maxTokens}))

(* decode_piece, and the loop of decode.cpp over the tokens of a line. *)
DecodePiece(t, id) ==
  IF id \notin 0 .. VocabSize(t) - 1 THEN << >>
  ELSE IF Piece(t, id) \in DOMAIN HexByte THEN <<HexByte[Piece(t, id)]>>
  ELSE Piece(t, id)
Decode(t, ids) == FlattenSeq([k \in DOMAIN ids |-> DecodePiece(t, ids[k])])
=============================================================================
