----------------------------- MODULE MCChunking -----------------------------
(* Documents of up to four sentences in up to four paragraphs: blank, of a
   mark only, or of up to five words. *)
EXTENDS Chunking

\* A kind is a number of words, or -1 for a blank sentence.
Kinds == {-1, 0, 1, 2, 5}

Sentence(first, kind) ==
    CASE kind = -1 -> << >>
      [] kind = 0 -> <<0>>
      [] OTHER -> [i \in 1 .. kind |-> first + i]

WordsOf(kind) == Greatest(kind, 0)

Numbered(kinds) ==
    [i \in DOMAIN kinds |->
        Sentence(FoldLeft(LAMBDA n, k : n + WordsOf(k), 0, SubSeq(kinds, 1, i - 1)), kinds[i])]

Cut(s, starts) ==
    IF s = << >> THEN << >>
    ELSE LET first == SetToSortSeq({1} \cup (starts \cap 1 .. Len(s)), <)
         IN  [p \in DOMAIN first |->
                 SubSeq(s, first[p], IF p = Len(first) THEN Len(s) ELSE first[p + 1] - 1)]

MCDocuments ==
    {Cut(Numbered(kinds), starts) : kinds \in UNION {[1 .. n -> Kinds] : n \in 1 .. 4},
                                    starts \in SUBSET {2, 3, 4}}
=============================================================================
