------------------------------ MODULE Chunking ------------------------------
(***************************************************************************)
(* chunk_for_model: splitting a document into overlapping chunks for a     *)
(* model with a token cap (src/src/semantic/chunk.rs).                     *)
(*                                                                         *)
(* A text is a sequence of items: a word of the document is its number in  *)
(* reading order, and 0 is any text that is not a word.  A sentence is a   *)
(* text, a blank one is empty.  A paragraph is a sequence of sentences and *)
(* a document one of paragraphs.  Whitespace is left out, so trimming is.  *)
(***************************************************************************)
EXTENDS Integers, Sequences, SequencesExt

CONSTANTS
    Documents,  \* documents the callers chunk
    MaxTokens,  \* values of strategy.max_tokens
    Overlaps    \* values of strategy.overlap

ASSUME ChunkingAssumption ==
    /\ Documents \subseteq Seq(Seq(Seq(Nat)))
    /\ MaxTokens \subseteq Nat
    /\ Overlaps \subseteq Nat

Modes == {"FixedTokens", "SentenceBounded", "Recursive"}

Least(a, b) == IF a < b THEN a ELSE b
Greatest(a, b) == IF a > b THEN a ELSE b

IsWord(item) == item > 0
Words(text) ==
    LET words[i \in 0 .. Len(text)] ==
            IF i = 0 THEN << >>
            ELSE IF IsWord(text[i]) THEN Append(words[i - 1], text[i])
            ELSE words[i - 1]
    IN  words[Len(text)]

\* The words of a document are numbered in reading order.
ASSUME NumberingAssumption ==
    \A d \in Documents :
        LET words == Words(FlattenSeq(FlattenSeq(d))) IN \A i \in DOMAIN words : words[i] = i

\* ceil(1.3 * words) and floor(tokens / 1.3).
ApproxTokens(words) == (13 * words + 9) \div 10
WordsFor(tokens) == (10 * tokens) \div 13

Tokens(text) == ApproxTokens(Len(Words(text)))

MaxWords(s) == Greatest(WordsFor(s.max_tokens), 1)

-----------------------------------------------------------------------------
\* Windows of MaxWords words, each stride words behind the one before, up to
\* the first that reaches the last word.
FixedChunks(text, s) ==
    LET words == Words(text)
        width == MaxWords(s)
        stride == width - Least(WordsFor(s.overlap), width - 1)
        count == IF words = << >> THEN 0
                 ELSE 1 + (Greatest(Len(words) - width, 0) + stride - 1) \div stride
    IN  [j \in 1 .. count |->
            SubSeq(words, (j - 1) * stride + 1, Least((j - 1) * stride + width, Len(words)))]

\* Mutant of SeedWords: the overlap is not clamped.
SeedWordsUnclamped(s) == WordsFor(s.overlap)

SeedWords(s) == Least(WordsFor(s.overlap), MaxWords(s) - 1)

\* The last words of the chunk just closed, with which the next one starts.
Seed(out, s) ==
    IF out = << >> THEN << >>
    ELSE LET words == Words(Last(out))
         IN  SubSeq(words, Greatest(Len(words) - SeedWords(s), 0) + 1, Len(words))

Reopen(out, s) ==
    LET tail == Seed(out, s)
    IN  [out |-> out, current |-> tail, tokens |-> ApproxTokens(Len(tail))]

Extend(acc, text) ==
    [out |-> acc.out, current |-> acc.current \o text, tokens |-> acc.tokens + Tokens(text)]

\* Mutant of Closed: the open chunk is pushed whether or not it holds anything.
ClosedAlways(acc) == Append(acc.out, acc.current)

\* Mutant of Closed: the open chunk is forgotten.
ClosedDropping(acc) == acc.out

Closed(acc) == IF acc.current = << >> THEN acc.out ELSE Append(acc.out, acc.current)

\* One turn of the packing loop: a piece goes into the open chunk if it fits, and one
\* that is too long for any chunk is replaced by what it is split into.
PackPiece(acc, text, split, s) ==
    IF text = << >> THEN acc
    ELSE IF Tokens(text) > s.max_tokens THEN Reopen(Closed(acc) \o split, s)
    ELSE IF acc.tokens + Tokens(text) > s.max_tokens /\ acc.current # << >>
         THEN Extend(Reopen(Closed(acc), s), text)
    ELSE Extend(acc, text)

\* The loop of sentence_chunks and of recursive_chunks.
Pack(texts, splits, s) ==
    LET packed[i \in 0 .. Len(texts)] ==
            IF i = 0 THEN [out |-> << >>, current |-> << >>, tokens |-> 0]
            ELSE PackPiece(packed[i - 1], texts[i], splits[i], s)
    IN  Closed(packed[Len(texts)])

\* Mutant of UnicodeSentences: every sentence is taken, those of marks only as well.
AllSentences(sentences) == sentences

\* The sentences with something alphanumeric in them, in this alphabet those with a word.
UnicodeSentences(sentences) ==
    FlattenSeq([i \in DOMAIN sentences |->
                   IF Words(sentences[i]) = << >> THEN << >> ELSE <<sentences[i]>>])

SentenceChunks(sentences, s) ==
    LET kept == UnicodeSentences(sentences)
    IN  Pack(kept, [i \in DOMAIN kept |-> FixedChunks(kept[i], s)], s)

RecursiveChunks(doc, s) ==
    Pack([i \in DOMAIN doc |-> FlattenSeq(doc[i])],
         [i \in DOMAIN doc |-> SentenceChunks(doc[i], s)], s)

ChunkForModel(doc, s) ==
    IF doc = << >> \/ s.max_tokens = 0 THEN << >>
    ELSE CASE s.mode = "FixedTokens"     -> FixedChunks(FlattenSeq(FlattenSeq(doc)), s)
           [] s.mode = "SentenceBounded" -> SentenceChunks(FlattenSeq(doc), s)
           [] s.mode = "Recursive"       -> RecursiveChunks(doc, s)

-----------------------------------------------------------------------------
VARIABLES doc, strategy, chunks, done

vars == <<doc, strategy, chunks, done>>

Init ==
    /\ doc \in Documents
    /\ strategy \in [max_tokens : MaxTokens, overlap : Overlaps, mode : Modes]
    /\ chunks = << >>
    /\ done = FALSE

Chunk ==
    /\ ~done
    /\ chunks' = ChunkForModel(doc, strategy)
    /\ done' = TRUE
    /\ UNCHANGED <<doc, strategy>>

Spec == Init /\ [][Chunk]_vars

-----------------------------------------------------------------------------
DocWords == Words(FlattenSeq(FlattenSeq(doc)))

\* The chunks that hold words.
Worded == {j \in DOMAIN chunks : Words(chunks[j]) # << >>}
FirstWord(j) == Words(chunks[j])[1]
LastWord(j) == Last(Words(chunks[j]))

(* No word is lost, repeated inside a chunk or moved, in any mode and across
   the fallbacks from paragraph to sentence to window: each chunk is a run of
   consecutive words, the first starts with the document, each starts no later
   than behind the previous one, repeats no more of it than the overlap and
   ends no earlier, and the last ends with the document. *)
Covers ==
    done /\ strategy.max_tokens > 0 =>
        /\ \A j \in Worded : \A i \in 1 .. Len(Words(chunks[j])) - 1 :
              Words(chunks[j])[i + 1] = Words(chunks[j])[i] + 1
        /\ \A j, k \in Worded : j < k /\ (\A m \in j + 1 .. k - 1 : m \notin Worded) =>
              /\ FirstWord(k) <= LastWord(j) + 1
              /\ LastWord(j) + 1 - FirstWord(k) <= WordsFor(strategy.overlap)
              /\ LastWord(j) <= LastWord(k)
        /\ Worded = {} <=> DocWords = << >>
        /\ \A j \in Worded :
              /\ (\A k \in Worded : j <= k) => FirstWord(j) = DocWords[1]
              /\ (\A k \in Worded : k <= j) => LastWord(j) = Last(DocWords)

(* No chunk is empty, whatever was flushed, split or seeded before it, and only one made
   of whole paragraphs may be without a word. *)
NoEmptyChunk ==
    \A j \in DOMAIN chunks : chunks[j] # << >> /\ (strategy.mode = "Recursive" \/ j \in Worded)

(* No word of a document is lost or moved on the way to its chunks, and every chunk holds
   some text of it.  What is not a word is kept only next to words and in paragraphs. *)
ChunksCover == Covers /\ NoEmptyChunk

(* The cap, as far as the code keeps it: a chunk exceeds max_tokens by at most
   the seed it starts with (and by the one word every chunk may hold). *)
ChunksKeepCap ==
    \A j \in DOMAIN chunks :
        Tokens(chunks[j]) <= Greatest(strategy.max_tokens, ApproxTokens(1))
                                 + ApproxTokens(Least(WordsFor(strategy.overlap), MaxWords(strategy) - 1))

(* The claim of src/src/semantic/chunk.rs:35-37 and 165-166: the overlap is
   clamped so that no chunk can exceed the cap. *)
NeverOverCap ==
    strategy.max_tokens >= ApproxTokens(1) =>
        \A j \in DOMAIN chunks : Tokens(chunks[j]) <= strategy.max_tokens
=============================================================================
