----------------------------- MODULE Tokenizers -----------------------------
(***************************************************************************)
(* The tokenizers that rest on a library (src/src/tokenize/: word.rs,      *)
(* grapheme.rs, cjk.rs) and the stream they share (mod.rs).  The library   *)
(* cuts a text into segments; a segment is a word, a mark, white space or, *)
(* as the code allows for one, empty.  tokens() hands out a stream, while  *)
(* for_each_token walks the segments by itself.                            *)
(***************************************************************************)
EXTENDS Integers, SequencesExt

CONSTANTS
    Segments,       \* segments that occur: [text |-> their characters, kind |-> their class]
    MaxSegments     \* longest text, in segments

Letters == UNION {Range(s.text) : s \in Segments}

\* A segment is classified by its characters.
ASSUME SegmentAssumption ==
    /\ Segments \subseteq [text : Seq(Letters), kind : {"word", "mark", "space", "empty"}]
    /\ \A s, t \in Segments : s.text = t.text => s.kind = t.kind
    /\ \A s \in Segments : s.kind = "empty" => s.text = << >>
    /\ MaxSegments \in Nat

TokenizerKinds == {"word", "grapheme", "cjk", "custom"}

VARIABLES
    tokenizer,
    text,           \* the text, as the segments its library cuts it into
    dictionary,     \* the shared dictionary of the CJK tokenizer is loaded
    visited,        \* segments that for_each_token has come to
    emitted         \* strings it has called the closure with

tokenizerVars == <<tokenizer, text, dictionary, visited, emitted>>

-----------------------------------------------------------------------------
\* str::trim().is_empty() and is_empty().
BlankWhenTrimmed(s) == s.kind \in {"space", "empty"}
Empty(s) == s.kind = "empty"

\* unicode_words() leaves out what holds no letter or digit.
IsWord(s) == s.kind = "word"

\* Mutant of KeptByCjk: only what is empty is dropped.
KeptByCjkUntrimmed(s) == ~Empty(s)

KeptByCjk(s) == ~BlankWhenTrimmed(s)
KeptByGrapheme(s) == ~Empty(s)

Kept(s) ==
    CASE tokenizer \in {"word", "custom"} -> IsWord(s)
      [] tokenizer = "grapheme" -> KeptByGrapheme(s)
      [] tokenizer = "cjk" -> KeptByCjk(s)

\* TokenStream: borrowed slices or owned strings; into_string_iter makes strings of both.
Stream(owned, tokens) == [owned |-> owned, tokens |-> tokens]
IntoStringIter(stream) == [i \in DOMAIN stream.tokens |-> stream.tokens[i].text]

\* The segments that are kept, in their order.
KeptOf(segments) ==
    LET kept[i \in 0 .. Len(segments)] ==
            IF i = 0 THEN << >>
            ELSE IF Kept(segments[i]) THEN Append(kept[i - 1], segments[i]) ELSE kept[i - 1]
    IN  kept[Len(segments)]

\* tokens(); a tokenizer from outside the library may own its tokens.
TokensOf(segments) == Stream(tokenizer = "custom", KeptOf(segments))

TokenizerInit ==
    /\ tokenizer \in TokenizerKinds
    /\ text \in UNION {[1 .. n -> Segments] : n \in 0 .. MaxSegments}
    /\ dictionary \in BOOLEAN
    /\ visited = 0 /\ emitted = << >>

\* The dictionary is loaded by whichever call comes first.
Cut ==
    /\ tokenizer = "cjk" /\ ~dictionary
    /\ dictionary' = TRUE
    /\ UNCHANGED <<tokenizer, text, visited, emitted>>

Advance(kept, from) ==
    /\ visited < Len(from)
    /\ visited' = visited + 1
    /\ emitted' = IF kept THEN Append(emitted, from[visited + 1].text) ELSE emitted
    /\ UNCHANGED <<tokenizer, text, dictionary>>

\* unicode_words() hands over the words only.
ForEachWord == tokenizer = "word" /\ Advance(TRUE, KeptOf(text))

ForEachGrapheme ==
    /\ tokenizer = "grapheme" /\ visited < Len(text)
    /\ Advance(KeptByGrapheme(text[visited + 1]), text)

\* Mutant of ForEachCjk: the segments go to the closure as they are.
ForEachSegment == tokenizer = "cjk" /\ dictionary /\ Advance(TRUE, text)

ForEachCjk ==
    /\ tokenizer = "cjk" /\ dictionary /\ visited < Len(text)
    /\ Advance(KeptByCjk(text[visited + 1]), text)

\* What a tokenizer without a for_each_token of its own gets.
ForEachDefault ==
    /\ tokenizer = "custom" /\ visited < Len(IntoStringIter(TokensOf(text)))
    /\ visited' = visited + 1
    /\ emitted' = Append(emitted, IntoStringIter(TokensOf(text))[visited'])
    /\ UNCHANGED <<tokenizer, text, dictionary>>

TokenizerNext == Cut \/ ForEachWord \/ ForEachGrapheme \/ ForEachCjk \/ ForEachDefault

TokenizerSpec == TokenizerInit /\ [][TokenizerNext]_tokenizerVars

-----------------------------------------------------------------------------
Listed == IntoStringIter(TokensOf(text))

\* Two tokenizers look at every segment, two at the tokens only.
Walked == visited = IF tokenizer \in {"grapheme", "cjk"} THEN Len(text) ELSE Len(Listed)

(* The two ways to the tokens of a text agree at every point of the walk: the closure
   has been called with the first tokens of the stream, in their order, and with all
   of them when the walk ends.  A sketch is made of the one, a shingle list of the
   other. *)
WalkFollowsStream ==
    /\ IsPrefix(emitted, Listed)
    /\ Walked => emitted = Listed

(* No token is blank, so that white space makes no shingle, except for the graphemes,
   which leave out nothing: put together again they are the text. *)
BlanksAndLosses ==
    /\ tokenizer # "grapheme" =>
          \A i \in DOMAIN emitted : \A s \in Segments : s.text = emitted[i] => ~BlankWhenTrimmed(s)
    /\ tokenizer = "grapheme" /\ Walked =>
          FlattenSeq(emitted) = FlattenSeq([i \in DOMAIN text |-> text[i].text])

\* Both ways to the tokens agree, none is blank, and the graphemes lose nothing.
TokensAgree == WalkFollowsStream /\ BlanksAndLosses
=============================================================================
