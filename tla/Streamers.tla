----------------------------- MODULE Streamers -----------------------------
(***************************************************************************)
(* MinHashStreaming and SimHashStreaming: the buffer of Utf8Stream around  *)
(* a fingerprinter, which finalize runs on what was collected, next to the *)
(* same fingerprinter given a text in one piece.  A fingerprint is what it *)
(* depends on: the set of the tokens for MinHash, how often each occurs    *)
(* for SimHash (modules MinHash and SimHash).                              *)
(***************************************************************************)
EXTENDS Utf8Stream, SequencesExt

CONSTANTS
    DEFAULT_MAX_BUFFER_BYTES,
    None

VARIABLES
    kind,           \* the wrapped fingerprinter
    fingerprint,    \* what finalize returned
    accepted        \* history: the chunks of this stream that update took

streamerVars == <<vars, kind, fingerprint, accepted>>

Kinds == {"MinHash", "SimHash"}

-----------------------------------------------------------------------------
\* Where the characters of a text begin.
Starts(s) == {i \in DOMAIN s : s[i] \notin {"80", "90", "A0"}}

CharAt(s, i) ==
    SubSeq(s, i, CHOOSE j \in i .. Len(s) :
                     (j = Len(s) \/ j + 1 \in Starts(s)) /\ \A k \in i + 1 .. j : k \notin Starts(s))

Characters(s) ==
    LET At(i) == IF i \in Starts(s) THEN <<CharAt(s, i)>> ELSE << >>
    IN  FlattenSeq([i \in DOMAIN s |-> At(i)])

\* The classes are represented so that they give U+061C, which is a format character,
\* U+0085 and, behind F4 and F0 A0, code points without a character, which belong to no
\* word, and otherwise small letters that compose with nothing.
Invisible(char) == char = <<"C2", "90">>
Breaks(char) == \/ char = <<"C2", "80">> \/ Head(char) = "F4"
                \/ Len(char) > 1 /\ <<char[1], char[2]>> = <<"F0", "A0">>

\* Canonicalizer::canonicalize_into, the default one: of its stages only the strip changes
\* such a text (module Canonicalizer has all of them).
CanonicalizeInto(chars) == LET Kept(char) == ~Invisible(char) IN SelectSeq(chars, Kept)

\* WordTokenizer: on such a text a word is a longest run of letters (module Tokenizers has
\* the ways a tokenizer is called).  An element of the result is where a word is.
Tokens(chars) ==
    LET n == Len(chars)
        Word(i, j) == \A k \in i .. j : ~Breaks(chars[k])
        Longest(i, j) == /\ i <= j /\ Word(i, j)
                         /\ i = 1 \/ Breaks(chars[i - 1])
                         /\ j = n \/ Breaks(chars[j + 1])
    IN  {at \in (1 .. n) \X (1 .. n) : Longest(at[1], at[2])}

SketchCanonical(of, chars) ==
    LET Spelling(at) == SubSeq(chars, at[1], at[2])
        words == {Spelling(at) : at \in Tokens(chars)}
    IN  IF Tokens(chars) = {} THEN [failed |-> "empty document"]
        ELSE IF of = "MinHash" THEN [hashes |-> words]
        ELSE [bits |-> [w \in words |-> Cardinality({at \in Tokens(chars) : Spelling(at) = w})]]

\* Fingerprinter::fingerprint, the text in one piece.
Fingerprint(of, s) ==
    IF s = << >> THEN [failed |-> "empty document"]
    ELSE SketchCanonical(of, CanonicalizeInto(Characters(s)))

-----------------------------------------------------------------------------
\* into_streaming: the default cap, which with_max_bytes may override.
IntoStreaming ==
    /\ Init /\ maxBytes = DEFAULT_MAX_BUFFER_BYTES
    /\ kind \in Kinds
    /\ fingerprint = None /\ accepted = << >>

StreamUpdate(chunk) ==
    /\ Update(chunk)
    /\ accepted' = IF reply' = "ok" THEN accepted \o chunk ELSE accepted
    /\ UNCHANGED <<kind, fingerprint>>

StreamReset == Reset /\ accepted' = << >> /\ UNCHANGED <<kind, fingerprint>>

WithMaxBytes(cap) == SetMaxBytes(cap) /\ UNCHANGED <<kind, fingerprint, accepted>>

\* The errors of finalize_str.
Refusal == [failed |-> IF reply' = "empty" THEN "empty document" ELSE reply']

\* Mutant of StreamFinalize: the collected text is sketched as it is.
StreamFinalizeRaw ==
    /\ Finalize
    /\ fingerprint' = IF reply' # "sketched" THEN Refusal
                      ELSE SketchCanonical(kind, Characters(sketched'))
    /\ UNCHANGED <<kind, accepted>>

\* The text of the buffer is canonicalized and sketched without the check for an empty one.
StreamFinalize ==
    /\ Finalize
    /\ fingerprint' = IF reply' # "sketched" THEN Refusal
                      ELSE SketchCanonical(kind, CanonicalizeInto(Characters(sketched')))
    /\ UNCHANGED <<kind, accepted>>

IntoAnother ==
    /\ New /\ maxBytes' = DEFAULT_MAX_BUFFER_BYTES
    /\ kind' \in Kinds
    /\ fingerprint' = None /\ accepted' = << >>

StreamerNext ==
    \/ \E chunk \in Chunks : StreamUpdate(chunk)
    \/ \E cap \in Caps : WithMaxBytes(cap)
    \/ StreamReset
    \/ StreamFinalize
    \/ IntoAnother

StreamerSpec == IntoStreaming /\ [][StreamerNext]_streamerVars

-----------------------------------------------------------------------------
(* A stream ends in the fingerprint, or in the refusal, that the chunks it took would
   have met with in one piece, however they were cut, whatever was refused between
   them and whatever was dropped by reset; only a stream that ends inside a character
   is refused for that. Text that canonicalizes or tokenizes to nothing is no
   exception: the streamer asks for an empty buffer before it canonicalizes, the
   fingerprinter for an empty text.  Both routes have the same stages, so this is about
   the text they are given, their order and their checks, not about what a stage does. *)
StreamedIsOffline ==
    /\ live => buffer \o carry = accepted
    /\ fingerprint # None =>
          IF IsText(accepted) THEN fingerprint = Fingerprint(kind, accepted)
          ELSE fingerprint = [failed |-> "trailing"]
=============================================================================
