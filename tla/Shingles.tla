------------------------------ MODULE Shingles ------------------------------
(***************************************************************************)
(* The shingle tokenizer (src/src/tokenize/shingle.rs).  tokens() joins    *)
(* windows of a vector of strings; for_each_token collects the inner       *)
(* tokens in one flat buffer with a table of ranges and writes each        *)
(* shingle into a second buffer that it uses again and again.              *)
(* A string is a sequence of characters.                                   *)
(***************************************************************************)
EXTENDS Integers, SequencesExt

CONSTANTS
    Alphabet, \* what strings are made of
    Documents,  \* documents, as what the inner tokenizer finds: sequences of strings
    Sizes,      \* values of k
    Space       \* the separator

ASSUME ShingleAssumption ==
    /\ Documents \subseteq Seq(Seq(Alphabet)) /\ Sizes \subseteq Nat
    /\ Space \in Alphabet

VARIABLES
    inner,      \* the inner tokens
    k,          \* the shingle size
    flat,       \* the inner tokens collected so far, one after the other
    ranges,     \* where they lie in it: <<start, end>>
    buf,        \* the buffer of the shingle
    shingles,   \* the shingles the closure was called with
    returned    \* for_each_token has returned

shingleVars == <<inner, k, flat, ranges, buf, shingles, returned>>

\* [String]::join(" ").
JoinWords(words) ==
    FlattenSeq([i \in DOMAIN words |-> IF i = 1 THEN words[i] ELSE <<Space>> \o words[i]])

\* The shingles of tokens(): every window of k, or all there is if that is less.
Windows ==
    IF k = 0 \/ inner = << >> THEN << >>
    ELSE IF Len(inner) < k THEN <<JoinWords(inner)>>
    ELSE [i \in 1 .. Len(inner) - k + 1 |-> JoinWords(SubSeq(inner, i, i + k - 1))]

ShingleInit ==
    /\ inner \in Documents /\ k \in Sizes
    /\ flat = << >> /\ ranges = << >> /\ buf = << >> /\ shingles = << >>
    /\ returned = FALSE

Collect ==
    /\ k # 0 /\ Len(ranges) < Len(inner)
    /\ flat' = flat \o inner[Len(ranges) + 1]
    /\ ranges' = Append(ranges, <<Len(flat), Len(flat')>>)
    /\ UNCHANGED <<inner, k, buf, shingles, returned>>

\* No shingles are asked for, or there is nothing to make one of.
ReturnNothing ==
    /\ k = 0 \/ inner = << >>
    /\ returned' = TRUE
    /\ UNCHANGED <<inner, k, flat, ranges, buf, shingles>>

\* n words of the table from one on, pushed with separators onto a text.
PushWords(text, from, n) ==
    LET pushed[i \in 0 .. n] ==
            IF i = 0 THEN text
            ELSE (IF i = 1 THEN pushed[0] ELSE Append(pushed[i - 1], Space))
                     \o SubSeq(flat, ranges[from + i - 1][1] + 1, ranges[from + i - 1][2])
    IN  pushed[n]

Collected == k # 0 /\ inner # << >> /\ Len(ranges) = Len(inner) /\ ~returned

EmitAll ==
    /\ Collected /\ Len(ranges) < k
    /\ buf' = PushWords(buf, 1, Len(ranges))
    /\ shingles' = <<buf'>>
    /\ returned' = TRUE
    /\ UNCHANGED <<inner, k, flat, ranges>>

\* Mutant of EmitWindow: the buffer keeps the last shingle.
EmitWindowUncleared ==
    /\ Collected /\ Len(ranges) >= k
    /\ buf' = PushWords(buf, Len(shingles) + 1, k)
    /\ shingles' = Append(shingles, buf')
    /\ returned' = (Len(shingles') > Len(ranges) - k)
    /\ UNCHANGED <<inner, k, flat, ranges>>

EmitWindow ==
    /\ Collected /\ Len(ranges) >= k
    /\ buf' = PushWords(<< >>, Len(shingles) + 1, k)
    /\ shingles' = Append(shingles, buf')
    /\ returned' = (Len(shingles') > Len(ranges) - k)
    /\ UNCHANGED <<inner, k, flat, ranges>>

ShingleNext == Collect \/ ReturnNothing \/ EmitAll \/ EmitWindow

ShingleSpec == ShingleInit /\ [][ShingleNext]_shingleVars

-----------------------------------------------------------------------------
(* The two implementations hand out the same shingles in the same order: what the
   fast path has emitted is always a beginning of what tokens() returns, and it
   returns only when that is complete (shingle.rs:104-109). *)
ShinglePathsAgree ==
    /\ IsPrefix(shingles, Windows)
    /\ returned => shingles = Windows
=============================================================================
