----------------------------- MODULE Utf8Stream -----------------------------
(***************************************************************************)
(* The streaming fingerprinters: Utf8StreamBuffer behind BufferedStream,   *)
(* MinHashStreaming and SimHashStreaming.  Chunks may be cut anywhere, so  *)
(* the buffer keeps the unfinished tail of the last character (the carry)  *)
(* apart from the validated bytes.                                         *)
(***************************************************************************)
EXTENDS Utf8

CONSTANTS
    Bytes,      \* byte classes the producer sends
    Caps,       \* values of max_bytes
    MaxChunk    \* bound: longest chunk

ASSUME StreamAssumption ==
    /\ Bytes \subseteq AllBytes
    /\ Caps \subseteq Nat /\ Caps # {}
    /\ MaxChunk \in Nat

Chunks == UNION {[1 .. n -> Bytes] : n \in 0 .. MaxChunk}

VARIABLES
    buffer,     \* validated bytes
    carry,      \* unfinished tail
    maxBytes,   \* the cap
    live,       \* FALSE once finalize has consumed the streamer
    reply,      \* outcome of the last call
    sketched    \* the text finalize handed to the offline fingerprinter

vars == <<buffer, carry, maxBytes, live, reply, sketched>>

Init ==
    /\ buffer = << >> /\ carry = << >>
    /\ maxBytes \in Caps
    /\ live = TRUE
    /\ reply = "none"
    /\ sketched = << >>

\* with_max_bytes; nothing stops a caller from lowering the cap in mid-stream.
SetMaxBytes(cap) ==
    /\ live
    /\ maxBytes' = cap
    /\ reply' = "none"
    /\ UNCHANGED <<buffer, carry, live, sketched>>

Reset ==
    /\ live
    /\ buffer' = << >> /\ carry' = << >>
    /\ reply' = "none"
    /\ UNCHANGED <<maxBytes, live, sketched>>

-----------------------------------------------------------------------------
\* Mutant of TooLong: the carry is not counted.
TooLongWithoutCarry(chunk) == Len(buffer) + Len(chunk) > maxBytes

TooLong(chunk) == Len(buffer) + Len(carry) + Len(chunk) > maxBytes

Refuse(why) == reply' = why /\ UNCHANGED <<buffer, carry>>

Commit(bytes, upTo) ==
    /\ buffer' = buffer \o SubSeq(bytes, 1, upTo)
    /\ carry' = SubSeq(bytes, upTo + 1, Len(bytes))
    /\ reply' = "ok"

\* Mutant of FastPath: an unfinished last character is committed too.
FastPathCommitsAll(chunk) ==
    /\ carry = << >>
    /\ IF HardError(chunk) THEN Refuse("utf8") ELSE Commit(chunk, Len(chunk))

FastPath(chunk) ==
    /\ carry = << >>
    /\ IF HardError(chunk) THEN Refuse("utf8") ELSE Commit(chunk, ValidUpTo(chunk))

\* Mutant of SlowPath: the taken carry is not put back on an error.
SlowPathLosesCarry(chunk) ==
    /\ carry # << >>
    /\ LET combined == carry \o chunk
       IN  IF HardError(combined)
           THEN carry' = << >> /\ reply' = "utf8" /\ UNCHANGED buffer
           ELSE Commit(combined, ValidUpTo(combined))

SlowPath(chunk) ==
    /\ carry # << >>
    /\ LET combined == carry \o chunk
       IN  IF HardError(combined)
           THEN /\ carry' = SubSeq(combined, 1, Len(combined) - Len(chunk))
                /\ reply' = "utf8"
                /\ UNCHANGED buffer
           ELSE Commit(combined, ValidUpTo(combined))

Update(chunk) ==
    /\ live
    /\ IF TooLong(chunk) THEN Refuse("cap") ELSE FastPath(chunk) \/ SlowPath(chunk)
    /\ UNCHANGED <<maxBytes, live, sketched>>

\* finalize(self): finalize_str, then the offline canonicalizer and sketcher.
Finalize ==
    /\ live
    /\ live' = FALSE
    /\ reply' = IF carry # << >> THEN "trailing"
                ELSE IF buffer = << >> THEN "empty"
                ELSE IF ~IsText(buffer) THEN "internal UTF-8" ELSE "sketched"
    /\ sketched' = IF reply' = "sketched" THEN buffer ELSE << >>
    /\ UNCHANGED <<buffer, carry, maxBytes>>

New ==
    /\ ~live
    /\ buffer' = << >> /\ carry' = << >>
    /\ maxBytes' \in Caps
    /\ live' = TRUE
    /\ reply' = "none"
    /\ sketched' = << >>

Next ==
    \/ \E chunk \in Chunks : Update(chunk)
    \/ \E cap \in Caps : SetMaxBytes(cap)
    \/ Reset
    \/ Finalize
    \/ New

Spec == Init /\ [][Next]_vars

-----------------------------------------------------------------------------
(* The split the module documents: the buffer is valid UTF-8 and the carry is
   the beginning of one character and nothing else (so at most three bytes),
   after any cuts, refusals and changes of the cap. *)
WellSplit ==
    /\ IsText(buffer)
    /\ carry # << >> => ~HardError(carry) /\ ValidUpTo(carry) = 0
    /\ Len(carry) <= 3

Whole == INSTANCE TextStream
             WITH text <- buffer \o carry, limit <- maxBytes, open <- live, output <- sketched

(* Cutting is invisible: the streamer accepts, refuses and sketches as if the
   accepted bytes had been judged in one piece, and a refused chunk leaves no
   trace. In particular "internal UTF-8" is never answered, and an accepted update
   leaves buffer and carry together within the cap. *)
ImplementsTextStream == Whole!Spec
=============================================================================
