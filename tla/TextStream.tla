----------------------------- MODULE TextStream -----------------------------
(***************************************************************************)
(* What a streaming fingerprinter promises: it behaves as if every chunk   *)
(* were appended to one byte string and that string were judged as a       *)
(* whole, wherever the chunks were cut. A refused chunk leaves no trace.   *)
(***************************************************************************)
EXTENDS Utf8

CONSTANTS Chunks, Caps

VARIABLES text, limit, open, reply, output

Init == text = << >> /\ limit \in Caps /\ open = TRUE /\ reply = "none" /\ output = << >>

\* The cap comes before the encoding.
Feed(chunk) ==
    /\ open
    /\ LET whole == text \o chunk
       IN  \/ reply' = "cap" /\ Len(whole) > limit /\ text' = text
           \/ reply' = "utf8" /\ Len(whole) <= limit /\ HardError(whole) /\ text' = text
           \/ reply' = "ok" /\ text' = whole /\ Len(whole) <= limit /\ ~HardError(whole)
    /\ UNCHANGED <<limit, open, output>>

SetLimit(cap) == open /\ limit' = cap /\ reply' = "none" /\ UNCHANGED <<text, open, output>>

Reset == open /\ text' = << >> /\ reply' = "none" /\ UNCHANGED <<limit, open, output>>

\* The offline fingerprinter is handed the text exactly when it is one.
Finish ==
    /\ open
    /\ open' = FALSE
    /\ IF text # << >> /\ IsText(text)
       THEN reply' = "sketched" /\ output' = text
       ELSE reply' = (IF text = << >> THEN "empty" ELSE "trailing") /\ output' = << >>
    /\ UNCHANGED <<text, limit>>

Restart ==
    ~open /\ text' = << >> /\ limit' \in Caps /\ open' = TRUE /\ reply' = "none" /\ output' = << >>

Next ==
    \/ \E chunk \in Chunks : Feed(chunk)
    \/ \E cap \in Caps : SetLimit(cap)
    \/ Reset \/ Finish \/ Restart

Spec == Init /\ [][Next]_<<text, limit, open, reply, output>>
=============================================================================
