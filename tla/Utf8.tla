-------------------------------- MODULE Utf8 --------------------------------
(***************************************************************************)
(* core::str::from_utf8, as the streaming buffer uses it: does a byte      *)
(* string hold an error no further byte can repair (error_len().is_some()),*)
(* and how long is its valid prefix (valid_up_to())?                       *)
(*                                                                         *)
(* Bytes are classes of the well-formedness table: what may start a        *)
(* character and which continuation ranges may follow.                     *)
(***************************************************************************)
EXTENDS Integers, Sequences

\* Continuation bytes 80..8F, 90..9F and A0..BF.
Continuations == {"80", "90", "A0"}

\* What a lead byte waits for. C0, C1 and F5..FF lead nothing.
Lead == [ascii |-> "start", C2 |-> "one", E0 |-> "E0", E1 |-> "two", ED |-> "ED",
         F0 |-> "F0", F1 |-> "three", F4 |-> "F4"]

Trail == [one   |-> [accepts |-> Continuations, next |-> "start"],
         two   |-> [accepts |-> Continuations, next |-> "one"],
         three |-> [accepts |-> Continuations, next |-> "two"],
         E0    |-> [accepts |-> {"A0"},        next |-> "one"],
         ED    |-> [accepts |-> {"80", "90"},  next |-> "one"],
         F0    |-> [accepts |-> {"90", "A0"},  next |-> "two"],
         F4    |-> [accepts |-> {"80"},        next |-> "two"]]

AllBytes == DOMAIN Lead \cup Continuations \cup {"FF"}

After(state, byte) ==
    IF state = "start"
    THEN IF byte \in DOMAIN Lead THEN Lead[byte] ELSE "error"
    ELSE IF state # "error" /\ byte \in Trail[state].accepts
         THEN Trail[state].next ELSE "error"

\* The state behind each byte, at 0 the one before the first.
States(bytes) ==
    LET state[i \in 0 .. Len(bytes)] ==
            IF i = 0 THEN "start" ELSE After(state[i - 1], bytes[i])
    IN  state

\* Where one character may end and the next one begin.
Boundaries(bytes) ==
    LET state == States(bytes) IN {i \in 0 .. Len(bytes) : state[i] = "start"}

HardError(bytes) == States(bytes)[Len(bytes)] = "error"
IsText(bytes)    == States(bytes)[Len(bytes)] = "start"
ValidUpTo(bytes) == CHOOSE i \in Boundaries(bytes) : \A j \in Boundaries(bytes) : j <= i
=============================================================================
