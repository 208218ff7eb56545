-------------------------------- MODULE Tlsh --------------------------------
(***************************************************************************)
(* TLSH fingerprints (src/src/classical/tlsh.rs and the wrapper in         *)
(* fingerprint.rs).  The tlsh2 crate computes and compares; the library    *)
(* decides what it is given.  A hash string is its length, whether it      *)
(* begins with T1 and whether the rest is hexadecimal.                     *)
(***************************************************************************)
EXTENDS Naturals, SequencesExt

CONSTANTS
    Texts,          \* texts and bytes: their length, its canonical length, and their variety
    Strings,        \* strings that callers hold
    MIN_INPUT_BYTES,
    None

ASSUME TlshAssumption ==
    /\ MIN_INPUT_BYTES \in Nat \ {0}
    /\ Texts \subseteq [length : Nat, canonical : Nat, varied : BOOLEAN]
    /\ \A text \in Texts : text.length = 0 => text.canonical = 0
    /\ Strings \subseteq [len : Nat, prefixed : BOOLEAN, hexadecimal : BOOLEAN]
    /\ None \notin {"fingerprint", "sketch_bytes", "new"} \X (Texts \cup Strings)

EXPECTED_LEN == 72

VARIABLES
    given,          \* what the last fingerprint was made of: the call and its argument
    fingerprint,    \* the fingerprint, or Refusal
    tampered,       \* its public field was written to
    distance        \* of the fingerprint and itself

tlshVars == <<given, fingerprint, tampered, distance>>

Refusal == [failed |-> "error"]

-----------------------------------------------------------------------------
\* What tlsh2 makes, and what it reads: the 128/1 format.
WellFormed == [len |-> EXPECTED_LEN, prefixed |-> TRUE, hexadecimal |-> TRUE]
Parses(s) == s = WellFormed

\* Mutant of NewTlsh: the length and the digits are checked, the prefix is not.
NewTlshUnprefixed(s) == IF s.len # EXPECTED_LEN \/ ~s.hexadecimal THEN Refusal ELSE s

NewTlsh(s) == IF s.len # EXPECTED_LEN \/ ~s.prefixed \/ ~s.hexadecimal THEN Refusal ELSE s

\* sketch_bytes of so many bytes; tlsh2 builds no hash of bytes without variety.
SketchBytes(length, varied) ==
    IF length < MIN_INPUT_BYTES \/ ~varied THEN Refusal ELSE NewTlsh(WellFormed)

\* Mutant of Fingerprint: the length that counts is that of the text as it came.
FingerprintOfRaw(text) ==
    IF text.length = 0 \/ text.length < MIN_INPUT_BYTES THEN Refusal
    ELSE NewTlsh(WellFormed)

Fingerprint(text) ==
    IF text.length = 0 THEN Refusal ELSE SketchBytes(text.canonical, text.varied)

-----------------------------------------------------------------------------
TlshInit == given = None /\ fingerprint = None /\ tampered = FALSE /\ distance = None

Make(call, argument, made) ==
    /\ given = None
    /\ given' = <<call, argument>> /\ fingerprint' = made
    /\ UNCHANGED <<tampered, distance>>

\* The three ways to a fingerprint; a string also comes through FromStr.
FromText == \E text \in Texts : Make("fingerprint", text, Fingerprint(text))
FromRawBytes == \E text \in Texts : Make("sketch_bytes", text, SketchBytes(text.length, text.varied))
FromString == \E s \in Strings : Make("new", s, NewTlsh(s))

\* The field hex is public.
Tamper ==
    /\ fingerprint # None /\ fingerprint # Refusal /\ distance = None
    /\ fingerprint' \in Strings \ {fingerprint} /\ tampered' = TRUE
    /\ UNCHANGED <<given, distance>>

\* tlsh_distance parses both strings again; that of equal hashes is zero.
TlshDistance ==
    /\ fingerprint # None /\ fingerprint # Refusal /\ distance = None
    /\ distance' = IF Parses(fingerprint) THEN [diff |-> 0] ELSE Refusal
    /\ UNCHANGED <<given, fingerprint, tampered>>

TlshNext == FromText \/ FromRawBytes \/ FromString \/ Tamper \/ TlshDistance

TlshSpec == TlshInit /\ [][TlshNext]_tlshVars

-----------------------------------------------------------------------------
(* What the library calls a fingerprint can be compared: whichever way it was made,
   the string it holds is one that tlsh2 reads back, unless someone wrote another one
   into it, and that is reported and not answered (fingerprint.rs:140-174). *)
FingerprintsCompare ==
    distance # None => (distance # Refusal <=> Parses(fingerprint)) /\ (distance = Refusal => tampered)

(* The minimum length is one of what is hashed: a text is refused by the length of its
   canonical form, be it shorter or longer than the text, bytes by their own. *)
LengthOfWhatIsHashed ==
    given # None /\ ~tampered /\ given[1] # "new" =>
        LET hashed == IF given[1] = "fingerprint" THEN given[2].canonical ELSE given[2].length
        IN  fingerprint # Refusal <=> hashed >= MIN_INPUT_BYTES /\ given[2].varied

\* TLSH: what is made can be compared, and is refused by its canonical length.
TlshSound == FingerprintsCompare /\ LengthOfWhatIsHashed
=============================================================================
