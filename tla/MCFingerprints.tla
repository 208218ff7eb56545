--------------------------- MODULE MCFingerprints ---------------------------
(***************************************************************************)
(* The sketchers of MCSketches and what stands around them: the tokenizers *)
(* that feed them, the hash, a stored SimHash, TLSH, and the configuration *)
(* hash by which fingerprints are compared.  They share nothing, so a      *)
(* behaviour is one of a single part while the others rest.                *)
(***************************************************************************)
EXTENDS MCSketches, Tokenizers, SimHash64, Tlsh, Murmur3, ConfigHash

VARIABLE part

SketchVars == <<active, vars, simVars>>

-----------------------------------------------------------------------------
MCSegments ==
    { [text |-> <<"w">>, kind |-> "word"], [text |-> <<"v", "w">>, kind |-> "word"],
      [text |-> <<".">>, kind |-> "mark"], [text |-> <<" ">>, kind |-> "space"],
      [text |-> << >>, kind |-> "empty"] }

\* Texts that canonicalization shortens below the minimum, leaves on either side of it,
\* and lengthens past it.
MCTexts ==
    {t \in [length : {0, MIN_INPUT_BYTES - 1, MIN_INPUT_BYTES},
            canonical : {0, MIN_INPUT_BYTES - 1, MIN_INPUT_BYTES}, varied : BOOLEAN] :
        t.length = 0 => t.canonical = 0}
MCStrings == [len : {0, 71, 72, 73}, prefixed : BOOLEAN, hexadecimal : BOOLEAN]

\* Fingerprinters that differ from the default in one step of the canonicalizer or in
\* the tokenizer.
MCCanonicalizer ==
    [normalization |-> "nfkc", caseFold |-> "cf-simple",
     stripBidi |-> TRUE, stripFormat |-> TRUE, applyConfusable |-> FALSE]
MCWords == [shingles |-> << >>, basic |-> "word"]
MCSetups ==
    [canonicalizer : {MCCanonicalizer, [MCCanonicalizer EXCEPT !.normalization = "nfc"],
                      [MCCanonicalizer EXCEPT !.caseFold = "cf-none"],
                      [MCCanonicalizer EXCEPT !.stripBidi = FALSE],
                      [MCCanonicalizer EXCEPT !.stripFormat = FALSE],
                      [MCCanonicalizer EXCEPT !.applyConfusable = TRUE]},
     tokenizer : {MCWords}]
    \cup
    [canonicalizer : {MCCanonicalizer},
     tokenizer : {[MCWords EXCEPT !.basic = basic] : basic \in {"grapheme", "cjk-hmm"}}
                 \cup {[MCWords EXCEPT !.shingles = s] : s \in {<<1>>, <<11>>, <<1, 11>>}}]

\* The characters of the strings of ConfigHash.
MCDigitChars == {"0", "1", "2", "4", "6", "7", "8"}
MCNameChars ==
    MCDigitChars
    \cup {"3", "9", "-", "=", "/", "a", "b", "c", "d", "e", "f", "g", "h", "i", "j", "k", "l",
          "m", "n", "o", "p", "r", "s", "t", "u", "v", "w", "x"}
MCChars == MCNameChars \cup {"|"}

-----------------------------------------------------------------------------
SketchesRest == active = "MinHash" /\ doc = << >>
TokenizerRests ==
    tokenizer = "word" /\ text = << >> /\ dictionary = FALSE /\ visited = 0 /\ emitted = << >>
HashRests == family = None /\ key = None /\ seed = None /\ digest = << >>
StoredRests == sig = NewSimHash({}) /\ bytes = AsBytes(sig) /\ loaded = Unread
ConfigRests == producer = Nothing /\ settings = Nothing /\ first = Nothing /\ records = Nothing

FingerprintInit ==
    /\ part \in {"sketch", "tokenizer", "hash", "stored", "tlsh", "config"}
    /\ part # "sketch" => active = "MinHash"
    /\ SketchInit
    /\ part # "sketch" => SketchesRest
    /\ IF part = "tokenizer" THEN TokenizerInit ELSE TokenizerRests
    /\ IF part = "hash" THEN HashInit ELSE HashRests
    /\ IF part = "stored" THEN StoredInit ELSE StoredRests
    /\ TlshInit
    /\ IF part = "config" THEN ConfigInit ELSE ConfigRests

FingerprintNext ==
    \/ part = "sketch" /\ SketchNext
       /\ UNCHANGED <<part, tokenizerVars, hashVars, storedVars, tlshVars, configVars>>
    \/ part = "tokenizer" /\ TokenizerNext
       /\ UNCHANGED <<part, SketchVars, hashVars, storedVars, tlshVars, configVars>>
    \/ part = "hash" /\ Hash
       /\ UNCHANGED <<part, SketchVars, tokenizerVars, storedVars, tlshVars, configVars>>
    \/ part = "stored" /\ StoredNext
       /\ UNCHANGED <<part, SketchVars, tokenizerVars, hashVars, tlshVars, configVars>>
    \/ part = "tlsh" /\ TlshNext
       /\ UNCHANGED <<part, SketchVars, tokenizerVars, hashVars, storedVars, configVars>>
    \/ part = "config" /\ ConfigNext
       /\ UNCHANGED <<part, SketchVars, tokenizerVars, hashVars, storedVars, tlshVars>>

FingerprintSpec ==
    /\ FingerprintInit
    /\ [][FingerprintNext]_<<part, SketchVars, tokenizerVars, hashVars, storedVars, tlshVars, configVars>>

=============================================================================
