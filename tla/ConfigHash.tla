----------------------------- MODULE ConfigHash -----------------------------
(***************************************************************************)
(* Which fingerprints may be compared (src/src/fingerprint.rs).  A caller  *)
(* sets up a fingerprinter, through its builder or by new and the with_*   *)
(* methods, stores what describes one fingerprint of it, and meets the     *)
(* record again when it has set up another one.                            *)
(* xxh3 is taken to be injective: a hash is the text that is hashed.       *)
(***************************************************************************)
EXTENDS Integers, SequencesExt

CONSTANTS
    Setups,         \* what fingerprinters are built with: a canonicalizer and a tokenizer
    SlotCounts,     \* H of MinHash
    Seeds, DefaultSeed,
    Tables,         \* IDF tables
    ModelIds,       \* models of embeddings
    Lengths,        \* dimensions of embeddings
    Chars,          \* characters: of any text,
    NameChars,      \* of what configurations are written with,
    DigitChars,     \* and of numbers
    MaxSettings,    \* bound on the calls of setters between two fingerprinters
    Nothing         \* no model, no record

VARIABLES
    producer,       \* the fingerprinter, or the builder it will come from
    settings,       \* setters called on it
    first,          \* the fingerprinter whose fingerprint was stored
    records         \* metadata stored with that fingerprint, by how it was obtained

configVars == <<producer, settings, first, records>>

\* Canonicalizers and tokenizers, by what they are configured with.
Configs ==
    [normalization : {"nfc", "nfkc", "none"}, caseFold : {"cf-simple", "cf-none"},
     stripBidi : BOOLEAN, stripFormat : BOOLEAN, applyConfusable : BOOLEAN]

TokenizerConfigs ==
    [shingles : Seq(Nat), basic : {"word", "grapheme", "cjk", "cjk-hmm"}]

\* The numbers that configurations are written with.
ShingleSizes ==
    UNION {{s.tokenizer.shingles[i] : i \in 1 .. Len(s.tokenizer.shingles)} : s \in Setups}
Numbers == ShingleSizes \cup SlotCounts \cup Seeds \cup {DefaultSeed}

ASSUME ConfigAssumption ==
    /\ Setups \subseteq [canonicalizer : Configs, tokenizer : TokenizerConfigs]
    /\ Numbers \subseteq Nat /\ Lengths \subseteq Nat
    /\ ModelIds \subseteq Seq(Chars)

\* A string is a sequence of characters; which ones the strings below have.
PrefixFree(S) == \A s, t \in S : s # t /\ Len(s) <= Len(t) => SubSeq(t, 1, Len(s)) # s

ASSUME LiteralAssumption ==
    /\ DigitChars \subseteq NameChars /\ NameChars \subseteq Chars
    /\ { "nfc", "nfkc", "none", "-", "cf-simple", "cf-none", "-bidi", "-fmt", "-conf",
         "word-uax29", "grapheme-uax29", "cjk-jieba", "cjk-jieba-hmm", "shingle-k=", "/", "tlsh",
         "minhash-h", "simhash-b64-", "uniform", "tf", "idf-weighted", "tlsh-128-1",
         "mmh3-x64-128", "xxh3-64", "minhash-h128", "simhash-b64", "embedding",
         "-v1", "" } \subseteq Seq(NameChars)
    /\ "|" \in Seq(Chars) \ Seq(NameChars) /\ "/" \notin Seq(DigitChars)
    /\ Len("|") = 1 /\ Len("/") = 1 /\ Len("") = 0

ASSUME PrefixAssumption ==
    /\ PrefixFree({"nfc", "nfkc", "none"}) /\ PrefixFree({"cf-simple", "cf-none"})
    /\ PrefixFree({"-bidi", "-fmt", "-conf"}) /\ PrefixFree({"minhash-h", "simhash-b64-"})
    /\ \A name \in {"word-uax29", "grapheme-uax29", "cjk-jieba", "cjk-jieba-hmm"} :
          PrefixFree({name, "shingle-k="})
    /\ PrefixFree({"minhash-h128", "simhash-b64", "tlsh", "embedding"})

ASSUME DigitAssumption ==
    /\ \A n \in Numbers : ToString(n) \in Seq(DigitChars)
    /\ \A m, n \in Numbers : ToString(m) = ToString(n) => m = n

UNCOMPUTED_CONFIG_HASH == ""
SCHEMA_VERSION == 1

-----------------------------------------------------------------------------
\* Mutant of ConfigString: without the last step.
ConfigStringOfSteps(c) ==
    c.normalization \o "-" \o c.caseFold
    \o (IF c.stripBidi THEN "-bidi" ELSE "") \o (IF c.stripFormat THEN "-fmt" ELSE "")

ConfigString(c) ==
    c.normalization \o "-" \o c.caseFold
    \o (IF c.stripBidi THEN "-bidi" ELSE "")
    \o (IF c.stripFormat THEN "-fmt" ELSE "")
    \o (IF c.applyConfusable THEN "-conf" ELSE "")

WordName == "word-uax29"
GraphemeName == "grapheme-uax29"
CjkName(hmm) == IF hmm THEN "cjk-jieba-hmm" ELSE "cjk-jieba"

BasicName(basic) ==
    CASE basic = "word"     -> WordName
      [] basic = "grapheme" -> GraphemeName
      [] basic = "cjk"      -> CjkName(FALSE)
      [] basic = "cjk-hmm"  -> CjkName(TRUE)

ShingleName(k, inner) == "shingle-k=" \o ToString(k) \o "/" \o inner

\* A tokenizer is one of the basic ones in any number of shingle adaptors.
TokenizerName(t) ==
    LET n == Len(t.shingles)
        \* The name with the innermost i adaptors.
        name[i \in 0 .. n] ==
            IF i = 0 THEN BasicName(t.basic)
            ELSE ShingleName(t.shingles[n + 1 - i], name[i - 1])
    IN  name[n]

WeightingName(w) ==
    CASE w.kind = "Uniform" -> "uniform" [] w.kind = "Tf" -> "tf"
      [] w.kind = "IdfWeighted" -> "idf-weighted"

FamilyName(family) == IF family = "Murmur" THEN "mmh3-x64-128" ELSE "xxh3-64"

-----------------------------------------------------------------------------
MinHashBuilder == [algorithm |-> "MinHash", seed |-> DefaultSeed, hasher |-> "Xxh3"]

SimHashBuilder ==
    [algorithm |-> "SimHash", seed |-> DefaultSeed, hasher |-> "Xxh3", weighting |-> [kind |-> "Tf"]]

Weightings ==
    {[kind |-> "Uniform"], [kind |-> "Tf"]} \cup [kind : {"IdfWeighted"}, table : Tables]

\* What a builder is finished with.
MinHashBuild(b, setup, H) ==
    [ algorithm |-> b.algorithm, seed |-> b.seed, hasher |-> b.hasher,
      canonicalizer |-> setup.canonicalizer, tokenizer |-> setup.tokenizer, H |-> H ]
SimHashBuild(b, setup) ==
    [ algorithm |-> b.algorithm, seed |-> b.seed, hasher |-> b.hasher, weighting |-> b.weighting,
      canonicalizer |-> setup.canonicalizer, tokenizer |-> setup.tokenizer ]

IsBuilder(p) == p.algorithm \in {"MinHash", "SimHash"} /\ "canonicalizer" \notin DOMAIN p

\* MinHashFingerprinter::new, SimHashFingerprinter::new, TlshFingerprinter::new and a provider.
MinHashNew(setup, H) == MinHashBuild(MinHashBuilder, setup, H)
SimHashNew(setup) == SimHashBuild(SimHashBuilder, setup)
TlshNew(setup) == [algorithm |-> "Tlsh", canonicalizer |-> setup.canonicalizer]
Provider(model, length) == [algorithm |-> "Embedding", model |-> model, length |-> length]

Fresh ==
    {MinHashBuilder, SimHashBuilder}
    \cup {MinHashNew(s, H) : s \in Setups, H \in SlotCounts}
    \cup {SimHashNew(s) : s \in Setups} \cup {TlshNew(s) : s \in Setups}
    \cup {Provider(m, n) : m \in ModelIds \cup {Nothing}, n \in Lengths}

-----------------------------------------------------------------------------
ConfigHashOf(c, tokenizerName, algoCfg) ==
    ConfigString(c) \o "|" \o tokenizerName \o "|" \o algoCfg

\* Mutant of ConfigHashClassical: without the seed.
ConfigHashUnseeded(c, tokenizerName, algoCfg, family, seed) ==
    ConfigHashOf(c, tokenizerName, algoCfg) \o "|" \o FamilyName(family)

ConfigHashClassical(c, tokenizerName, algoCfg, family, seed) ==
    ConfigHashOf(c, tokenizerName, algoCfg)
    \o "|" \o FamilyName(family) \o "|" \o ToString(seed)

\* The algorithm's part: MinHash, SimHash and TLSH.
MinHashCfg(H) == "minhash-h" \o ToString(H)
SimHashCfg(weighting) == "simhash-b64-" \o WeightingName(weighting)
TlshCfg == "tlsh-128-1"

MinHashConfigHash(p) ==
    ConfigHashClassical(p.canonicalizer, TokenizerName(p.tokenizer), MinHashCfg(p.H), p.hasher, p.seed)

SimHashConfigHash(p) ==
    ConfigHashClassical(p.canonicalizer, TokenizerName(p.tokenizer), SimHashCfg(p.weighting),
                        p.hasher, p.seed)

TlshConfigHash(p) == ConfigHashOf(p.canonicalizer, "tlsh", TlshCfg)

HasConfigHash(p) == ~IsBuilder(p) /\ p.algorithm # "Embedding"

ProducerHash(p) ==
    CASE p.algorithm = "MinHash" -> MinHashConfigHash(p)
      [] p.algorithm = "SimHash" -> SimHashConfigHash(p)
      [] p.algorithm = "Tlsh"    -> TlshConfigHash(p)

-----------------------------------------------------------------------------
\* The enum holds a MinHash of 128 slots only.
IsFingerprint(p) == ~IsBuilder(p) /\ (p.algorithm = "MinHash" => p.H = 128)

Algo == [MinHash |-> "minhash-h128", SimHash |-> "simhash-b64", Tlsh |-> "tlsh", Embedding |-> "embedding"]

ModelOf(p) == IF p.algorithm = "Embedding" THEN p.model ELSE Nothing

MetadataInner(p, hash) ==
    [ algorithm      |-> Algo[p.algorithm],
      config_hash    |-> hash,
      model_id       |-> ModelOf(p),
      schema_version |-> SCHEMA_VERSION,
      byte_size      |-> CASE p.algorithm = "MinHash" -> 8 + 8 * 128
                           [] p.algorithm = "SimHash" -> 8
                           [] p.algorithm = "Tlsh" -> 72
                           [] p.algorithm = "Embedding" -> 4 * p.length ]

Metadata(p) == MetadataInner(p, UNCOMPUTED_CONFIG_HASH)

WithConfigHash(metadata, hash) == [metadata EXCEPT !.config_hash = hash]

MetadataWith(p, c, tokenizerName, algoCfg) ==
    MetadataInner(p, ConfigHashOf(c, tokenizerName, algoCfg))

\* Mutant of Name: the model id is put behind the prefix as it is.
NameWithoutSlash(p) ==
    Algo[p.algorithm] \o (IF ModelOf(p) # Nothing THEN ModelOf(p) ELSE "") \o "-v1"

Name(p) ==
    Algo[p.algorithm] \o (IF ModelOf(p) # Nothing THEN "/" \o ModelOf(p) ELSE "") \o "-v1"

\* The metadata a producer can store with a fingerprint: as it comes, with the hash of
\* the fingerprinter, or with the strings of the configuration passed by hand.
Records(p) ==
    LET cfg == CASE p.algorithm = "MinHash" -> MinHashCfg(p.H)
                 [] p.algorithm = "SimHash" -> SimHashCfg(p.weighting)
                 [] p.algorithm = "Tlsh"    -> TlshCfg
        tokenizer == IF p.algorithm = "Tlsh" THEN "tlsh" ELSE TokenizerName(p.tokenizer)
    IN  IF ~HasConfigHash(p) THEN [plain |-> Metadata(p)]
        ELSE [ plain    |-> Metadata(p),
               attached |-> WithConfigHash(Metadata(p), ProducerHash(p)),
               byHand   |-> MetadataWith(p, p.canonicalizer, tokenizer, cfg) ]

-----------------------------------------------------------------------------
ConfigInit ==
    /\ producer \in Fresh /\ settings = 0
    /\ first = Nothing /\ records = Nothing

\* A setter of a builder or of a fingerprinter.
Set(field, value) ==
    /\ field \in DOMAIN producer /\ settings < MaxSettings
    /\ producer' = [producer EXCEPT ![field] = value]
    /\ settings' = settings + 1
    /\ UNCHANGED <<first, records>>

SetSeed == \E s \in Seeds : Set("seed", s)
SetHasher == \E f \in {"Murmur", "Xxh3"} : Set("hasher", f)
SetWeighting == \E w \in Weightings : Set("weighting", w)

Build ==
    /\ IsBuilder(producer)
    /\ \/ /\ producer.algorithm = "MinHash"
          /\ \E s \in Setups, H \in SlotCounts : producer' = MinHashBuild(producer, s, H)
       \/ /\ producer.algorithm = "SimHash"
          /\ \E s \in Setups : producer' = SimHashBuild(producer, s)
    /\ UNCHANGED <<settings, first, records>>

Store ==
    /\ first = Nothing /\ IsFingerprint(producer)
    /\ first' = producer /\ records' = Records(producer)
    /\ UNCHANGED <<producer, settings>>

\* The fingerprinter whose fingerprint comes next.
Another ==
    /\ first # Nothing /\ producer = first
    /\ producer' \in Fresh /\ settings' = 0
    /\ UNCHANGED <<first, records>>

ConfigNext == SetSeed \/ SetHasher \/ SetWeighting \/ Build \/ Store \/ Another

ConfigSpec == ConfigInit /\ [][ConfigNext]_configVars

-----------------------------------------------------------------------------
\* What shapes a fingerprint; the contents of an IDF table are documented not to count.
Shape(p) ==
    IF p.algorithm = "SimHash" THEN [p EXCEPT !.weighting = @.kind] ELSE p

(* Two fingerprinters have the same config_hash exactly if everything that shapes
   their output is the same: the canonicalizer's steps, the tokenizer with every
   shingle size in it, the slots, the weighting, the hash family and the seed, in
   whatever order they were set ("stable hash of everything that shapes the output
   bytes", minhash/fingerprinter.rs:197-199). *)
HashSeparates ==
    first # Nothing /\ HasConfigHash(first) /\ HasConfigHash(producer) =>
        (ProducerHash(first) = ProducerHash(producer) <=> Shape(first) = Shape(producer))

\* What a consumer of two records goes by (fingerprint.rs:189-196, 226-240).
Admitted(a, b) ==
    /\ a.config_hash = b.config_hash /\ a.config_hash # UNCOMPUTED_CONFIG_HASH
    /\ a.algorithm = b.algorithm /\ a.model_id = b.model_id
    /\ a.schema_version = b.schema_version

\* The part of the shape that metadata_with is told about: neither family nor seed.
ToldByHand(p) ==
    [f \in DOMAIN p \ {"hasher", "seed"} |-> Shape(p)[f]]

(* A comparison the metadata admit is one of two fingerprints made the same way.
   With the fingerprinters' own hashes that holds in full; a record that was filled
   by hand does not speak of the hash family and the seed, and is admitted against
   its like only; metadata as they come are never enough. *)
AdmittedAgree ==
    first # Nothing /\ IsFingerprint(producer) =>
        \A w \in DOMAIN records, v \in DOMAIN Records(producer) :
            Admitted(records[w], Records(producer)[v]) =>
                /\ w # "plain" /\ v # "plain"
                /\ w = "attached" \/ v = "attached" => Shape(first) = Shape(producer)
                /\ ToldByHand(first) = ToldByHand(producer)

(* Names route: two fingerprints share their display name exactly if they are of
   the same kind and, for embeddings, of the same model, none and an empty id being
   told apart. *)
NamesRoute ==
    first # Nothing /\ IsFingerprint(producer) =>
        (Name(first) = Name(producer)
            <=> first.algorithm = producer.algorithm /\ ModelOf(first) = ModelOf(producer))

\* Which fingerprints may be compared: configurations share a hash exactly if they are
\* alike, metadata admit no other comparison, names tell models apart.
ComparableIffAlike == HashSeparates /\ AdmittedAgree /\ NamesRoute
=============================================================================
