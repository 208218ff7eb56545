--------------------------- MODULE Canonicalizer ---------------------------
(***************************************************************************)
(* The canonicalizer (src/src/canonical/): strip, normalize, fold,         *)
(* normalize again, map to the skeleton, with two short cuts for text that *)
(* is all but ASCII.  A behaviour canonicalizes a text into a buffer that  *)
(* was used before, and then canonicalizes what came out.                  *)
(***************************************************************************)
EXTENDS Unicode

CONSTANTS
    Inputs,     \* texts
    Buffers     \* what a buffer may still hold

ASSUME CanonAssumption == Inputs \subseteq Seq(Characters)

\* CanonicalizerBuilder.
Configs ==
    [ normalization : {"nfc", "nfkc", "none"},
      caseFold : {"simple", "none"},
      stripBidi : BOOLEAN,
      stripFormat : BOOLEAN,
      applyConfusable : BOOLEAN ]

VARIABLES
    cfg,        \* the configuration
    input,      \* the text of the last call, or of the first to come
    out,        \* the buffer, holding the result of the last call
    round       \* calls made

canonVars == <<cfg, input, out, round>>

-----------------------------------------------------------------------------
IsBidiControl(c) == c = "rlo"
IsFormat(c) == c \in {"zwsp", "rlo"}

\* should_drop: the format characters include the bidi controls.
ShouldDrop(conf, c) ==
    (conf.stripBidi /\ IsBidiControl(c)) \/ (conf.stripFormat /\ IsFormat(c))

Stripped(conf, s) == Mapped([c \in {c \in Invisible : ShouldDrop(conf, c)} |-> << >>], s)

NormalForm(conf, s) ==
    CASE conf.normalization = "nfkc" -> Nfkc(s)
      [] conf.normalization = "nfc" -> Nfc(s)
      [] conf.normalization = "none" -> s

IsAscii(c) == c \in Ascii
AllAscii(s) == \A i \in DOMAIN s : IsAscii(s[i])

\* make_ascii_lowercase.
AsciiLower(s) ==
    [i \in DOMAIN s |-> CASE s[i] = "I" -> "i" [] s[i] = "O" -> "o" [] OTHER -> s[i]]

\* Mutants of StripAndNormalize: the invisible characters go last; no normal form yet,
\* as one is taken after folding.
NormalizeThenStrip(conf, s) == Stripped(conf, NormalForm(conf, s))
StripOnly(conf, s) == Stripped(conf, s)

\* Stages 1 and 2.
StripAndNormalize(conf, s) == NormalForm(conf, Stripped(conf, s))

\* Mutant of Fold: what folding has expanded stays as it is.
FoldOnly(conf, s) == IF conf.caseFold = "simple" THEN CaseFolded(s) ELSE s

\* Stage 3: folding may leave the normal form, and text that is ASCII is in it.
Fold(conf, s) ==
    IF conf.caseFold # "simple" THEN s
    ELSE IF AllAscii(CaseFolded(s)) THEN CaseFolded(s)
    ELSE NormalForm(conf, CaseFolded(s))

\* Stage 4.
Confusable(conf, s) == IF conf.applyConfusable THEN Skeleton(s) ELSE s

Pipeline(conf, s) == Confusable(conf, Fold(conf, StripAndNormalize(conf, s)))

\* Mutant of IsDefaultPipeline: the strip flag is not asked for.
AlmostDefault(conf) ==
    conf.normalization = "nfkc" /\ conf.caseFold = "simple" /\ conf.stripBidi
    /\ ~conf.applyConfusable

IsDefaultPipeline(conf) ==
    /\ conf.normalization = "nfkc" /\ conf.caseFold = "simple"
    /\ conf.stripBidi /\ conf.stripFormat
    /\ ~conf.applyConfusable

\* The runs of ASCII between the other characters.
OnlyAscii(s) == Mapped([c \in Characters \ Ascii |-> << >>], s)

\* What is left of the buffer when the first stage appends to it.
Cleared(buffer) == << >>

\* canonicalize_into.
CanonicalizeInto(conf, s, buffer) ==
    IF IsDefaultPipeline(conf) /\ AllAscii(s)
    THEN AsciiLower(Cleared(buffer) \o s)
    ELSE IF IsDefaultPipeline(conf)
            /\ \A i \in DOMAIN s : IsAscii(s[i]) \/ IsBidiControl(s[i]) \/ IsFormat(s[i])
    THEN AsciiLower(Cleared(buffer) \o OnlyAscii(s))
    ELSE Cleared(buffer) \o Pipeline(conf, s)

-----------------------------------------------------------------------------
CanonInit ==
    /\ cfg \in Configs /\ input \in Inputs
    /\ out \in Buffers
    /\ round = 0

Canonicalize ==
    /\ round = 0
    /\ out' = CanonicalizeInto(cfg, input, out)
    /\ round' = 1
    /\ UNCHANGED <<cfg, input>>

\* The result is canonicalized again, into the buffer that held the text.
CanonicalizeResult ==
    /\ round = 1
    /\ out' = CanonicalizeInto(cfg, out, input)
    /\ input' = out
    /\ round' = 2
    /\ UNCHANGED cfg

CanonNext == Canonicalize \/ CanonicalizeResult

CanonSpec == CanonInit /\ [][CanonNext]_canonVars

-----------------------------------------------------------------------------
(* The short cuts and the state of the buffer do not show: the result is that of the
   stages, whatever the configuration (canonical/mod.rs:249-267). *)
ShortCutsDoNotShow == round > 0 => out = Pipeline(cfg, input)

(* Canonical text stays what it is: what is stored can be canonicalized once more
   and is still found.  Without the skeleton this holds for every configuration, the
   expanding fold and the marks around invisible characters included. *)
Idempotent == round = 2 /\ ~cfg.applyConfusable => out = input

(* Invisible characters cannot make two texts differ: wherever one that the
   configuration strips is put, between a letter and its mark too, the result is that
   of the text without it. *)
InvisibleErased == round = 1 => out = CanonicalizeInto(cfg, Stripped(cfg, input), << >>)

(* Two spellings of one text, composed and decomposed, come out the same if there is
   any normal form at all. *)
SpellingsAgree ==
    round = 1 /\ cfg.normalization # "none" =>
        out = CanonicalizeInto(cfg, Nfd(input), << >>)

\* Texts that look the same come out the same.
VariantsAgree == InvisibleErased /\ SpellingsAgree

-----------------------------------------------------------------------------
(* Stated by the test of the skeleton (canonical/mod.rs:693-698): "the pipeline
   self-stabilizes", so that a second call changes nothing. *)
SelfStabilizes == round = 2 => out = input
=============================================================================
