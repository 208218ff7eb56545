------------------------------ MODULE SimHash ------------------------------
(***************************************************************************)
(* Sketching one document (src/src/classical/simhash/fingerprinter.rs).    *)
(* Under Tf every occurrence of a token is added as it comes.  The other   *)
(* weightings count the tokens first and then add every distinct one once, *)
(* in the order of a hash map, which is any order.                         *)
(* IDF values are fixed-point numbers in units of 1 / One.                 *)
(***************************************************************************)
EXTENDS Integers, Sequences, Functions, FiniteSetsExt, SequencesExt

CONSTANTS
    SimTokens,         \* tokens that occur
    SimDocs,           \* token sequences of the documents
    Bits,           \* bit positions of a sketch
    HashBits,       \* the bits set in the low half of a token's hash128
    PairLists,      \* what IDF tables are built from: sequences of <<token, value>>
    One,            \* fixed-point 1.0
    NotFinite,      \* stands for an infinite IDF or one that is not a number
    MaxWeight,      \* 1e15, the clamp on one weight
    MaxSum          \* i64::MAX

Integer == -MaxSum - 1 .. MaxSum

ASSUME SimHashAssumption ==
    /\ SimDocs \subseteq Seq(SimTokens)
    /\ HashBits \in [SimTokens -> SUBSET Bits]
    /\ {One, NotFinite, MaxWeight, MaxSum} \subseteq Nat
    /\ 0 < One /\ 0 < MaxWeight /\ MaxWeight <= MaxSum
    /\ PairLists \subseteq Seq(SimTokens \X Int)

VARIABLES
    weighting,  \* "Uniform", "Tf" or "IdfWeighted"
    pairs,      \* what the IDF table was built from
    simDoc,     \* the document
    simTaken,   \* tokens taken so far
    counts,     \* the deduplicating map: a count for every token in it
    todo,       \* the map's tokens that have not been added yet
    acc,        \* the accumulator of every bit
    simOutcome  \* "none", "ok" or "error" once it is returned

simVars == <<weighting, pairs, simDoc, simTaken, counts, todo, acc, simOutcome>>

-----------------------------------------------------------------------------
\* IdfTable::from_pairs keeps the last value of a token.
FromPairs(ps) ==
    LET table[i \in 0 .. Len(ps)] ==
            IF i = 0 THEN << >>
            ELSE [t \in DOMAIN table[i - 1] \cup {ps[i][1]} |->
                     IF t = ps[i][1] THEN ps[i][2] ELSE table[i - 1][t]]
    IN  table[Len(ps)]

IdfGet(table, t) == IF t \in DOMAIN table THEN table[t] ELSE One

Between(lo, x, hi) == IF x < lo THEN lo ELSE IF x > hi THEN hi ELSE x

\* Mutant of Truncate: rounds towards minus infinity.
Floor(x) == x \div One

\* A cast to an integer drops the fraction.
Truncate(x) == IF x >= 0 THEN x \div One ELSE -((-x) \div One)

\* The weight of a token that occurs tf times.
Weight(idf, tf) ==
    IF idf = NotFinite THEN 1 ELSE Between(-MaxWeight, Truncate(tf * idf), MaxWeight)

TokenWeight(t, tf) ==
    IF weighting = "Uniform" THEN 1 ELSE Weight(IdfGet(FromPairs(pairs), t), tf)

\* Mutant of Add: wraps around.
AddWrapping(x, w) ==
    LET sum == x + w
    IN  IF sum > MaxSum THEN sum - 2 * (MaxSum + 1)
        ELSE IF sum < -MaxSum - 1 THEN sum + 2 * (MaxSum + 1)
        ELSE sum

Add(x, w) == Between(-MaxSum - 1, x + w, MaxSum)

AccumulateBits(t, w) ==
    [b \in Bits |-> IF b \in HashBits[t] THEN Add(acc[b], w) ELSE Add(acc[b], -w)]

-----------------------------------------------------------------------------
SimInit ==
    /\ weighting \in {"Uniform", "Tf", "IdfWeighted"}
    /\ pairs \in PairLists
    /\ simDoc \in SimDocs
    /\ simTaken = 0
    /\ counts = << >>
    /\ todo = {}
    /\ acc = [b \in Bits |-> 0]
    /\ simOutcome = "none"

Streaming ==
    /\ simOutcome = "none" /\ weighting = "Tf" /\ simTaken < Len(simDoc)
    /\ simTaken' = simTaken + 1
    /\ acc' = AccumulateBits(simDoc[simTaken + 1], 1)
    /\ UNCHANGED <<weighting, pairs, simDoc, counts, todo, simOutcome>>

Count ==
    /\ simOutcome = "none" /\ weighting # "Tf" /\ simTaken < Len(simDoc)
    /\ simTaken' = simTaken + 1
    /\ LET t == simDoc[simTaken + 1]
       IN  /\ todo' = todo \cup {t}
           /\ counts' = [u \in todo' |->
                            IF u = t THEN IF t \in todo THEN counts[t] + 1 ELSE 1
                                     ELSE counts[u]]
    /\ UNCHANGED <<weighting, pairs, simDoc, acc, simOutcome>>

AddDistinct(t) ==
    /\ simOutcome = "none" /\ simTaken = Len(simDoc) /\ t \in todo
    /\ acc' = AccumulateBits(t, TokenWeight(t, counts[t]))
    /\ todo' = todo \ {t}
    /\ UNCHANGED <<weighting, pairs, simDoc, simTaken, counts, simOutcome>>

SimFinish ==
    /\ simOutcome = "none" /\ simTaken = Len(simDoc) /\ todo = {}
    /\ simOutcome' = IF simTaken > 0 THEN "ok" ELSE "error"
    /\ UNCHANGED <<weighting, pairs, simDoc, simTaken, counts, todo, acc>>

\* The sketch: a bit is set where the accumulator is positive.
Sketch == {b \in Bits : acc[b] > 0}

SimNext == Streaming \/ Count \/ (\E t \in SimTokens : AddDistinct(t)) \/ SimFinish

SimSpec == SimInit /\ [][SimNext]_simVars

-----------------------------------------------------------------------------
(* Every variable has its type; accumulators stay machine integers. *)
SimTypeOK ==
    /\ weighting \in {"Uniform", "Tf", "IdfWeighted"}
    /\ pairs \in PairLists
    /\ simDoc \in SimDocs
    /\ simTaken \in 0 .. Len(simDoc)
    /\ todo \subseteq DOMAIN counts
    /\ DOMAIN counts \subseteq SimTokens
    /\ \A t \in DOMAIN counts : counts[t] \in 1 .. Len(simDoc)
    /\ acc \in [Bits -> Integer]
    /\ simOutcome \in {"none", "ok", "error"}

-----------------------------------------------------------------------------
(* What a sketch means, on the document as a whole.                        *)
Occurrences(t) == {i \in DOMAIN simDoc : simDoc[i] = t}

\* The value of the last pair of t, or one.
IdfOf(t) ==
    LET places == {i \in DOMAIN pairs : pairs[i][1] = t}
    IN  IF places = {} THEN One ELSE pairs[Max(places)][2]

Abs(x) == IF x < 0 THEN -x ELSE x

\* The integer part of a product, or the clamp it is past.
IntegerPart(product) ==
    CHOOSE w \in -MaxWeight .. MaxWeight :
        /\ Abs(w) * One <= Abs(product)
        /\ Abs(w) = MaxWeight \/ Abs(product) < (Abs(w) + 1) * One
        /\ w # 0 => (w < 0 <=> product < 0)

WeightInDoc(t) ==
    LET tf == Cardinality(Occurrences(t))
    IN  CASE weighting = "Uniform"     -> 1
          [] weighting = "Tf"          -> tf
          [] weighting = "IdfWeighted" -> IF IdfOf(t) = NotFinite THEN 1
                                          ELSE IntegerPart(tf * IdfOf(t))

\* The sum of a function over its domain.
SumOf(f) ==
    LET sum[T \in SUBSET DOMAIN f] ==
            IF T = {} THEN 0
            ELSE LET one == CHOOSE t \in T : TRUE IN f[one] + sum[T \ {one}]
    IN  sum[DOMAIN f]

\* What every token weighs for or against a bit.
For(weightOf, b) ==
    [t \in DOMAIN weightOf |-> IF b \in HashBits[t] THEN weightOf[t] ELSE -weightOf[t]]

ExactSum(weightOf, b) == SumOf(For(weightOf, b))

DocWeights == [t \in Range(simDoc) |-> WeightInDoc(t)]

Magnitudes(weightOf) == [t \in DOMAIN weightOf |-> Abs(weightOf[t])]

Fits == SumOf(Magnitudes(DocWeights)) <= MaxSum

(* As long as the weights add up to a machine integer the sketch holds the signs of
   the exact sums: neither the order of the tokens nor that of the hash map shows,
   an occurrence at a time under Tf amounts to one addition of the count, and a
   document is refused exactly if it has no token.  An IDF weight counts with its
   integer part, up to the clamp, and as one if it is not finite. *)
ExactBelowSaturation ==
    /\ simOutcome = "ok" /\ Fits => Sketch = {b \in Bits : ExactSum(DocWeights, b) > 0}
    /\ simOutcome # "none" => (simOutcome = "error" <=> simDoc = << >>)

(* Sums that saturate still have their sign: where no token of the document weighs
   against a bit and one weighs for it the bit is set, and where all weigh against
   it it is clear, in whatever order the map hands the tokens out. *)
UnanimousEvenSaturated ==
    simOutcome = "ok" => \A b \in Bits :
        LET for == For(DocWeights, b)
        IN  /\ (\A t \in Range(simDoc) : for[t] >= 0) /\ (\E t \in Range(simDoc) : for[t] > 0)
                   => b \in Sketch
            /\ (\A t \in Range(simDoc) : for[t] <= 0) => b \notin Sketch
=============================================================================
