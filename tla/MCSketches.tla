----------------------------- MODULE MCSketches -----------------------------
(***************************************************************************)
(* The two sketchers.  A behaviour is one sketch by one of them, the other *)
(* rests in the initial state of an empty document.                        *)
(*                                                                         *)
(* MinHash: a two-bit word and one token for every pair of halves, so that *)
(* the documents of up to MaxTokens tokens cover every hash function on    *)
(* that many tokens, and most chains wrap.                                 *)
(* SimHash: three tokens whose hashes disagree on every bit in a different *)
(* way, and IDF tables with fractions, negative values, values past the    *)
(* clamp, values that are not finite, and a token listed twice.            *)
(***************************************************************************)
EXTENDS MinHash, SimHash, TLC

CONSTANTS
    MaxTokens,                  \* longest document of MinHash, in tokens
    a, b, c,                    \* tokens of SimHash
    MaxSimTokens                \* its longest document

MCTokens == Words \X Words
MCDocs == SeqOf(MCTokens, MaxTokens)
MCLo == [t \in MCTokens |-> t[1]]
MCHi == [t \in MCTokens |-> t[2]]

MCHash == (a :> {1, 2}) @@ (b :> {1, 3}) @@ (c :> {1, 2, 3})
MCPairLists ==
    { << >>,
      << <<a, 5>> >>,                           \* half an occurrence
      << <<a, -15>>, <<b, 45>> >>,
      << <<a, 1000>>, <<b, 1000>> >>,           \* past the clamp
      << <<a, 1000>>, <<b, -1000>>, <<c, 35>> >>,
      << <<a, NotFinite>>, <<c, 21>> >>,
      << <<a, 30>>, <<c, 20>>, <<a, -20>> >> }  \* the last value counts

VARIABLE active

MCSimTokens == {a, b, c}
MCSimDocs == SeqOf(MCSimTokens, MaxSimTokens)

SketchInit ==
    \/ /\ active = "MinHash"
       /\ simDoc = << >> /\ weighting = "Tf" /\ pairs = << >>
       /\ SimInit /\ Init
    \/ /\ active = "SimHash"
       /\ doc = << >>
       /\ Init /\ SimInit

SketchNext ==
    \/ active = "MinHash" /\ Next /\ UNCHANGED <<active, simVars>>
    \/ active = "SimHash" /\ SimNext /\ UNCHANGED <<active, vars>>

SketchSpec == SketchInit /\ [][SketchNext]_<<active, vars, simVars>>

(* "Each token's weight is its TF x IDF" (simhash/fingerprinter.rs:28): the sketch
   holds the signs of the sums of these products, when none is past the clamp or
   not finite. *)
DocumentedWeights ==
    LET product == [t \in Range(simDoc) |-> Cardinality(Occurrences(t)) * IdfOf(t)]
    IN  /\ simOutcome = "ok" /\ weighting = "IdfWeighted"
        /\ \A t \in Range(simDoc) :
              IdfOf(t) # NotFinite /\ Abs(product[t]) <= MaxWeight * One
        /\ Fits
        => Sketch = {x \in Bits : ExactSum(product, x) > 0}
=============================================================================
