------------------------------ MODULE MinHash ------------------------------
(***************************************************************************)
(* Sketching one document (src/src/classical/minhash/fingerprinter.rs):    *)
(* the tokenizer hands over one token after the other, each is hashed      *)
(* once, and a chain of wrapping additions lowers the slots one by one.    *)
(* Canonicalizer and tokenizer are outside: a document is its tokens.      *)
(***************************************************************************)
EXTENDS Integers, Sequences

CONSTANTS
    Tokens,     \* tokens (shingles) that occur
    Docs,       \* token sequences of the documents
    H,          \* slots of a signature
    W,          \* 2^64: one more than the largest machine word
    Lo, Hi      \* the two halves of hash128 of a token, collisions allowed

ASSUME SketchAssumption ==
    /\ Docs \subseteq Seq(Tokens)
    /\ H \in Nat /\ W \in Nat \ {0}
    /\ Lo \in [Tokens -> 0 .. W - 1]
    /\ Hi \in [Tokens -> 0 .. W - 1]

Slots == 0 .. H - 1
Words == 0 .. W - 1

VARIABLES
    doc,        \* the document
    taken,      \* tokens taken so far
    slot,       \* next slot of the chain of the current token; H if there is none
    h,          \* the chain's value
    hashes,     \* the signature
    outcome     \* "none", "ok" or "error" once it is returned

vars == <<doc, taken, slot, h, hashes, outcome>>

-----------------------------------------------------------------------------
\* MinHashSig::empty
Init ==
    /\ doc \in Docs
    /\ taken = 0
    /\ slot = H
    /\ h = 0
    /\ hashes = [s \in Slots |-> W - 1]
    /\ outcome = "none"

\* Mutant of Take: the chain starts at the slot after the first.
TakeSkippingFirst ==
    /\ outcome = "none" /\ slot = H /\ taken < Len(doc)
    /\ taken' = taken + 1
    /\ slot' = IF H > 1 THEN 1 ELSE 0
    /\ h' = Lo[doc[taken + 1]]
    /\ UNCHANGED <<doc, hashes, outcome>>

Take ==
    /\ outcome = "none" /\ slot = H /\ taken < Len(doc)
    /\ taken' = taken + 1
    /\ slot' = 0
    /\ h' = Lo[doc[taken + 1]]
    /\ UNCHANGED <<doc, hashes, outcome>>

\* Mutant of WrappingAdd: the sum sticks at the largest word.
SaturatingAdd(a, b) == IF a + b < W THEN a + b ELSE W - 1

WrappingAdd(a, b) == IF a + b < W THEN a + b ELSE a + b - W

\* Mutant of Lower: the slot takes the hash of the last token.
LowerOverwriting ==
    /\ slot < H
    /\ hashes' = [hashes EXCEPT ![slot] = h]
    /\ h' = WrappingAdd(h, Hi[doc[taken]])
    /\ slot' = slot + 1
    /\ UNCHANGED <<doc, taken, outcome>>

Lower ==
    /\ slot < H
    /\ hashes' = [hashes EXCEPT ![slot] = IF h < @ THEN h ELSE @]
    /\ h' = WrappingAdd(h, Hi[doc[taken]])
    /\ slot' = slot + 1
    /\ UNCHANGED <<doc, taken, outcome>>

Finish ==
    /\ outcome = "none" /\ slot = H /\ taken = Len(doc)
    /\ outcome' = IF taken > 0 THEN "ok" ELSE "error"
    /\ UNCHANGED <<doc, taken, slot, h, hashes>>

Next == Take \/ Lower \/ Finish

Spec == Init /\ [][Next]_vars

-----------------------------------------------------------------------------
(* Every variable has its type: words are machine words and the chain stays
   inside the signature. *)
TypeOK ==
    /\ doc \in Docs
    /\ taken \in 0 .. Len(doc)
    /\ slot \in 0 .. H
    /\ h \in Words
    /\ hashes \in [Slots -> Words]
    /\ outcome \in {"none", "ok", "error"}

\* The hash function of slot s, as the comment at fingerprinter.rs:276-280 states it.
SlotHash(t, s) == (Lo[t] + s * Hi[t]) % W

(* The walk meets the hash functions it was built to compute: after i wrapping
   additions it is at lo + i * hi, and the slot it is about to lower is slot i
   (fingerprinter.rs:278, 281-288). *)
WalkIsChain ==
    /\ taken > 0 => h = SlotHash(doc[taken], slot)
    /\ slot < H => taken > 0

IsLeast(v, S) == v \in S /\ \A x \in S : v <= x

\* Tokens whose chain has passed slot s.
Passed(s) == IF s < slot THEN 1 .. taken ELSE 1 .. taken - 1

(* A slot is the least value its own hash function takes over the tokens seen
   so far, whatever was lowered before it and however the values wrapped. *)
SlotsAreMinima ==
    \A s \in Slots :
        IsLeast(hashes[s], {W - 1} \cup {SlotHash(doc[p], s) : p \in Passed(s)})

\* The signature of a set of tokens.
IsSketchOf(sig, tokens) ==
    \A s \in Slots : IsLeast(sig[s], {W - 1} \cup {SlotHash(t, s) : t \in tokens})

(* What is returned depends on the set of tokens alone, neither on their order nor
   on how often they occur, and nothing is returned for a document without tokens. *)
SetOnly ==
    /\ outcome = "ok" => doc # << >> /\ IsSketchOf(hashes, {doc[p] : p \in DOMAIN doc})
    /\ outcome = "error" => doc = << >>
=============================================================================
