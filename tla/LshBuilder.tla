----------------------------- MODULE LshBuilder -----------------------------
(***************************************************************************)
(* Choosing how a signature is cut into bands (src/src/classical/lsh/      *)
(* builder.rs) and the check of the choice when the index is made          *)
(* (with_bands_rows in index.rs).  The error integrals are an arbitrary    *)
(* function on the factor pairs: their floats only decide which pair wins. *)
(***************************************************************************)
EXTENDS Integers

CONSTANTS
    H,          \* width of the index's signatures
    W,          \* 2^64: one more than the largest machine word
    Asked,      \* the (bands, rows) and h that callers pass, as words
    Errors,     \* values of fp_rate + fn_rate that compare
    Infinity,   \* f32::INFINITY, also what an error that does not compare counts as
    None        \* no value

Words == 0 .. W - 1

ASSUME BuilderAssumption ==
    /\ W \in Nat \ {0} /\ H \in Words
    /\ Asked \subseteq Words
    /\ Errors \subseteq Nat /\ Infinity \in Nat /\ \A e \in Errors : e < Infinity
    /\ None \notin Words

VARIABLES
    h,          \* the width for_threshold was called with, or None
    error,      \* the error of h cut into b bands
    b,          \* the next number of bands to try
    best,       \* bands of the best pair so far, or None
    bestError,  \* its error
    bands, rows,    \* the builder, or None
    outcome     \* what the last call returned

vars == <<h, error, b, best, bestError, bands, rows, outcome>>

Init ==
    /\ h = None /\ error = [x \in {} |-> 0] /\ b = 0 /\ best = None /\ bestError = Infinity
    /\ bands = None /\ rows = None
    /\ outcome = "none"

Idle == outcome = "none" /\ h = None /\ bands = None

New ==
    /\ Idle
    /\ bands' \in Asked /\ rows' \in Asked
    /\ UNCHANGED <<h, error, b, best, bestError, outcome>>

\* The threshold is one of (0, 1); any other is refused like a width of zero.
ForThreshold ==
    /\ Idle
    /\ \E width \in Asked :
          \/ /\ outcome' = "config error"
             /\ UNCHANGED <<h, error, b>>
          \/ /\ width # 0
             /\ h' = width /\ b' = 1
             /\ error' \in [1 .. width -> Errors \cup {Infinity}]
             /\ UNCHANGED outcome
    /\ UNCHANGED <<best, bestError, bands, rows>>

\* Mutants of Try: any number of bands will do; the later of two equals wins.
TryAny ==
    /\ h # None /\ bands = None /\ outcome = "none" /\ b <= h
    /\ IF error[b] < bestError
       THEN best' = b /\ bestError' = error[b]
       ELSE UNCHANGED <<best, bestError>>
    /\ b' = b + 1
    /\ UNCHANGED <<h, error, bands, rows, outcome>>

TryLater ==
    /\ h # None /\ bands = None /\ outcome = "none" /\ b <= h
    /\ IF h % b = 0 /\ error[b] <= bestError
       THEN best' = b /\ bestError' = error[b]
       ELSE UNCHANGED <<best, bestError>>
    /\ b' = b + 1
    /\ UNCHANGED <<h, error, bands, rows, outcome>>

Try ==
    /\ h # None /\ bands = None /\ outcome = "none" /\ b <= h
    /\ IF h % b = 0 /\ error[b] < bestError
       THEN best' = b /\ bestError' = error[b]
       ELSE UNCHANGED <<best, bestError>>
    /\ b' = b + 1
    /\ UNCHANGED <<h, error, bands, rows, outcome>>

Choose ==
    /\ h # None /\ bands = None /\ outcome = "none" /\ b > h
    /\ IF best = None
       THEN outcome' = "config error" /\ UNCHANGED <<bands, rows>>
       ELSE bands' = best /\ rows' = h \div best /\ UNCHANGED outcome
    /\ UNCHANGED <<h, error, b, best, bestError>>

\* Mutant of Accepts: the product wraps.
AcceptsWrapping(n, r) == n # 0 /\ r # 0 /\ (n * r) % W = H

\* with_bands_rows: neither is zero, the product is a word, and it is the width.
Accepts(n, r) == n # 0 /\ r # 0 /\ n * r < W /\ n * r = H

\* try_build; build panics where it returns the error.
TryBuild ==
    /\ bands # None /\ outcome = "none"
    /\ outcome' = IF Accepts(bands, rows) THEN "index" ELSE "config error"
    /\ UNCHANGED <<h, error, b, best, bestError, bands, rows>>

Next == New \/ ForThreshold \/ Try \/ Choose \/ TryBuild

Spec == Init /\ [][Next]_vars

-----------------------------------------------------------------------------
(* Every variable has its type; what the search holds is a pair of the width. *)
TypeOK ==
    /\ h \in Words \cup {None} /\ h # 0
    /\ h # None => /\ error \in [1 .. h -> Errors \cup {Infinity}]
                   /\ b \in 1 .. h + 1
                   /\ best \in 1 .. h \cup {None}
                   /\ bestError \in Errors \cup {Infinity}
    /\ bands \in Words \cup {None} /\ rows \in Words \cup {None}
    /\ outcome \in {"none", "index", "config error"}

(* An index that is made cuts its signatures without remainder: every slot lies in
   exactly one of its bands, however large the numbers were that it was asked with
   (index.rs:85-97). *)
Partition ==
    outcome = "index" =>
        \A s \in 0 .. H - 1 :
            \E n \in 0 .. bands - 1 :
                /\ n * rows <= s /\ s < (n + 1) * rows /\ (n + 1) * rows <= H
                /\ \A x \in 0 .. bands - 1 : x # n => s < x * rows \/ (x + 1) * rows <= s

(* "Builders produced by for_threshold are guaranteed to satisfy bands * rows == H, so
   calling build directly after for_threshold cannot panic" (builder.rs:125-127). *)
ThresholdBuilds ==
    bands # None /\ h = H => outcome # "config error"

(* The pair chosen has the least error of all factor pairs, and of several such it
   has the fewest bands, so that equal configurations give equal partitions. *)
LeastError ==
    bands # None /\ h # None =>
        \A x \in 1 .. h : h % x = 0 =>
            /\ error[bands] <= error[x]
            /\ x < bands => error[bands] < error[x]

\* What for_threshold chooses: the best partition, and one that can be built.
ThresholdChoice == ThresholdBuilds /\ LeastError
=============================================================================
