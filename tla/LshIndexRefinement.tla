------------------------- MODULE LshIndexRefinement -------------------------
(***************************************************************************)
(* LshIndex implements SignatureStore.  A bulk call takes effect when it   *)
(* returns: until then its caller holds &mut self and nobody can look.     *)
(***************************************************************************)
EXTENDS LshIndex

\* The least threshold at which no document can be missed.
SureThreshold == H - Bands + 1

SureClose == [a \in Sigs |-> {b \in Sigs : Matches(a, b) >= SureThreshold}]

\* What a search returns now; while a bulk call runs, what it returned before.
Answers ==
    [q \in Sigs |-> IF Idle THEN QueryWithThreshold(q, SureThreshold)
                            ELSE BruteForce(visible, q, SureThreshold)]

Abstract == INSTANCE SignatureStore
                WITH docs <- visible, hits <- Answers, call <- call, pending <- batch,
                     Close <- SureClose

(* Every operation of the index, bulk calls and misused ones included, is one
   operation of a plain map whose searches read the map itself; a batch that was
   accepted is stored as a whole when the call returns, and try_extend_par accepts none
   with a stored id at any position. *)
ImplementsStore == Abstract!Spec
=============================================================================
