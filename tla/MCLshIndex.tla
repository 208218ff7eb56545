----------------------------- MODULE MCLshIndex -----------------------------
(* A small index for TLC: four slots in two bands of two rows. *)
EXTENDS LshIndexRefinement

CONSTANTS d1, d2, kA, kB

MCIds == {d1, d2}
MCKeys == {kA, kB}
MCValues == {0, 1}

Sig4(a, b, c, d) == [s \in 0 .. 3 |-> <<a, b, c, d>>[s + 1]]

\* The first two are one slot apart and share their second band. The last two are
\* half alike and share no band, but collide in the first one.
MCSigs == {Sig4(0, 0, 0, 0), Sig4(0, 1, 0, 0), Sig4(1, 1, 0, 1)}

\* The slices 01 and 11 fall into one bucket.
MCHash == [slice \in [0 .. 1 -> MCValues] |-> IF slice[1] = 1 THEN kA ELSE kB]

\* The collision happens: two signatures without a band in common are filed together.
ASSUME CollisionAssumption ==
    \E s, t \in MCSigs, b \in Band :
        /\ BandKey(s, b) = BandKey(t, b)
        /\ \A c \in Band : \E r \in Row : s[c * Rows + r] # t[c * Rows + r]
=============================================================================
