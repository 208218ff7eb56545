---------------------------- MODULE MCUtf8Stream ----------------------------
(* The byte classes that lead to every kind of character: one, two, three and
   four bytes, with and without a restricted second byte.  FF is not among them:
   like a continuation byte it starts nothing, and like ascii it continues nothing. *)
EXTENDS Streamers

MCBytes == {"ascii", "C2", "E0", "F0", "F4", "80", "90", "A0"}
MCCaps == {3, 5}
=============================================================================
