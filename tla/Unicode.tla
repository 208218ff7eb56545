------------------------------ MODULE Unicode ------------------------------
(***************************************************************************)
(* The part of Unicode that the canonicalizer asks for (the libraries      *)
(* unicode-normalization, caseless and unicode-security, which are not     *)
(* under src/), on an alphabet closed under all of its mappings: the       *)
(* letters I and O in both cases, with and without a dot above, O full     *)
(* width, l, the digit zero, two combining marks, two invisible characters.*)
(* "below" is U+0329, which composes with nothing; "dot" is U+0307.        *)
(***************************************************************************)
EXTENDS Integers, SequencesExt

Ascii == {"I", "i", "O", "o", "l", "zero"}
Marks == {"below", "dot"}
Invisible == {"zwsp", "rlo"}        \* U+200B, U+202E
Characters ==
    Ascii \cup Marks \cup Invisible \cup {"Idot", "Odot", "odot", "wideO", "wideo"}

\* The canonical combining class; the reordering of marks goes by it.
Ccc(c) == CASE c = "below" -> 220 [] c = "dot" -> 230 [] OTHER -> 0

\* A string with each character replaced by what a table has for it.
Mapped(table, s) ==
    FlattenSeq([i \in DOMAIN s |-> IF s[i] \in DOMAIN table THEN table[s[i]] ELSE <<s[i]>>])

Canonical == [c \in {"Idot", "Odot", "odot"} |->
    CASE c = "Idot" -> <<"I", "dot">> [] c = "Odot" -> <<"O", "dot">> [] c = "odot" -> <<"o", "dot">>]

Compatible == [c \in {"wideO", "wideo"} |-> IF c = "wideO" THEN <<"O">> ELSE <<"o">>]

\* There is no small i with a dot above: its own dot is one.
Composites == [p \in {<<"I", "dot">>, <<"O", "dot">>, <<"o", "dot">>} |->
    CASE p[1] = "I" -> "Idot" [] p[1] = "O" -> "Odot" [] p[1] = "o" -> "odot"]

IsMark(c) == Ccc(c) # 0

\* A mark goes behind the last starter and the marks of its own class or below.
Insert(acc, c) ==
    LET before == {p \in DOMAIN acc : ~IsMark(acc[p]) \/ Ccc(acc[p]) <= Ccc(c)}
    IN  IF IsMark(c) THEN InsertAt(acc, Max(before \cup {0}) + 1, c) ELSE Append(acc, c)

\* Marks in the order of their classes, those of one class in the order they came in.
Ordered(s) ==
    LET ordered[n \in 0 .. Len(s)] == IF n = 0 THEN << >> ELSE Insert(ordered[n - 1], s[n])
    IN  ordered[Len(s)]

\* A mark joins the last starter unless one of its own class or above lies between.
Put(acc, c) ==
    LET base == Max({p \in DOMAIN acc : ~IsMark(acc[p])} \cup {0})
    IN  IF /\ base > 0 /\ <<acc[base], c>> \in DOMAIN Composites
           /\ base = Len(acc) \/ Ccc(acc[Len(acc)]) < Ccc(c)
        THEN [acc EXCEPT ![base] = Composites[<<acc[base], c>>]]
        ELSE Append(acc, c)

Composed(s) ==
    LET composed[n \in 0 .. Len(s)] == IF n = 0 THEN << >> ELSE Put(composed[n - 1], s[n])
    IN  composed[Len(s)]

Nfd(s) == Ordered(Mapped(Canonical, s))
Nfc(s) == Composed(Nfd(s))
Nfkc(s) == Composed(Ordered(Mapped(Compatible, Mapped(Canonical, s))))

\* The default case fold; I with a dot above becomes two characters.
CaseFolded(s) ==
    Mapped([c \in {"I", "O", "Idot", "Odot", "wideO"} |->
              CASE c = "I" -> <<"i">> [] c = "O" -> <<"o">> [] c = "Idot" -> <<"i", "dot">>
                [] c = "Odot" -> <<"odot">> [] c = "wideO" -> <<"wideo">>], s)

\* UTS #39: decompose, replace each character by its prototype, decompose.
Skeleton(s) ==
    LET prototype == [c \in {"I", "zero", "wideO", "wideo"} |->
            CASE c = "I" -> <<"l">> [] c \in {"zero", "wideO"} -> <<"O">> [] c = "wideo" -> <<"o">>]
    IN  Nfd(Mapped(prototype, Nfd(s)))
=============================================================================
