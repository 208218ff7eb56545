----------------------------- MODULE TextProofs -----------------------------
(***************************************************************************)
(* The ways to one text or token agree, for texts and tokens of any        *)
(* length: the fast path of the shingle tokenizer and the slow one, the    *)
(* walk and the stream of the tokenizers that rest on a library, the short *)
(* cuts of the canonicalizer and its stages, one call of it and two.       *)
(***************************************************************************)
EXTENDS Shingles, Tokenizers, Canonicalizer, SequenceTheorems, WellFoundedInduction, TLAPS

\* Induction, for a set instead of a predicate.
LEMMA SetInduction ==
    ASSUME NEW S, 0 \in S, \A n \in Nat : n \in S => n + 1 \in S
    PROVE  \A n \in Nat : n \in S
<1> DEFINE Missing == {n \in Nat : n \notin S}
           Less == OpToRel(<, Nat)
<1> SUFFICES ASSUME Missing # {} PROVE FALSE
    OBVIOUS
<1>1. IsWellFoundedOn(Less, Nat)
    BY NatLessThanWellFounded
<1>2. \A m, n \in Nat : m < n => <<m, n>> \in Less
    BY DEF OpToRel
<1> HIDE DEF Less
<1>3. PICK n \in Missing : \A m \in Missing : <<m, n>> \notin Less
    <2> Missing \subseteq Nat
        OBVIOUS
    <2> HIDE DEF Missing
    <2> QED
        BY <1>1, WFMin
<1>4. n \in Nat /\ n - 1 \in Nat /\ n - 1 \in Missing
    BY <1>3
<1>5. <<n - 1, n>> \in Less
    BY <1>2, <1>4
<1>6. QED
    BY <1>3, <1>4, <1>5

-----------------------------------------------------------------------------
(* A part of a longer sequence. *)

LEMMA PieceOfConcat ==
    ASSUME NEW C, NEW s \in Seq(C), NEW t \in Seq(C), NEW a \in Nat, NEW b \in Nat,
           a <= b, b <= Len(s)
    PROVE  SubSeq(s \o t, a + 1, b) = SubSeq(s, a + 1, b)
<1>1. /\ Len(s) \in Nat /\ s \o t \in Seq(C) /\ Len(s \o t) >= Len(s)
      /\ \A i \in 1 .. Len(s) : (s \o t)[i] = s[i]
    BY LenProperties, ConcatProperties
<1>2. /\ SubSeq(s, a + 1, b) = [i \in 1 .. b - a |-> s[a + i]]
      /\ SubSeq(s \o t, a + 1, b) = [i \in 1 .. b - a |-> (s \o t)[a + i]]
    BY <1>1
<1>3. \A i \in 1 .. b - a : s[a + i] = (s \o t)[a + i]
    BY <1>1
<1>4. QED
    BY <1>2, <1>3

LEMMA StartOf ==
    ASSUME NEW C, NEW s \in Seq(C), NEW n \in Nat, n <= Len(s)
    PROVE  SubSeq(s, 1, n) = [i \in 1 .. n |-> s[i]]
<1>1. SubSeq(s, 1, n) = [i \in 1 .. n - 1 + 1 |-> s[1 + i - 1]]
    OBVIOUS
<1>2. QED
    BY <1>1

LEMMA TailOfConcat ==
    ASSUME NEW C, NEW s \in Seq(C), NEW t \in Seq(C)
    PROVE  SubSeq(s \o t, Len(s) + 1, Len(s) + Len(t)) = t
<1>1. /\ Len(s) \in Nat /\ Len(t) \in Nat /\ s \o t \in Seq(C) /\ Len(s \o t) = Len(s) + Len(t)
      /\ \A i \in 1 .. Len(t) : (s \o t)[Len(s) + i] = t[i]
      /\ t = [i \in 1 .. Len(t) |-> t[i]]
    BY LenProperties, ConcatProperties
<1>2. SubSeq(s \o t, Len(s) + 1, Len(s) + Len(t)) = [i \in 1 .. Len(t) |-> (s \o t)[Len(s) + i]]
    BY <1>1
<1>3. QED
    BY <1>1, <1>2

LEMMA Regrouped ==
    ASSUME NEW a \in Seq(Alphabet), NEW b \in Seq(Alphabet), NEW c \in Seq(Alphabet)
    PROVE  a \o (b \o c) = (a \o b) \o c
BY ConcatAssociative

-----------------------------------------------------------------------------
(* Joining.  The text behind the first i of a row of pieces. *)

Grows(p, pieces, n) ==
    /\ DOMAIN p = 1 .. n
    /\ n > 0 => p[1] = pieces[1]
    /\ \A i \in 2 .. n : p[i] = p[i - 1] \o pieces[i]

LEMMA TextsExist ==
    ASSUME NEW C, NEW n \in Nat, NEW pieces, pieces \in [1 .. n -> Seq(C)]
    PROVE  \E p \in [1 .. n -> Seq(C)] : Grows(p, pieces, n)
<1> DEFINE S == {i \in Nat : i <= n => \E p \in [1 .. i -> Seq(C)] : Grows(p, pieces, i)}
<1>1. 0 \in S
    <2>1. Grows([i \in 1 .. 0 |-> << >>], pieces, 0)
        BY DEF Grows
    <2>2. [i \in 1 .. 0 |-> << >>] \in [1 .. 0 -> Seq(C)]
        OBVIOUS
    <2>3. QED
        BY <2>1, <2>2
<1>2. ASSUME NEW m \in Nat, m \in S PROVE m + 1 \in S
    <2> SUFFICES ASSUME m + 1 <= n PROVE \E p \in [1 .. m + 1 -> Seq(C)] : Grows(p, pieces, m + 1)
        OBVIOUS
    <2>1. PICK q \in [1 .. m -> Seq(C)] : Grows(q, pieces, m)
        BY <1>2
    <2>2. pieces[m + 1] \in Seq(C)
        OBVIOUS
    <2>3. CASE m = 0
        <3>1. /\ Grows([i \in 1 .. 1 |-> pieces[1]], pieces, 1)
              /\ [i \in 1 .. 1 |-> pieces[1]] \in [1 .. 1 -> Seq(C)]
            BY <2>2, <2>3 DEF Grows
        <3>2. QED
            BY <2>3, <3>1
    <2>4. CASE m > 0
        <3> DEFINE p == [i \in 1 .. m + 1 |-> IF i <= m THEN q[i] ELSE q[m] \o pieces[m + 1]]
        <3>1. q[m] \in Seq(C) /\ q[m] \o pieces[m + 1] \in Seq(C)
            BY <2>1, <2>2, <2>4, ConcatProperties DEF Grows
        <3>2. p \in [1 .. m + 1 -> Seq(C)]
            BY <2>1, <3>1 DEF Grows
        <3>3. p[1] = pieces[1]
            BY <2>1, <2>4 DEF Grows
        <3>4. /\ \A i \in 1 .. m : p[i] = q[i]
              /\ p[m + 1] = q[m] \o pieces[m + 1]
            <4>1. m + 1 \in 1 .. m + 1 /\ ~(m + 1 <= m) /\ 1 .. m \subseteq 1 .. m + 1
                OBVIOUS
            <4>2. \A i \in 1 .. m : i <= m
                OBVIOUS
            <4>3. QED
                BY <4>1, <4>2, Zenon
        <3> HIDE DEF p
        <3>7. ASSUME NEW i \in 2 .. m + 1 PROVE p[i] = p[i - 1] \o pieces[i]
            <4>1. CASE i \in 2 .. m
                <5>1. i \in 1 .. m /\ i - 1 \in 1 .. m
                    BY <4>1
                <5>2. q[i] = q[i - 1] \o pieces[i]
                    BY <2>1, <4>1 DEF Grows
                <5>3. QED
                    BY <3>4, <5>1, <5>2
            <4>2. CASE i = m + 1
                <5>1. i - 1 = m /\ m \in 1 .. m
                    BY <2>4, <4>2
                <5>2. QED
                    BY <3>4, <4>2, <5>1
            <4>3. i \in 2 .. m \/ i = m + 1
                OBVIOUS
            <4>4. QED
                BY <4>1, <4>2, <4>3, Zenon
        <3>5. Grows(p, pieces, m + 1)
            BY <3>2, <3>3, <3>7 DEF Grows
        <3>6. QED
            BY <3>2, <3>5
    <2>5. QED
        BY <2>3, <2>4
<1> HIDE DEF S
<1>3. n \in S
    BY <1>1, <1>2, SetInduction
<1>4. QED
    BY <1>3 DEF S

LEMMA TextsAreOne ==
    ASSUME NEW n \in Nat, NEW pieces, NEW p, NEW q, Grows(p, pieces, n),
           Grows(q, pieces, n)
    PROVE  \A i \in 1 .. n : p[i] = q[i]
<1> DEFINE S == {i \in Nat : i + 1 <= n => p[i + 1] = q[i + 1]}
<1>1. 0 \in S
    BY DEF Grows
<1>2. ASSUME NEW m \in Nat, m \in S PROVE m + 1 \in S
    <2> SUFFICES ASSUME (m + 1) + 1 <= n PROVE p[(m + 1) + 1] = q[(m + 1) + 1]
        OBVIOUS
    <2>1. p[m + 1] = q[m + 1]
        BY <1>2
    <2>2. m + 2 \in 2 .. n /\ (m + 2) - 1 = m + 1 /\ (m + 1) + 1 = m + 2
        OBVIOUS
    <2>3. p[m + 2] = p[m + 1] \o pieces[m + 2] /\ q[m + 2] = q[m + 1] \o pieces[m + 2]
        BY <2>2 DEF Grows
    <2>4. QED
        BY <2>1, <2>2, <2>3
<1> HIDE DEF S
<1>3. \A m \in Nat : m \in S
    BY <1>1, <1>2, SetInduction
<1>4. ASSUME NEW i \in 1 .. n PROVE p[i] = q[i]
    <2>1. i - 1 \in Nat /\ (i - 1) + 1 = i
        OBVIOUS
    <2>2. i - 1 \in S
        BY <1>3, <2>1
    <2>3. QED
        BY <2>1, <2>2 DEF S
<1>5. QED
    BY <1>4

\* FlattenSeq is the text behind all pieces.
LEMMA Flattened ==
    ASSUME NEW C, NEW n \in Nat, n # 0, NEW pieces, pieces \in [1 .. n -> Seq(C)],
           NEW p \in [1 .. n -> Seq(C)], Grows(p, pieces, n)
    PROVE  FlattenSeq(pieces) = p[n]
<1> DEFINE Is(f) == f = [i \in 1 .. n |-> IF i = 1 THEN pieces[i] ELSE f[i - 1] \o pieces[i]]
<1>1. pieces \in Seq(Seq(C)) /\ Len(pieces) = n
    OBVIOUS
<1>2. Is(p)
    <2>1. ASSUME NEW i \in 1 .. n PROVE p[i] = IF i = 1 THEN pieces[i] ELSE p[i - 1] \o pieces[i]
        <3>1. CASE i = 1
            BY <3>1 DEF Grows
        <3>2. CASE i \in 2 .. n
            <4>0. i # 1
                BY <3>2
            <4>1. p[i] = p[i - 1] \o pieces[i]
                BY <3>2, Zenon DEF Grows
            <4>2. QED
                BY <4>0, <4>1
        <3>3. QED
            BY <3>1, <3>2
    <2>2. p = [i \in 1 .. n |-> p[i]]
        OBVIOUS
    <2>3. QED
        BY <2>1, <2>2
<1>3. FlattenSeq(pieces) = (CHOOSE f : Is(f))[n]
    BY <1>1 DEF FlattenSeq
<1>4. PICK f : Is(f) /\ f = CHOOSE g : Is(g)
    BY <1>2
<1>5. DOMAIN f = 1 .. n /\ f[1] = pieces[1] /\ \A i \in 2 .. n : f[i] = f[i - 1] \o pieces[i]
    <2>1. DOMAIN f = 1 .. n /\ 1 \in 1 .. n
        BY <1>4
    <2>2. \A i \in 1 .. n : f[i] = IF i = 1 THEN pieces[i] ELSE f[i - 1] \o pieces[i]
        BY <1>4
    <2>3. \A i \in 2 .. n : i \in 1 .. n /\ i # 1
        OBVIOUS
    <2>4. QED
        BY <2>1, <2>2, <2>3
<1> HIDE DEF Is
<1>6. \A i \in 1 .. n : p[i] = f[i]
    <2>1. Grows(f, pieces, n)
        BY <1>5 DEF Grows
    <2>2. QED
        BY <2>1, TextsAreOne
<1>7. QED
    BY <1>3, <1>4, <1>6

-----------------------------------------------------------------------------
(* Shingles.  Both paths write the words, a separator before every one but the first. *)

Pieces(words) == [i \in DOMAIN words |-> IF i = 1 THEN words[i] ELSE <<Space>> \o words[i]]

LEMMA PiecesType ==
    ASSUME NEW n \in Nat, NEW words, words \in [1 .. n -> Seq(Alphabet)]
    PROVE  Pieces(words) \in [1 .. n -> Seq(Alphabet)]
<1>1. <<Space>> \in Seq(Alphabet)
    BY ShingleAssumption
<1>2. ASSUME NEW i \in 1 .. n
      PROVE  (IF i = 1 THEN words[i] ELSE <<Space>> \o words[i]) \in Seq(Alphabet)
    <2>1. words[i] \in Seq(Alphabet)
        OBVIOUS
    <2>2. <<Space>> \o words[i] \in Seq(Alphabet)
        BY <1>1, <2>1, ConcatProperties
    <2>3. QED
        BY <2>1, <2>2
<1>3. QED
    BY <1>2 DEF Pieces

LEMMA Joined ==
    ASSUME NEW n \in Nat, n # 0, NEW words \in [1 .. n -> Seq(Alphabet)],
           NEW p \in [1 .. n -> Seq(Alphabet)], Grows(p, Pieces(words), n)
    PROVE  JoinWords(words) = p[n]
<1>1. JoinWords(words) = FlattenSeq(Pieces(words))
    BY DEF JoinWords, Pieces
<1>2. QED
    BY <1>1, PiecesType, Flattened

\* Pushing n words of the table from one on is joining them.
LEMMA Pushed ==
    ASSUME NEW from \in Nat, NEW n \in Nat, n # 0, NEW words \in [1 .. n -> Seq(Alphabet)],
           \A i \in 1 .. n :
               SubSeq(flat, ranges[from + i - 1][1] + 1, ranges[from + i - 1][2]) = words[i]
    PROVE  PushWords(<< >>, from, n) = JoinWords(words) /\ JoinWords(words) \in Seq(Alphabet)
<1> DEFINE Word(i) == SubSeq(flat, ranges[from + i - 1][1] + 1, ranges[from + i - 1][2])
           Next1(f, i) == (IF i = 1 THEN f[0] ELSE Append(f[i - 1], Space)) \o Word(i)
           Is(f) == f = [i \in 0 .. n |-> IF i = 0 THEN << >> ELSE Next1(f, i)]
<1>1. PICK p \in [1 .. n -> Seq(Alphabet)] : Grows(p, Pieces(words), n)
    BY PiecesType, TextsExist
<1>2. JoinWords(words) = p[n]
    BY <1>1, Joined
<1> DEFINE q == [i \in 0 .. n |-> IF i = 0 THEN << >> ELSE p[i]]
<1>3. /\ DOMAIN q = 0 .. n /\ q[0] = << >>
      /\ \A i \in 1 .. n : q[i] = p[i] /\ Word(i) = words[i]
    OBVIOUS
<1> HIDE DEF Word
<1>4. ASSUME NEW i \in 1 .. n PROVE q[i] = Next1(q, i)
    <2>0. words[i] \in Seq(Alphabet)
        OBVIOUS
    <2>1. CASE i = 1
        <3>1. p[1] = words[1]
            BY <1>1, <2>1 DEF Grows, Pieces
        <3>2. << >> \o words[1] = words[1]
            BY <2>0, <2>1, ConcatEmptySeq
        <3>3. QED
            BY <1>3, <2>1, <3>1, <3>2
    <2>2. CASE i \in 2 .. n
        <3>1. i - 1 \in 1 .. n /\ i # 1
            BY <2>2
        <3>2. p[i] = p[i - 1] \o (<<Space>> \o words[i])
            <4>1. Pieces(words)[i] = <<Space>> \o words[i]
                BY <3>1 DEF Pieces
            <4>2. p[i] = p[i - 1] \o Pieces(words)[i]
                BY <1>1, <2>2, Zenon DEF Grows
            <4>3. QED
                BY <4>1, <4>2
        <3>3. p[i - 1] \in Seq(Alphabet) /\ <<Space>> \in Seq(Alphabet) /\ Space \in Alphabet
            BY <1>1, <3>1, ShingleAssumption
        <3>4. p[i - 1] \o (<<Space>> \o words[i]) = Append(p[i - 1], Space) \o words[i]
            <4>1. p[i - 1] \o (<<Space>> \o words[i]) = (p[i - 1] \o <<Space>>) \o words[i]
                <5>1. p[i - 1] \in Seq(Alphabet) /\ <<Space>> \in Seq(Alphabet)
                    BY <3>3
                <5>2. QED
                    BY <2>0, <5>1, Regrouped
            <4>2. p[i - 1] \o <<Space>> = Append(p[i - 1], Space)
                BY <3>3, AppendIsConcat
            <4>3. QED
                BY <4>1, <4>2
        <3>5. QED
            BY <1>3, <3>1, <3>2, <3>4
    <2>3. i = 1 \/ i \in 2 .. n
        OBVIOUS
    <2>4. QED
        BY <2>1, <2>2, <2>3, Zenon
<1> HIDE DEF Next1
<1>5. Is(q)
    <2>1. q = [i \in 0 .. n |-> q[i]]
        OBVIOUS
    <2> HIDE DEF q
    <2>2. ASSUME NEW i \in 0 .. n PROVE q[i] = IF i = 0 THEN << >> ELSE Next1(q, i)
        BY <1>3, <1>4
    <2>3. QED
        BY <2>1, <2>2, Zenon
<1> HIDE DEF q
<1>6. PICK f : Is(f) /\ f = CHOOSE g : Is(g)
    BY <1>5
<1>7. PushWords(<< >>, from, n) = f[n]
    BY <1>6 DEF PushWords, Next1, Word
<1>8. f[0] = << >> /\ \A i \in 1 .. n : f[i] = Next1(f, i)
    <2>1. \A i \in 1 .. n : i \in 0 .. n /\ i # 0
        OBVIOUS
    <2>2. 0 \in 0 .. n
        OBVIOUS
    <2>3. QED
        BY <1>6, <2>1, <2>2
<1> HIDE DEF Is
<1> DEFINE S == {i \in Nat : i <= n => f[i] = q[i]}
<1>9. 0 \in S
    BY <1>3, <1>8
<1>10. ASSUME NEW m \in Nat, m \in S PROVE m + 1 \in S
    <2> SUFFICES ASSUME m + 1 <= n PROVE f[m + 1] = q[m + 1]
        OBVIOUS
    <2>1. f[m] = q[m] /\ m + 1 \in 1 .. n /\ (m + 1) - 1 = m
        BY <1>10
    <2>2. f[m + 1] = Next1(f, m + 1) /\ q[m + 1] = Next1(q, m + 1)
        BY <1>4, <1>8, <2>1
    <2>3. m + 1 = 1 => m = 0
        OBVIOUS
    <2>4. QED
        BY <2>1, <2>2, <2>3 DEF Next1
<1> HIDE DEF S
<1>11. n \in S
    BY <1>9, <1>10, SetInduction
<1>12. f[n] = q[n] /\ q[n] = p[n] /\ p[n] \in Seq(Alphabet)
    BY <1>3, <1>11 DEF S
<1>13. QED
    BY <1>2, <1>7, <1>12

-----------------------------------------------------------------------------
(* The inductive invariant: the table says where every inner token lies in the flat
   buffer, and what was emitted is a beginning of what tokens() returns. *)

Located ==
    \A i \in 1 .. Len(ranges) :
        /\ ranges[i][1] <= ranges[i][2] /\ ranges[i][2] <= Len(flat)
        /\ SubSeq(flat, ranges[i][1] + 1, ranges[i][2]) = inner[i]

Emitted ==
    /\ Len(shingles) <= Len(Windows)
    /\ \A i \in 1 .. Len(shingles) : shingles[i] = Windows[i]
    /\ returned => Len(shingles) = Len(Windows)
    /\ ~returned /\ k # 0 /\ inner # << >> => Len(shingles) < Len(Windows)

ShInv ==
    /\ inner \in Documents /\ k \in Sizes
    /\ flat \in Seq(Alphabet) /\ ranges \in Seq(Nat \X Nat) /\ Len(ranges) <= Len(inner)
    /\ shingles \in Seq(Seq(Alphabet)) /\ returned \in BOOLEAN
    /\ shingles = << >> => buf = << >>
    /\ k = 0 \/ Len(ranges) < Len(inner) => shingles = << >>
    /\ Located
    /\ Emitted

LEMMA Inner ==
    ASSUME ShInv
    PROVE  /\ inner \in Seq(Seq(Alphabet)) /\ k \in Nat
           /\ Len(inner) \in Nat /\ Len(ranges) \in Nat /\ Len(shingles) \in Nat
           /\ inner = << >> <=> Len(inner) = 0
BY ShingleAssumption, LenProperties, EmptySeq DEF ShInv

LEMMA WindowsAre ==
    ASSUME inner \in Seq(Seq(Alphabet)), k \in Nat
    PROVE  /\ Len(Windows) \in Nat /\ Windows = [i \in 1 .. Len(Windows) |-> Windows[i]]
           /\ k = 0 \/ inner = << >> => Windows = << >> /\ Len(Windows) = 0
           /\ k # 0 /\ inner # << >> /\ Len(inner) < k =>
                 Len(Windows) = 1 /\ Windows[1] = JoinWords(inner)
           /\ k # 0 /\ inner # << >> /\ Len(inner) >= k =>
                 /\ Len(Windows) = Len(inner) - k + 1
                 /\ \A i \in 1 .. Len(inner) - k + 1 :
                       Windows[i] = JoinWords(SubSeq(inner, i, i + k - 1))
<1>1. Len(inner) \in Nat /\ (inner # << >> => Len(inner) > 0)
    BY LenProperties, EmptySeq
<1>2. CASE k = 0 \/ inner = << >>
    BY <1>2 DEF Windows
<1>3. CASE k # 0 /\ inner # << >> /\ Len(inner) < k
    <2>1. Windows = <<JoinWords(inner)>>
        BY <1>3 DEF Windows
    <2>2. QED
        BY <1>3, <2>1
<1>4. CASE k # 0 /\ inner # << >> /\ Len(inner) >= k
    <2> DEFINE J(i) == JoinWords(SubSeq(inner, i, i + k - 1))
    <2>1. Windows = [i \in 1 .. Len(inner) - k + 1 |-> J(i)]
        BY <1>4, <1>1 DEF Windows
    <2> HIDE DEF J
    <2>2. Len(inner) - k + 1 \in Nat
        BY <1>1, <1>4
    <2>3. Len(Windows) = Len(inner) - k + 1
        BY <2>1, <2>2
    <2>4. \A i \in 1 .. Len(inner) - k + 1 : Windows[i] = J(i)
        BY <2>1
    <2>5. Windows = [i \in 1 .. Len(Windows) |-> Windows[i]]
        BY <2>1, <2>3
    <2>6. \A i \in 1 .. Len(inner) - k + 1 :
              Windows[i] = JoinWords(SubSeq(inner, i, i + k - 1))
        BY <2>4, Zenon DEF J
    <2>7. ~(k = 0 \/ inner = << >>) /\ ~(Len(inner) < k)
        BY <1>1, <1>4
    <2>8. QED
        BY <2>2, <2>3, <2>5, <2>6, <2>7, Zenon
<1>5. QED
    BY <1>1, <1>2, <1>3, <1>4

LEMMA InitShInv == ShingleInit => ShInv
<1> SUFFICES ASSUME ShingleInit PROVE ShInv
    OBVIOUS
<1>1. inner \in Seq(Seq(Alphabet)) /\ k \in Nat
    BY ShingleAssumption DEF ShingleInit
<1>2. Len(inner) \in Nat /\ Len(ranges) = 0 /\ Len(shingles) = 0
    BY <1>1, LenProperties DEF ShingleInit
<1>3. flat \in Seq(Alphabet) /\ ranges \in Seq(Nat \X Nat) /\ shingles \in Seq(Seq(Alphabet))
    BY EmptySeq DEF ShingleInit
<1>4. Located
    BY <1>2 DEF Located
<1>5. Emitted
    <2>1. Len(Windows) \in Nat /\ (k # 0 /\ inner # << >> => Len(Windows) > 0)
        BY <1>1, <1>2, WindowsAre
    <2>2. QED
        BY <1>2, <2>1 DEF Emitted, ShingleInit
<1>6. returned \in BOOLEAN
    BY Zenon DEF ShingleInit
<1>7. inner \in Documents /\ k \in Sizes /\ shingles = << >> /\ buf = << >>
    BY DEF ShingleInit
<1>8. QED
    BY <1>2, <1>3, <1>4, <1>5, <1>6, <1>7 DEF ShInv

LEMMA CollectShInv ==
    ASSUME ShInv, Collect PROVE ShInv'
<1> DEFINE n == Len(ranges)
           word == inner[n + 1]
<1>1. inner \in Seq(Seq(Alphabet)) /\ Len(inner) \in Nat /\ n \in Nat /\ n < Len(inner)
    BY Inner DEF Collect
<1>2. word \in Seq(Alphabet) /\ Len(word) \in Nat
    BY <1>1, ElementOfSeq, LenProperties
<1>3. flat \in Seq(Alphabet) /\ Len(flat) \in Nat /\ ranges \in Seq(Nat \X Nat)
    BY LenProperties DEF ShInv
<1>4. /\ flat' = flat \o word /\ flat' \in Seq(Alphabet) /\ Len(flat') = Len(flat) + Len(word)
      /\ Len(flat') \in Nat
    BY <1>2, <1>3, ConcatProperties DEF Collect
<1>5. /\ ranges' \in Seq(Nat \X Nat) /\ Len(ranges') = n + 1
      /\ \A i \in 1 .. n : ranges'[i] = ranges[i]
      /\ ranges'[n + 1] = <<Len(flat), Len(flat')>>
    BY <1>3, <1>4, AppendProperties DEF Collect
<1>6. UNCHANGED <<inner, k, buf, shingles, returned>> /\ k # 0
    BY DEF Collect
<1>7. Located'
    <2> SUFFICES ASSUME NEW i \in 1 .. n + 1
                 PROVE  /\ ranges'[i][1] <= ranges'[i][2] /\ ranges'[i][2] <= Len(flat')
                        /\ SubSeq(flat', ranges'[i][1] + 1, ranges'[i][2]) = inner[i]
        BY <1>5, <1>6 DEF Located
    <2>1. CASE i = n + 1
        <3>1. ranges'[i][1] = Len(flat) /\ ranges'[i][2] = Len(flat) + Len(word)
            BY <1>4, <1>5, <2>1
        <3>2. SubSeq(flat \o word, Len(flat) + 1, Len(flat) + Len(word)) = word
            BY <1>2, <1>3, TailOfConcat
        <3>3. QED
            BY <1>2, <1>3, <1>4, <2>1, <3>1, <3>2
    <2>2. CASE i \in 1 .. n
        <3>1. /\ ranges'[i] = ranges[i] /\ ranges[i] \in Nat \X Nat
              /\ ranges[i][1] <= ranges[i][2] /\ ranges[i][2] <= Len(flat)
              /\ SubSeq(flat, ranges[i][1] + 1, ranges[i][2]) = inner[i]
            BY <1>3, <1>5, <2>2, ElementOfSeq DEF ShInv, Located
        <3> DEFINE start == ranges[i][1]
                   end == ranges[i][2]
        <3>2. start \in Nat /\ end \in Nat /\ start <= end /\ end <= Len(flat)
              /\ SubSeq(flat, start + 1, end) = inner[i]
            BY <3>1
        <3>3. ranges'[i][1] = start /\ ranges'[i][2] = end
            BY <3>1
        <3> HIDE DEF start, end, word
        <3>4. SubSeq(flat \o word, start + 1, end) = SubSeq(flat, start + 1, end)
            BY <1>2, <1>3, <3>2, PieceOfConcat
        <3>5. end <= Len(flat')
            BY <1>2, <1>3, <1>4, <3>2
        <3>6. QED
            BY <1>4, <3>2, <3>3, <3>4, <3>5
    <2>3. QED
        BY <1>1, <2>1, <2>2
<1>8. Emitted'
    BY <1>6 DEF ShInv, Emitted, Windows
<1>9. shingles = << >>
    BY <1>1 DEF ShInv
<1>10. QED
    BY <1>1, <1>4, <1>5, <1>6, <1>7, <1>8, <1>9 DEF ShInv

\* Words from one on, as they lie in the table.
LEMMA WordsOfTable ==
    ASSUME ShInv, NEW from \in Nat, NEW n \in Nat, n # 0, from # 0, from + n - 1 <= Len(ranges)
    PROVE  /\ PushWords(<< >>, from, n) = JoinWords(SubSeq(inner, from, from + n - 1))
           /\ PushWords(<< >>, from, n) \in Seq(Alphabet)
<1> DEFINE words == SubSeq(inner, from, from + n - 1)
<1>1. /\ inner \in Seq(Seq(Alphabet)) /\ Len(inner) \in Nat /\ Len(ranges) \in Nat
      /\ Len(ranges) <= Len(inner)
    BY Inner DEF ShInv
<1>2. words = [i \in 1 .. n |-> inner[from + i - 1]]
    <2>1. words = [i \in 1 .. (from + n - 1) - from + 1 |-> inner[from + i - 1]]
        BY <1>1
    <2>2. (from + n - 1) - from + 1 = n
        OBVIOUS
    <2>3. QED
        BY <2>1, <2>2
<1> HIDE DEF words
<1>3. \A i \in 1 .. n : from + i - 1 \in 1 .. Len(ranges) /\ from + i - 1 \in 1 .. Len(inner)
    BY <1>1
<1>4. words \in [1 .. n -> Seq(Alphabet)]
    <2>1. \A i \in 1 .. n : inner[from + i - 1] \in Seq(Alphabet)
        BY <1>1, <1>3, ElementOfSeq
    <2>2. QED
        BY <1>2, <2>1
<1>5. \A i \in 1 .. n :
          SubSeq(flat, ranges[from + i - 1][1] + 1, ranges[from + i - 1][2]) = words[i]
    BY <1>2, <1>3 DEF ShInv, Located
<1>6. PushWords(<< >>, from, n) = JoinWords(words) /\ JoinWords(words) \in Seq(Alphabet)
    BY <1>4, <1>5, Pushed
<1>7. QED
    BY <1>6 DEF words

LEMMA EmitShInv ==
    ASSUME ShInv, EmitAll \/ EmitWindow PROVE ShInv'
<1>1. /\ inner \in Seq(Seq(Alphabet)) /\ k \in Nat /\ k # 0 /\ inner # << >>
      /\ Len(inner) \in Nat /\ Len(inner) > 0 /\ Len(ranges) = Len(inner) /\ ~returned
      /\ Len(shingles) \in Nat /\ Len(shingles) < Len(Windows)
    BY Inner DEF EmitAll, EmitWindow, Collected, ShInv, Emitted
<1>2. UNCHANGED <<inner, k, flat, ranges, Windows>> /\ Located'
    BY DEF EmitAll, EmitWindow, ShInv, Located, Windows
<1> DEFINE new == shingles'
           count == Len(shingles)
<1>3. /\ new \in Seq(Seq(Alphabet)) /\ Len(new) = count + 1
      /\ \A i \in 1 .. count : new[i] = shingles[i]
      /\ new[count + 1] = Windows[count + 1]
      /\ returned' \in BOOLEAN /\ (returned' <=> Len(new) = Len(Windows))
    <2>1. CASE EmitAll
        <3>1. Len(inner) < k /\ Len(Windows) = 1 /\ Windows[1] = JoinWords(inner)
            BY <1>1, <2>1, WindowsAre DEF EmitAll
        <3>2. count = 0 /\ shingles = << >> /\ buf = << >>
            BY <1>1, <3>1, EmptySeq DEF ShInv
        <3>3. SubSeq(inner, 1, 1 + Len(inner) - 1) = inner
            BY <1>1
        <3>4. buf' = JoinWords(inner) /\ buf' \in Seq(Alphabet)
            <4> DEFINE n == Len(ranges)
            <4>1. buf' = PushWords(<< >>, 1, n)
                BY <2>1, <3>2 DEF EmitAll
            <4>2. n \in Nat /\ n # 0 /\ 1 + n - 1 <= Len(ranges)
                BY <1>1
            <4>3. SubSeq(inner, 1, 1 + n - 1) = inner
                BY <1>1, <3>3
            <4> HIDE DEF n
            <4>4. 1 \in Nat /\ 1 # 0
                OBVIOUS
            <4>5. QED
                BY <4>1, <4>2, <4>3, <4>4, WordsOfTable
        <3>5. new = <<buf'>>
            BY <2>1 DEF EmitAll
        <3>6. returned' = TRUE
            BY <2>1 DEF EmitAll
        <3>7. new \in Seq(Seq(Alphabet)) /\ Len(new) = 1 /\ new[1] = buf'
            BY <3>4, <3>5
        <3>8. QED
            BY <3>1, <3>2, <3>4, <3>6, <3>7
    <2>2. CASE EmitWindow
        <3>1. Len(inner) >= k
            BY <1>1, <2>2 DEF EmitWindow
        <3>2. Len(Windows) = Len(inner) - k + 1
            BY <1>1, <3>1, WindowsAre
        <3>3. count + 1 \in 1 .. Len(inner) - k + 1
            BY <1>1, <3>2
        <3>4. Windows[count + 1] = JoinWords(SubSeq(inner, count + 1, count + 1 + k - 1))
            BY <1>1, <3>1, <3>3, WindowsAre
        <3>5. buf' = Windows[count + 1] /\ buf' \in Seq(Alphabet)
            <4>1. buf' = PushWords(<< >>, count + 1, k)
                BY <2>2 DEF EmitWindow
            <4>2. count + 1 \in Nat /\ count + 1 # 0 /\ count + 1 + k - 1 <= Len(ranges)
                BY <1>1, <3>3
            <4> HIDE DEF count
            <4>3. QED
                BY <1>1, <3>4, <4>1, <4>2, WordsOfTable
        <3>6. new = Append(shingles, buf') /\ returned' = (Len(new) > Len(ranges) - k)
            BY <2>2 DEF EmitWindow
        <3>7. /\ new \in Seq(Seq(Alphabet)) /\ Len(new) = count + 1
              /\ \A i \in 1 .. count : new[i] = shingles[i]
              /\ new[count + 1] = buf'
            BY <3>5, <3>6, AppendProperties DEF ShInv
        <3>8. returned' \in BOOLEAN
            BY <3>6
        <3>9. returned' <=> Len(new) = Len(Windows)
            <4>1. Len(new) > Len(ranges) - k <=> Len(new) = Len(Windows)
                <5> DEFINE last == Len(inner) - k
                <5>1. last \in Int /\ count \in Int /\ count + 1 <= last + 1
                    BY <1>1, <3>3
                <5>2. Len(ranges) - k = last /\ Len(Windows) = last + 1
                    BY <1>1, <3>2
                <5> HIDE DEF last, count
                <5>3. count + 1 > last <=> count + 1 = last + 1
                    BY <5>1
                <5>4. QED
                    BY <3>7, <5>2, <5>3
            <4>2. QED
                BY <3>6, <4>1, Zenon
        <3>10. QED
            BY <3>5, <3>7, <3>8, <3>9
    <2>3. QED
        BY <2>1, <2>2
<1> HIDE DEF new, count
<1>4. count \in Nat /\ Len(shingles) = count /\ count < Len(Windows) /\ Len(Windows) \in Int
    <2>1. Len(Windows) \in Int
        BY <1>1, WindowsAre
    <2>2. QED
        BY <1>1, <2>1 DEF count
<1>5. Emitted'
    <2>1. Len(new) <= Len(Windows)
        BY <1>3, <1>4
    <2>2. ASSUME NEW i \in 1 .. Len(new) PROVE new[i] = Windows[i]
        <3>1. i \in 1 .. count \/ i = count + 1
            BY <1>3, <1>4
        <3>2. \A j \in 1 .. count : shingles[j] = Windows[j]
            BY <1>4 DEF ShInv, Emitted
        <3>3. QED
            BY <1>3, <3>1, <3>2
    <2>3. ~returned' => Len(new) < Len(Windows)
        BY <1>3, <1>4, <2>1
    <2>4. QED
        BY <1>2, <1>3, <2>1, <2>2, <2>3 DEF Emitted, new
<1>6. new # << >>
    BY <1>3, <1>4
<1>7. QED
    <2>1. /\ inner' \in Documents /\ k' \in Sizes /\ flat' \in Seq(Alphabet)
          /\ ranges' \in Seq(Nat \X Nat) /\ Len(ranges') <= Len(inner')
        BY <1>2 DEF ShInv
    <2>2. returned' \in BOOLEAN
        BY <1>3, Zenon
    <2>3. shingles' \in Seq(Seq(Alphabet)) /\ shingles' # << >>
        BY <1>3, <1>6 DEF new
    <2>4. ~(k' = 0 \/ Len(ranges') < Len(inner'))
        BY <1>1, <1>2
    <2>5. QED
        BY <1>2, <1>5, <2>1, <2>2, <2>3, <2>4 DEF ShInv

LEMMA ShingleInvariance == ShingleSpec => []ShInv
<1>1. ShInv /\ [ShingleNext]_shingleVars => ShInv'
    <2> SUFFICES ASSUME ShInv, [ShingleNext]_shingleVars PROVE ShInv'
        OBVIOUS
    <2>1. CASE Collect
        BY <2>1, CollectShInv
    <2>2. CASE EmitAll \/ EmitWindow
        BY <2>2, EmitShInv
    <2>3. CASE ReturnNothing
        <3>1. UNCHANGED <<inner, k, flat, ranges, buf, shingles, Windows>>
            BY <2>3 DEF ReturnNothing, Windows
        <3>2. returned' \in BOOLEAN /\ (k = 0 \/ inner = << >>)
            BY <2>3 DEF ReturnNothing
        <3>3. Len(Windows) = 0
            BY <3>2, Inner, WindowsAre
        <3>4. Emitted'
            BY <3>1, <3>2, <3>3, Inner DEF ShInv, Emitted
        <3>5. QED
            BY <3>1, <3>2, <3>4 DEF ShInv, Located
    <2>4. CASE UNCHANGED shingleVars
        BY <2>4 DEF ShInv, Located, Emitted, Windows, shingleVars
    <2>5. QED
        BY <2>1, <2>2, <2>3, <2>4 DEF ShingleNext
<1>2. QED
    BY InitShInv, <1>1, PTL DEF ShingleSpec

(* What for_each_token has emitted is a beginning of the shingles that tokens() returns,
   and all of them when it returns: for any words, any k and any number of words, through
   one flat buffer and one buffer of the shingle that is used again. *)
THEOREM PathsAgree == ShingleSpec => []ShinglePathsAgree
<1>1. ShInv => ShinglePathsAgree
    <2> SUFFICES ASSUME ShInv PROVE ShinglePathsAgree
        OBVIOUS
    <2> DEFINE n == Len(shingles)
    <2>1. /\ inner \in Seq(Seq(Alphabet)) /\ k \in Nat /\ n \in Nat /\ Len(Windows) \in Nat
          /\ Windows = [i \in 1 .. Len(Windows) |-> Windows[i]]
        BY Inner, WindowsAre
    <2>2. /\ n <= Len(Windows) /\ \A i \in 1 .. n : shingles[i] = Windows[i]
          /\ returned => n = Len(Windows)
          /\ shingles = [i \in 1 .. n |-> shingles[i]]
        BY LenProperties DEF ShInv, Emitted
    <2>3. returned => shingles = Windows
        BY <2>1, <2>2
    <2> DEFINE All == {Windows[i] : i \in 1 .. Len(Windows)}
    <2>4. Windows \in Seq(All)
        BY <2>1, SeqDef
    <2> HIDE DEF All
    <2>5. SubSeq(Windows, 1, n) = [i \in 1 .. n |-> Windows[i]]
        BY <2>1, <2>2, <2>4, StartOf
    <2>6. SubSeq(shingles, 1, n) = [i \in 1 .. n |-> shingles[i]]
        BY <2>1, StartOf DEF ShInv
    <2>7. QED
        BY <2>2, <2>3, <2>5, <2>6 DEF ShinglePathsAgree, IsPrefix
<1>2. QED
    BY <1>1, ShingleInvariance, PTL

-----------------------------------------------------------------------------
(* Tokenizers.  The segments kept of the first i segments of a text. *)

KeptRow(K) ==
    /\ DOMAIN K = 0 .. Len(text) /\ K[0] = << >>
    /\ \A i \in 1 .. Len(text) :
          K[i] = IF Kept(text[i]) THEN Append(K[i - 1], text[i]) ELSE K[i - 1]

Row == CHOOSE K : KeptRow(K)

LEMMA RowExists ==
    ASSUME text \in Seq(Segments)
    PROVE  KeptRow(Row) /\ KeptOf(text) = Row[Len(text)]
<1> DEFINE n == Len(text)
           Step(f, i) == IF Kept(text[i]) THEN Append(f[i - 1], text[i]) ELSE f[i - 1]
           Is(f, m) == f = [i \in 0 .. m |-> IF i = 0 THEN << >> ELSE Step(f, i)]
           S == {m \in Nat : m <= n => \E f : Is(f, m)}
<1>1. n \in Nat
    BY LenProperties
<1> HIDE DEF n
<1>2. 0 \in S
    <2>1. Is([i \in 0 .. 0 |-> << >>], 0)
        OBVIOUS
    <2>2. QED
        BY <2>1
<1>3. ASSUME NEW m \in Nat, m \in S PROVE m + 1 \in S
    <2> SUFFICES ASSUME m + 1 <= n PROVE \E f : Is(f, m + 1)
        OBVIOUS
    <2>1. PICK f : Is(f, m)
        BY <1>1, <1>3
    <2> DEFINE last == IF Kept(text[m + 1]) THEN Append(f[m], text[m + 1]) ELSE f[m]
               g == [i \in 0 .. m + 1 |-> IF i <= m THEN f[i] ELSE last]
    <2>2. /\ \A i \in 0 .. m : f[i] = IF i = 0 THEN << >> ELSE Step(f, i)
        BY <2>1
    <2>3. /\ \A i \in 0 .. m : g[i] = f[i]
          /\ g[m + 1] = last
        <3>1. ~(m + 1 <= m) /\ m + 1 \in 0 .. m + 1
            OBVIOUS
        <3>2. \A i \in 0 .. m : i <= m /\ i \in 0 .. m + 1
            OBVIOUS
        <3> HIDE DEF last
        <3>3. QED
            BY <3>1, <3>2, Zenon
    <2>4. g = [i \in 0 .. m + 1 |-> g[i]]
        OBVIOUS
    <2> HIDE DEF g
    <2>5. ASSUME NEW i \in 0 .. m + 1 PROVE g[i] = IF i = 0 THEN << >> ELSE Step(g, i)
        <3>1. CASE i = 0
            BY <2>2, <2>3, <3>1
        <3>2. CASE i \in 1 .. m
            <4>1. i \in 0 .. m /\ i - 1 \in 0 .. m /\ i # 0
                BY <3>2
            <4>2. g[i] = f[i] /\ g[i - 1] = f[i - 1]
                BY <2>3, <4>1
            <4>3. QED
                BY <2>2, <4>1, <4>2
        <3>3. CASE i = m + 1
            <4>1. i # 0 /\ i - 1 = m /\ m \in 0 .. m
                BY <3>3
            <4>2. g[i - 1] = f[m]
                BY <2>3, <4>1
            <4>3. QED
                BY <2>3, <3>3, <4>1, <4>2
        <3>4. i = 0 \/ i \in 1 .. m \/ i = m + 1
            OBVIOUS
        <3>5. QED
            BY <3>1, <3>2, <3>3, <3>4, Zenon
    <2> HIDE DEF Step, last
    <2>6. Is(g, m + 1)
        BY <2>4, <2>5, Zenon
    <2>7. QED
        BY <2>6, Zenon
<1> HIDE DEF S
<1>4. n \in S
    BY <1>1, <1>2, <1>3, SetInduction
<1>5. \E f : Is(f, n)
    <2>1. n <= n
        BY <1>1
    <2>2. QED
        BY <1>4, <2>1, Zenon DEF S
<1>6. PICK f : Is(f, n) /\ f = CHOOSE g : Is(g, n)
    BY <1>5
<1>7. KeptOf(text) = f[n]
    BY <1>6 DEF KeptOf, n, Step
<1>8. ASSUME NEW g PROVE Is(g, n) => KeptRow(g)
    <2> SUFFICES ASSUME Is(g, n) PROVE KeptRow(g)
        OBVIOUS
    <2>1. DOMAIN g = 0 .. n
        OBVIOUS
    <2>2. \A i \in 0 .. n : g[i] = IF i = 0 THEN << >> ELSE Step(g, i)
        OBVIOUS
    <2>3. 0 \in 0 .. n /\ \A i \in 1 .. n : i \in 0 .. n /\ i # 0
        BY <1>1
    <2> HIDE DEF Is
    <2>4. QED
        BY <2>1, <2>2, <2>3 DEF KeptRow, n
<1>9. KeptRow(Row)
    BY <1>5, <1>8 DEF Row
<1>10. Row[n] = f[n]
    <2> DEFINE T == {i \in Nat : i <= n => Row[i] = f[i]}
    <2>1. KeptRow(f)
        BY <1>6, <1>8
    <2>2. 0 \in T
        BY <1>9, <2>1 DEF KeptRow
    <2>3. ASSUME NEW m \in Nat, m \in T PROVE m + 1 \in T
        <3> SUFFICES ASSUME m + 1 <= n PROVE Row[m + 1] = f[m + 1]
            OBVIOUS
        <3>1. m + 1 \in 1 .. Len(text) /\ (m + 1) - 1 = m /\ Row[m] = f[m]
            BY <1>1, <2>3 DEF n
        <3>2. QED
            BY <1>9, <2>1, <3>1 DEF KeptRow
    <2> HIDE DEF T
    <2>4. n \in T
        BY <1>1, <2>2, <2>3, SetInduction
    <2>5. QED
        BY <1>1, <2>4 DEF T
<1>11. QED
    BY <1>7, <1>9, <1>10 DEF n

\* What was kept of a part is a beginning of what is kept in the end.
LEMMA RowGrows ==
    ASSUME text \in Seq(Segments)
    PROVE  \A i \in 0 .. Len(text) :
               /\ Row[i] \in Seq(Segments) /\ Len(Row[i]) <= i
               /\ \A j \in 1 .. Len(Row[i]) : Kept(Row[i][j])
               /\ \A m \in 0 .. i :
                     /\ Len(Row[m]) \in Nat /\ Len(Row[m]) <= Len(Row[i])
                     /\ \A j \in 1 .. Len(Row[m]) : Row[i][j] = Row[m][j]
<1> DEFINE n == Len(text)
           Good1(i) == /\ Row[i] \in Seq(Segments) /\ Len(Row[i]) <= i
                       /\ \A j \in 1 .. Len(Row[i]) : Kept(Row[i][j])
           Good2(i) == \A m \in 0 .. i :
                           /\ Len(Row[m]) \in Nat /\ Len(Row[m]) <= Len(Row[i])
                           /\ \A j \in 1 .. Len(Row[m]) : Row[i][j] = Row[m][j]
           S == {i \in Nat : i <= n => Good1(i) /\ Good2(i)}
<1>1. n \in Nat /\ KeptRow(Row)
    BY LenProperties, RowExists
<1>2. 0 \in S
    <2>1. Row[0] = << >>
        BY <1>1 DEF KeptRow
    <2>2. Row[0] \in Seq(Segments) /\ Len(Row[0]) = 0
        BY <2>1
    <2>3. Good1(0)
        BY <2>2
    <2>4. Good2(0)
        <3>1. \A m \in 0 .. 0 : m = 0
            OBVIOUS
        <3>2. QED
            BY <2>2, <3>1
    <2>5. QED
        BY <2>3, <2>4
<1>3. ASSUME NEW i \in Nat, i \in S PROVE i + 1 \in S
    <2> SUFFICES ASSUME i + 1 <= n PROVE Good1(i + 1) /\ Good2(i + 1)
        OBVIOUS
    <2>1. Good1(i) /\ Good2(i)
        BY <1>1, <1>3
    <2>2. i + 1 \in 1 .. Len(text) /\ (i + 1) - 1 = i /\ text[i + 1] \in Segments
        BY <1>1, ElementOfSeq
    <2>3. Row[i + 1] = IF Kept(text[i + 1]) THEN Append(Row[i], text[i + 1]) ELSE Row[i]
        BY <1>1, <2>2 DEF KeptRow
    <2> DEFINE old == Row[i]
               new == Row[i + 1]
    <2>4. /\ old \in Seq(Segments) /\ Len(old) \in Nat /\ Len(old) <= i
          /\ \A j \in 1 .. Len(old) : Kept(old[j])
        BY <2>1, LenProperties
    <2> HIDE DEF old, new
    <2>5. /\ new \in Seq(Segments) /\ Len(new) \in Nat /\ Len(new) <= i + 1
          /\ \A j \in 1 .. Len(new) : Kept(new[j])
          /\ Len(old) <= Len(new) /\ \A j \in 1 .. Len(old) : new[j] = old[j]
        <3>1. CASE Kept(text[i + 1])
            <4>1. new = Append(old, text[i + 1])
                BY <2>3, <3>1 DEF old, new
            <4>2. /\ new \in Seq(Segments) /\ Len(new) = Len(old) + 1
                  /\ \A j \in 1 .. Len(old) : new[j] = old[j]
                  /\ new[Len(old) + 1] = text[i + 1]
                BY <2>2, <2>4, <4>1, AppendProperties
            <4>3. \A j \in 1 .. Len(old) + 1 : j \in 1 .. Len(old) \/ j = Len(old) + 1
                BY <2>4
            <4>4. QED
                BY <2>4, <3>1, <4>2, <4>3
        <3>2. CASE ~Kept(text[i + 1])
            <4>1. new = old
                BY <2>3, <3>2 DEF old, new
            <4>2. QED
                BY <2>4, <4>1
        <3>3. QED
            BY <3>1, <3>2
    <2>6. Good1(i + 1)
        BY <2>5 DEF new
    <2>7. ASSUME NEW m \in 0 .. i + 1
          PROVE  Len(Row[m]) \in Nat /\ Len(Row[m]) <= Len(new) /\ \A j \in 1 .. Len(Row[m]) : new[j] = Row[m][j]
        <3>1. CASE m = i + 1
            BY <2>5, <3>1 DEF new
        <3>2. CASE m \in 0 .. i
            <4>1. Len(Row[m]) <= Len(old) /\ \A j \in 1 .. Len(Row[m]) : old[j] = Row[m][j]
                BY <2>1, <3>2 DEF old
            <4>2. Len(Row[m]) \in Nat
                BY <2>1, <3>2
            <4>3. QED
                BY <2>4, <2>5, <4>1, <4>2
        <3>3. QED
            BY <3>1, <3>2
    <2>8. QED
        BY <2>6, <2>7 DEF new
<1> HIDE DEF S
<1>4. \A i \in Nat : i \in S
    BY <1>2, <1>3, SetInduction
<1>5. QED
    BY <1>1, <1>4 DEF S

LEMMA ListedIs ==
    ASSUME text \in Seq(Segments)
    PROVE  /\ Len(Listed) = Len(Row[Len(text)]) /\ Len(Listed) \in Nat
           /\ Listed = [j \in 1 .. Len(Listed) |-> Row[Len(text)][j].text]
           /\ Listed \in Seq(Seq(Letters))
           /\ KeptOf(text) = Row[Len(text)]
<1> DEFINE all == Row[Len(text)]
<1>1. KeptOf(text) = all
    BY RowExists
<1>2. all \in Seq(Segments) /\ Len(all) \in Nat /\ DOMAIN all = 1 .. Len(all)
    <2>1. Len(text) \in Nat /\ Len(text) \in 0 .. Len(text)
        BY LenProperties
    <2>2. all \in Seq(Segments)
        BY <2>1, RowGrows
    <2> HIDE DEF all
    <2>3. QED
        BY <2>2, LenProperties
<1>3. Listed = [j \in DOMAIN all |-> all[j].text]
    BY <1>1 DEF Listed, TokensOf, IntoStringIter, Stream
<1> HIDE DEF all
<1>4. \A j \in 1 .. Len(all) : all[j].text \in Seq(Letters)
    <2>1. \A j \in 1 .. Len(all) : all[j] \in Segments
        BY <1>2, ElementOfSeq
    <2>2. QED
        BY <2>1, SegmentAssumption
<1>5. Listed \in [1 .. Len(all) -> Seq(Letters)]
    BY <1>2, <1>3, <1>4
<1>6. Listed \in Seq(Seq(Letters)) /\ Len(Listed) = Len(all)
    BY <1>2, <1>5
<1>7. QED
    BY <1>1, <1>2, <1>3, <1>6 DEF all

(* The inductive invariant: how far a walk is.  Two tokenizers walk the tokens, two the
   segments, and those have emitted what was kept of the segments they have come to. *)
TkInv ==
    /\ tokenizer \in TokenizerKinds /\ text \in Seq(Segments)
    /\ visited \in Nat /\ emitted \in Seq(Seq(Letters))
    /\ tokenizer \in {"word", "custom"} =>
          /\ visited <= Len(Listed) /\ Len(emitted) = visited
          /\ \A j \in 1 .. visited : emitted[j] = Listed[j]
    /\ tokenizer \in {"grapheme", "cjk"} =>
          /\ visited <= Len(text) /\ Len(emitted) = Len(Row[visited])
          /\ \A j \in 1 .. Len(emitted) : emitted[j] = Row[visited][j].text

\* Neither depends on how far a walk is.
LEMMA SameText ==
    ASSUME UNCHANGED <<tokenizer, text>>
    PROVE  UNCHANGED <<Listed, Row>>
BY DEF Listed, TokensOf, KeptOf, Kept, IntoStringIter, Stream, Row, KeptRow

LEMMA WholeStep ==
    ASSUME TkInv, tokenizer \in {"word", "custom"}, visited < Len(Listed),
           UNCHANGED <<tokenizer, text>>, visited' = visited + 1,
           emitted' = Append(emitted, Listed[visited + 1])
    PROVE  TkInv'
<1>1. UNCHANGED Listed
    BY SameText
<1>2. /\ text \in Seq(Segments) /\ Len(Listed) \in Nat /\ Listed \in Seq(Seq(Letters))
      /\ visited \in Nat /\ emitted \in Seq(Seq(Letters)) /\ Len(emitted) = visited
      /\ \A j \in 1 .. visited : emitted[j] = Listed[j]
    BY ListedIs DEF TkInv
<1> DEFINE token == Listed[visited + 1]
<1>3. token \in Seq(Letters)
    <2>1. visited + 1 \in 1 .. Len(Listed)
        BY <1>2
    <2>2. QED
        BY <1>2, <2>1, ElementOfSeq
<1> HIDE DEF token
<1>4. /\ emitted' \in Seq(Seq(Letters)) /\ Len(emitted') = visited + 1
      /\ \A j \in 1 .. visited : emitted'[j] = emitted[j]
      /\ emitted'[visited + 1] = token
    BY <1>2, <1>3, AppendProperties DEF token
<1>5. \A j \in 1 .. visited + 1 : j \in 1 .. visited \/ j = visited + 1
    BY <1>2
<1>6. \A j \in 1 .. visited + 1 : emitted'[j] = Listed[j]
    BY <1>2, <1>4, <1>5 DEF token
<1>7. visited + 1 \in Nat /\ visited + 1 <= Len(Listed)
    BY <1>2
<1>8. QED
    BY <1>1, <1>4, <1>6, <1>7 DEF TkInv

LEMMA PartStep ==
    ASSUME TkInv, tokenizer \in {"grapheme", "cjk"}, visited < Len(text),
           UNCHANGED <<tokenizer, text>>, visited' = visited + 1,
           emitted' = IF Kept(text[visited + 1]) THEN Append(emitted, text[visited + 1].text)
                      ELSE emitted
    PROVE  TkInv'
<1> DEFINE segment == text[visited + 1]
           old == Row[visited]
           new == Row[visited + 1]
<1>1. UNCHANGED Row
    BY SameText
<1>2. /\ text \in Seq(Segments) /\ visited \in Nat /\ Len(text) \in Nat
      /\ emitted \in Seq(Seq(Letters)) /\ Len(emitted) = Len(old)
      /\ \A j \in 1 .. Len(emitted) : emitted[j] = old[j].text
    BY LenProperties DEF TkInv
<1>3. visited + 1 \in 1 .. Len(text) /\ visited \in 0 .. Len(text) /\ (visited + 1) - 1 = visited
    BY <1>2
<1>4. segment \in Segments /\ segment.text \in Seq(Letters)
    <2>1. segment \in Segments
        BY <1>2, <1>3, ElementOfSeq
    <2> HIDE DEF segment
    <2>2. QED
        BY <2>1, SegmentAssumption
<1>5. new = IF Kept(segment) THEN Append(old, segment) ELSE old
    BY <1>2, <1>3, RowExists DEF KeptRow
<1>6. old \in Seq(Segments) /\ Len(old) \in Nat
    BY <1>2, <1>3, RowGrows, LenProperties
<1>7. visited' = visited + 1
    OBVIOUS
<1>8. emitted' = IF Kept(segment) THEN Append(emitted, segment.text) ELSE emitted
    OBVIOUS
<1> HIDE DEF segment, old, new
<1>9. /\ emitted' \in Seq(Seq(Letters)) /\ Len(emitted') = Len(new)
      /\ \A j \in 1 .. Len(emitted') : emitted'[j] = new[j].text
    <2>1. CASE Kept(segment)
        <3>1. /\ emitted' \in Seq(Seq(Letters)) /\ Len(emitted') = Len(emitted) + 1
              /\ \A j \in 1 .. Len(emitted) : emitted'[j] = emitted[j]
              /\ emitted'[Len(emitted) + 1] = segment.text
            BY <1>2, <1>4, <1>8, <2>1, AppendProperties
        <3>2. /\ Len(new) = Len(old) + 1
              /\ \A j \in 1 .. Len(old) : new[j] = old[j]
              /\ new[Len(old) + 1] = segment
            BY <1>4, <1>5, <1>6, <2>1, AppendProperties
        <3>3. \A j \in 1 .. Len(old) + 1 : j \in 1 .. Len(old) \/ j = Len(old) + 1
            BY <1>6
        <3>4. QED
            BY <1>2, <3>1, <3>2, <3>3
    <2>2. CASE ~Kept(segment)
        BY <1>2, <1>5, <1>8, <2>2
    <2>3. QED
        BY <2>1, <2>2
<1>10. Row'[visited'] = new
    BY <1>1, <1>7 DEF new
<1>11. visited' \in Nat /\ visited' <= Len(text)
    BY <1>2, <1>3
<1>12. QED
    BY <1>9, <1>10, <1>11 DEF TkInv

LEMMA TokenizerInvariance == TokenizerSpec => []TkInv
<1>1. TokenizerInit => TkInv
    <2> SUFFICES ASSUME TokenizerInit PROVE TkInv
        OBVIOUS
    <2>1. text \in Seq(Segments) /\ visited = 0 /\ emitted = << >> /\ tokenizer \in TokenizerKinds
        BY SegmentAssumption DEF TokenizerInit
    <2>2. Len(Listed) \in Nat /\ Len(text) \in Nat /\ Row[0] = << >>
        BY <2>1, ListedIs, RowExists, LenProperties DEF KeptRow
    <2>3. emitted \in Seq(Seq(Letters)) /\ Len(emitted) = 0 /\ Len(Row[visited]) = 0
        BY <2>1, <2>2
    <2>4. QED
        BY <2>1, <2>2, <2>3 DEF TkInv
<1>2. TkInv /\ [TokenizerNext]_tokenizerVars => TkInv'
    <2> SUFFICES ASSUME TkInv, [TokenizerNext]_tokenizerVars PROVE TkInv'
        OBVIOUS
    <2>1. CASE Cut \/ UNCHANGED tokenizerVars
        <3>1. UNCHANGED <<tokenizer, text, visited, emitted>>
            BY <2>1 DEF Cut, tokenizerVars
        <3>2. UNCHANGED <<Listed, Row>>
            BY <3>1, SameText
        <3>3. QED
            BY <3>1, <3>2 DEF TkInv
    <2>2. CASE ForEachWord
        <3>1. /\ tokenizer = "word" /\ visited < Len(KeptOf(text)) /\ visited' = visited + 1
              /\ UNCHANGED <<tokenizer, text>>
              /\ emitted' = Append(emitted, KeptOf(text)[visited + 1].text)
            BY <2>2 DEF ForEachWord, Advance
        <3>2. KeptOf(text) = Row[Len(text)] /\ Len(Listed) = Len(Row[Len(text)])
              /\ Listed = [j \in 1 .. Len(Listed) |-> Row[Len(text)][j].text]
            BY ListedIs DEF TkInv
        <3>3. visited + 1 \in 1 .. Len(Listed)
            BY <3>1, <3>2, ListedIs DEF TkInv
        <3>4. Listed[visited + 1] = KeptOf(text)[visited + 1].text
            BY <3>2, <3>3
        <3>5. QED
            BY <3>1, <3>2, <3>4, WholeStep
    <2>3. CASE ForEachDefault
        <3>1. /\ tokenizer = "custom" /\ visited < Len(Listed) /\ visited' = visited + 1
              /\ UNCHANGED <<tokenizer, text>>
              /\ emitted' = Append(emitted, Listed[visited'])
            BY <2>3 DEF ForEachDefault, Listed
        <3>2. QED
            BY <3>1, WholeStep
    <2>4. CASE ForEachGrapheme
        <3>1. Kept(text[visited + 1]) = KeptByGrapheme(text[visited + 1])
            BY <2>4 DEF ForEachGrapheme, Kept
        <3>2. QED
            BY <2>4, <3>1, PartStep DEF ForEachGrapheme, Advance
    <2>5. CASE ForEachCjk
        <3>1. Kept(text[visited + 1]) = KeptByCjk(text[visited + 1])
            BY <2>5 DEF ForEachCjk, Kept
        <3>2. QED
            BY <2>5, <3>1, PartStep DEF ForEachCjk, Advance
    <2>6. QED
        BY <2>1, <2>2, <2>3, <2>4, <2>5 DEF TokenizerNext
<1>3. QED
    BY <1>1, <1>2, PTL DEF TokenizerSpec

LEMMA EmittedIs ==
    ASSUME TkInv
    PROVE  /\ Len(emitted) \in Nat /\ Len(Listed) \in Nat
           /\ Len(emitted) <= Len(Listed)
           /\ \A j \in 1 .. Len(emitted) :
                 /\ emitted[j] = Listed[j]
                 /\ Listed[j] = Row[Len(text)][j].text
                 /\ Row[Len(text)][j] \in Segments /\ Kept(Row[Len(text)][j])
           /\ Walked => Len(emitted) = Len(Listed)
<1> DEFINE n == Len(text)
           all == Row[n]
<1>1. /\ text \in Seq(Segments) /\ n \in Nat /\ n \in 0 .. n /\ Len(emitted) \in Nat
      /\ visited \in Nat /\ tokenizer \in TokenizerKinds
    BY LenProperties DEF TkInv
<1>2. /\ Len(Listed) \in Nat /\ Len(Listed) = Len(all)
      /\ Listed = [j \in 1 .. Len(Listed) |-> all[j].text]
    BY <1>1, ListedIs
<1>3. \A j \in 1 .. Len(all) : all[j] \in Segments /\ Kept(all[j])
    <2>1. all \in Seq(Segments) /\ \A j \in 1 .. Len(all) : Kept(all[j])
        BY <1>1, RowGrows
    <2> HIDE DEF all
    <2>2. QED
        BY <2>1, ElementOfSeq
<1>4. \A j \in 1 .. Len(Listed) : Listed[j] = all[j].text
    BY <1>2
<1>5. /\ Len(emitted) <= Len(Listed) /\ \A j \in 1 .. Len(emitted) : emitted[j] = Listed[j]
      /\ Walked => Len(emitted) = Len(Listed)
    <2>1. CASE tokenizer \in {"word", "custom"}
        BY <1>1, <1>2, <2>1 DEF TkInv, Walked
    <2>2. CASE tokenizer \in {"grapheme", "cjk"}
        <3> DEFINE part == Row[visited]
        <3>1. /\ visited \in 0 .. n /\ Len(emitted) = Len(part)
              /\ \A j \in 1 .. Len(emitted) : emitted[j] = part[j].text
            BY <1>1, <2>2 DEF TkInv
        <3>2. Len(part) <= Len(all) /\ \A j \in 1 .. Len(part) : all[j] = part[j]
            BY <1>1, <3>1, RowGrows
        <3>3. Walked => visited = n
            BY <2>2 DEF Walked
        <3> HIDE DEF all
        <3>4. Walked => part = all
            BY <3>3 DEF all
        <3> HIDE DEF part, n
        <3>5. \A j \in 1 .. Len(emitted) : j \in 1 .. Len(Listed)
            BY <1>1, <1>2, <3>1, <3>2
        <3>6. QED
            BY <1>2, <1>4, <3>1, <3>2, <3>4, <3>5
    <2>3. QED
        BY <1>1, <2>1, <2>2 DEF TokenizerKinds
<1>6. \A j \in 1 .. Len(emitted) : j \in 1 .. Len(Listed)
    BY <1>1, <1>2, <1>5
<1> HIDE DEF all
<1>7. \A j \in 1 .. Len(emitted) : Listed[j] = all[j].text /\ all[j] \in Segments /\ Kept(all[j])
    BY <1>2, <1>3, <1>4, <1>6
<1>8. QED
    BY <1>1, <1>2, <1>5, <1>7 DEF all

\* What FlattenSeq makes, one piece after the other.
ByPiece(p, pieces, n) ==
    /\ p[0] = << >> /\ FlattenSeq(pieces) = p[n]
    /\ \A i \in 1 .. n : p[i] = p[i - 1] \o pieces[i]

LEMMA FlattenedByPiece ==
    ASSUME NEW C, NEW n \in Nat, NEW pieces, pieces \in [1 .. n -> Seq(C)]
    PROVE  \E p \in [0 .. n -> Seq(C)] : ByPiece(p, pieces, n)
<1>1. PICK q \in [1 .. n -> Seq(C)] : Grows(q, pieces, n)
    BY TextsExist
<1> DEFINE p == [i \in 0 .. n |-> IF i = 0 THEN << >> ELSE q[i]]
<1>2. /\ p \in [0 .. n -> Seq(C)] /\ p[0] = << >> /\ \A i \in 1 .. n : p[i] = q[i]
    OBVIOUS
<1> HIDE DEF p
<1>3. ASSUME NEW i \in 1 .. n PROVE p[i] = p[i - 1] \o pieces[i]
    <2>0. i = 1 \/ i \in 2 .. n
        OBVIOUS
    <2>1. CASE i = 1
        <3>1. pieces[1] \in Seq(C) /\ << >> \o pieces[1] = pieces[1]
            BY <2>1, ConcatEmptySeq
        <3>2. p[1] = pieces[1] /\ p[1 - 1] = << >>
            BY <1>1, <1>2, <2>1 DEF Grows
        <3>3. QED
            BY <2>1, <3>1, <3>2
    <2>2. CASE i \in 2 .. n
        <3>1. q[i] = q[i - 1] \o pieces[i]
            BY <1>1, <2>2, Zenon DEF Grows
        <3>2. i - 1 \in 1 .. n
            BY <2>2
        <3>3. QED
            BY <1>2, <3>1, <3>2
    <2>3. QED
        BY <2>0, <2>1, <2>2, Zenon
<1>4. FlattenSeq(pieces) = p[n]
    <2>1. CASE n = 0
        <3>1. Len(pieces) = 0 /\ pieces = << >>
            BY <2>1
        <3>2. QED
            BY <1>2, <2>1, <3>1 DEF FlattenSeq
    <2>2. CASE n # 0
        <3>1. FlattenSeq(pieces) = q[n]
            BY <1>1, <2>2, Flattened
        <3>2. n \in 1 .. n
            BY <2>2
        <3>3. QED
            BY <1>2, <3>1, <3>2
    <2>3. QED
        BY <2>1, <2>2
<1>5. QED
    BY <1>2, <1>3, <1>4 DEF ByPiece

\* A grapheme that is left out has no characters.
LEMMA GraphemesLoseNothing ==
    ASSUME text \in Seq(Segments), tokenizer = "grapheme"
    PROVE  FlattenSeq(Listed) = FlattenSeq([i \in DOMAIN text |-> text[i].text])
<1> DEFINE n == Len(text)
           all == Row[n]
           m == Len(Listed)
           texts == [i \in DOMAIN text |-> text[i].text]
<1>1. n \in Nat /\ DOMAIN text = 1 .. n /\ n \in 0 .. n
    BY LenProperties
<1>2. /\ m = Len(all) /\ m \in Nat /\ Listed \in [1 .. m -> Seq(Letters)]
      /\ \A j \in 1 .. m : Listed[j] = all[j].text
    BY ListedIs, LenProperties
<1>3. texts \in [1 .. n -> Seq(Letters)] /\ \A i \in 1 .. n : texts[i] = text[i].text
    <2>1. \A i \in 1 .. n : text[i] \in Segments
        BY <1>1, ElementOfSeq
    <2>2. \A i \in 1 .. n : text[i].text \in Seq(Letters)
        BY <2>1, SegmentAssumption
    <2>3. QED
        BY <1>1, <2>2
<1>4. /\ Row[0] = << >>
      /\ \A i \in 1 .. n : Row[i] = IF Kept(text[i]) THEN Append(Row[i - 1], text[i]) ELSE Row[i - 1]
    BY <1>1, RowExists DEF KeptRow
<1>5. \A i \in 0 .. n : /\ Row[i] \in Seq(Segments) /\ Len(Row[i]) \in Nat
                       /\ Len(Row[i]) <= m
                       /\ \A j \in 1 .. Len(Row[i]) : all[j] = Row[i][j]
    BY <1>1, <1>2, RowGrows
<1> HIDE DEF texts, m, all, n
<1>6. PICK p \in [0 .. n -> Seq(Letters)] : ByPiece(p, texts, n)
    BY <1>1, <1>3, FlattenedByPiece
<1>7. PICK r \in [0 .. m -> Seq(Letters)] : ByPiece(r, Listed, m)
    BY <1>2, FlattenedByPiece
<1> DEFINE S == {i \in Nat : i <= n => p[i] = r[Len(Row[i])]}
<1>8. 0 \in S
    <2>1. Len(Row[0]) = 0
        BY <1>4
    <2>2. QED
        BY <1>6, <1>7, <2>1 DEF ByPiece
<1>9. ASSUME NEW i \in Nat, i \in S PROVE i + 1 \in S
    <2> SUFFICES ASSUME i + 1 <= n PROVE p[i + 1] = r[Len(Row[i + 1])]
        OBVIOUS
    <2>1. /\ i \in 0 .. n /\ i + 1 \in 0 .. n /\ i + 1 \in 1 .. n /\ (i + 1) - 1 = i
          /\ p[i] = r[Len(Row[i])]
        BY <1>1, <1>9
    <2> DEFINE old == Row[i]
               new == Row[i + 1]
               segment == text[i + 1]
    <2>2. new = IF Kept(segment) THEN Append(old, segment) ELSE old
        BY <1>4, <2>1
    <2>3. segment \in Segments /\ texts[i + 1] = segment.text
        BY <1>1, <1>3, <2>1, ElementOfSeq
    <2>4. p[i + 1] = p[i] \o segment.text /\ p[i] \in Seq(Letters)
        BY <1>6, <2>1, <2>3 DEF ByPiece
    <2>5. /\ old \in Seq(Segments) /\ Len(old) \in Nat
          /\ new \in Seq(Segments) /\ Len(new) \in Nat /\ Len(new) <= m
          /\ \A j \in 1 .. Len(new) : all[j] = new[j]
        BY <1>5, <2>1
    <2>6. p[i] = r[Len(old)]
        BY <2>1
    <2> HIDE DEF old, new, segment
    <2>7. CASE Kept(segment)
        <3>1. Len(new) = Len(old) + 1 /\ new[Len(old) + 1] = segment
            BY <2>2, <2>3, <2>5, <2>7, AppendProperties
        <3>2. /\ Len(old) + 1 \in 1 .. m /\ (Len(old) + 1) - 1 = Len(old)
              /\ all[Len(old) + 1] = segment
            BY <1>2, <2>5, <3>1
        <3>3. r[Len(old) + 1] = r[Len(old)] \o segment.text
            BY <1>2, <1>7, <3>2 DEF ByPiece
        <3>4. QED
            BY <2>4, <2>6, <3>1, <3>3 DEF new
    <2>8. CASE ~Kept(segment)
        <3>1. segment.text = << >>
            BY <2>3, <2>8, SegmentAssumption DEF Kept, KeptByGrapheme, Empty
        <3>2. p[i] \o << >> = p[i]
            BY <2>4, ConcatEmptySeq
        <3>3. p[i + 1] = r[Len(new)]
            BY <2>2, <2>4, <2>6, <2>8, <3>1, <3>2
        <3>4. QED
            BY <3>3 DEF new
    <2>9. QED
        BY <2>7, <2>8
<1> HIDE DEF S
<1>10. n \in S
    BY <1>1, <1>8, <1>9, SetInduction
<1>11. QED
    BY <1>1, <1>2, <1>6, <1>7, <1>10 DEF S, all, texts, n, ByPiece

(* Walking a text hands out the beginning of its stream and at the end the whole of it,
   no token of a word or CJK tokenizer is blank, and the graphemes put together are the
   text: for any set of segments that their characters classify, and texts of any
   length. *)
THEOREM TokensOfBothWays == TokenizerSpec => []TokensAgree
<1>1. TkInv => WalkFollowsStream
    <2> SUFFICES ASSUME TkInv PROVE WalkFollowsStream
        OBVIOUS
    <2> DEFINE n == Len(emitted)
    <2>1. /\ n \in Nat /\ n <= Len(Listed)
          /\ \A j \in 1 .. n : emitted[j] = Listed[j]
          /\ Walked => n = Len(Listed)
          /\ Len(Listed) \in Nat
        BY EmittedIs
    <2>2. emitted \in Seq(Seq(Letters)) /\ Listed \in Seq(Seq(Letters))
        BY ListedIs DEF TkInv
    <2>3. /\ emitted = [j \in 1 .. n |-> emitted[j]]
          /\ Listed = [j \in 1 .. Len(Listed) |-> Listed[j]]
        BY <2>2, LenProperties
    <2>4. /\ SubSeq(Listed, 1, n) = [j \in 1 .. n |-> Listed[j]]
          /\ SubSeq(emitted, 1, n) = [j \in 1 .. n |-> emitted[j]]
        BY <2>1, <2>2, StartOf
    <2>5. Walked => emitted = Listed
        BY <2>1, <2>3
    <2>6. IsPrefix(emitted, Listed)
        BY <2>1, <2>4 DEF IsPrefix
    <2>7. QED
        BY <2>5, <2>6 DEF WalkFollowsStream
<1>2. TkInv => BlanksAndLosses
    <2> SUFFICES ASSUME TkInv PROVE BlanksAndLosses
        OBVIOUS
    <2>1. ASSUME tokenizer # "grapheme", NEW j \in DOMAIN emitted, NEW s \in Segments,
                 s.text = emitted[j]
          PROVE  ~BlankWhenTrimmed(s)
        <3>1. j \in 1 .. Len(emitted)
            BY LenProperties DEF TkInv
        <3>2. PICK t \in Segments : Kept(t) /\ emitted[j] = t.text
            BY <3>1, EmittedIs
        <3>3. s.kind = t.kind
            BY <2>1, <3>2, SegmentAssumption
        <3>4. tokenizer \in {"word", "cjk", "custom"}
            BY <2>1 DEF TkInv, TokenizerKinds
        <3>5. QED
            BY <3>2, <3>3, <3>4 DEF Kept, IsWord, KeptByCjk, BlankWhenTrimmed
    <2>2. ASSUME tokenizer = "grapheme", Walked
          PROVE  FlattenSeq(emitted) = FlattenSeq([i \in DOMAIN text |-> text[i].text])
        BY <1>1, <2>2, GraphemesLoseNothing DEF WalkFollowsStream, TkInv
    <2>3. QED
        BY <2>1, <2>2 DEF BlanksAndLosses
<1>3. QED
    BY <1>1, <1>2, TokenizerInvariance, PTL DEF TokensAgree
-----------------------------------------------------------------------------
(* The canonicalizer.  Texts are sequences of any length over the alphabet of Unicode;
   what a table makes of a text is taken apart character by character. *)

\* A set that has the empty sequence and every sequence one element longer than one it
\* has, has all.
LEMMA SeqInduction ==
    ASSUME NEW A, NEW S, << >> \in S, \A s \in Seq(A) : \A x \in A : s \in S => Append(s, x) \in S
    PROVE  \A s \in Seq(A) : s \in S
<1> DEFINE N == {n \in Nat : \A s \in Seq(A) : Len(s) = n => s \in S}
<1>1. 0 \in N
    BY EmptySeq
<1>2. ASSUME NEW n \in Nat, n \in N PROVE n + 1 \in N
    <2> SUFFICES ASSUME NEW s \in Seq(A), Len(s) = n + 1 PROVE s \in S
        OBVIOUS
    <2> DEFINE front == SubSeq(s, 1, n)
               x == s[n + 1]
    <2>1. front \in Seq(A) /\ Len(front) = n /\ x \in A
        OBVIOUS
    <2>2. s = Append(front, x)
        OBVIOUS
    <2> HIDE DEF front, x
    <2>3. front \in S
        BY <1>2, <2>1
    <2>4. QED
        BY <2>1, <2>2, <2>3
<1> HIDE DEF N
<1>3. \A n \in Nat : n \in N
    BY <1>1, <1>2, SetInduction
<1>4. ASSUME NEW s \in Seq(A) PROVE s \in S
    BY <1>3 DEF N
<1>5. QED
    BY <1>4

LEMMA FunctionSeq ==
    ASSUME NEW A, NEW n \in Nat, NEW f \in [1 .. n -> A]
    PROVE  f \in Seq(A) /\ Len(f) = n
OBVIOUS

LEMMA FlattenNothing == FlattenSeq(<< >>) = << >>
BY DEF FlattenSeq

\* One more piece goes behind the others.
LEMMA FlattenLonger ==
    ASSUME NEW C, NEW n \in Nat, NEW pieces \in [1 .. n -> Seq(C)],
           NEW more \in [1 .. n + 1 -> Seq(C)], \A i \in 1 .. n : more[i] = pieces[i]
    PROVE  FlattenSeq(more) = FlattenSeq(pieces) \o more[n + 1] /\ FlattenSeq(pieces) \in Seq(C)
<1>0. n + 1 \in Nat
    OBVIOUS
<1>1. PICK p \in [0 .. n + 1 -> Seq(C)] : ByPiece(p, more, n + 1)
    BY <1>0, FlattenedByPiece
<1>2. FlattenSeq(more) = p[n] \o more[n + 1] /\ p[n] \in Seq(C)
    <2>1. n + 1 \in 1 .. n + 1 /\ (n + 1) - 1 = n /\ n \in 0 .. n + 1
        OBVIOUS
    <2>2. FlattenSeq(more) = p[n + 1] /\ p[n + 1] = p[n] \o more[n + 1]
        BY <1>1, <2>1 DEF ByPiece
    <2>3. QED
        BY <2>1, <2>2
<1>3. FlattenSeq(pieces) = p[n]
    <2>1. CASE n = 0
        <3>1. pieces = << >>
            BY <2>1
        <3>2. p[0] = << >>
            BY <1>1 DEF ByPiece
        <3>3. QED
            BY <2>1, <3>1, <3>2, FlattenNothing
    <2>2. CASE n # 0
        <3> DEFINE q == [i \in 1 .. n |-> p[i]]
        <3>1. q \in [1 .. n -> Seq(C)] /\ DOMAIN q = 1 .. n /\ \A i \in 1 .. n : q[i] = p[i]
            OBVIOUS
        <3> HIDE DEF q
        <3>2. q[1] = pieces[1]
            <4>1. 1 \in 1 .. n /\ 1 \in 1 .. n + 1 /\ 1 - 1 = 0
                BY <2>2
            <4>2. p[1] = p[0] \o more[1] /\ p[0] = << >>
                BY <1>1, <4>1 DEF ByPiece
            <4>3. << >> \o more[1] = more[1]
                BY <4>1, ConcatEmptySeq
            <4>4. QED
                BY <3>1, <4>1, <4>2, <4>3
        <3>3. ASSUME NEW i \in 2 .. n PROVE q[i] = q[i - 1] \o pieces[i]
            <4>1. i \in 1 .. n /\ i \in 1 .. n + 1 /\ i - 1 \in 1 .. n
                OBVIOUS
            <4>2. p[i] = p[i - 1] \o more[i]
                BY <1>1, <4>1 DEF ByPiece
            <4>3. QED
                BY <3>1, <4>1, <4>2
        <3>4. Grows(q, pieces, n)
            BY <3>1, <3>2, <3>3 DEF Grows
        <3>5. FlattenSeq(pieces) = q[n]
            BY <2>2, <3>1, <3>4, Flattened
        <3>6. QED
            BY <2>2, <3>1, <3>5
    <2>3. QED
        BY <2>1, <2>2
<1>4. QED
    BY <1>2, <1>3

-----------------------------------------------------------------------------
(* Tables and texts. *)

Image(table, c) == IF c \in DOMAIN table THEN table[c] ELSE <<c>>

\* A table from characters to strings of S.
Into(table, S) == \A c \in DOMAIN table : table[c] \in Seq(S)

LEMMA MappedNothing == ASSUME NEW table PROVE Mapped(table, << >>) = << >>
<1>1. [i \in DOMAIN << >> |-> IF << >>[i] \in DOMAIN table THEN table[<< >>[i]] ELSE << << >>[i] >>] = << >>
    OBVIOUS
<1>2. QED
    BY <1>1, FlattenNothing DEF Mapped

LEMMA MappedAppend ==
    ASSUME NEW C, NEW table, Into(table, C), NEW s \in Seq(C), NEW c \in C
    PROVE  /\ Mapped(table, Append(s, c)) = Mapped(table, s) \o Image(table, c)
           /\ Mapped(table, s) \in Seq(C) /\ Image(table, c) \in Seq(C)
<1> DEFINE n == Len(s)
           t == Append(s, c)
           pieces == [i \in DOMAIN s |-> Image(table, s[i])]
           more == [i \in DOMAIN t |-> Image(table, t[i])]
<1>0. \A x \in C : Image(table, x) \in Seq(C)
    <2>1. ASSUME NEW x \in C PROVE Image(table, x) \in Seq(C)
        <3>1. <<x>> \in Seq(C)
            OBVIOUS
        <3>2. QED
            BY <3>1 DEF Image, Into
    <2>2. QED
        BY <2>1
<1>1. /\ n \in Nat /\ DOMAIN s = 1 .. n /\ DOMAIN t = 1 .. n + 1 /\ t[n + 1] = c
      /\ \A i \in 1 .. n : t[i] = s[i] /\ s[i] \in C
    OBVIOUS
<1>2. \A i \in 1 .. n + 1 : t[i] \in C
    OBVIOUS
<1>3. Mapped(table, s) = FlattenSeq(pieces) /\ Mapped(table, t) = FlattenSeq(more)
    BY Zenon DEF Mapped, Image
<1> HIDE DEF n, t
<1>4. pieces \in [1 .. n -> Seq(C)] /\ \A i \in 1 .. n : pieces[i] = Image(table, s[i])
    BY <1>0, <1>1
<1>5. more \in [1 .. n + 1 -> Seq(C)] /\ \A i \in 1 .. n + 1 : more[i] = Image(table, t[i])
    BY <1>0, <1>1, <1>2
<1> HIDE DEF pieces, more
<1>6. \A i \in 1 .. n : more[i] = pieces[i]
    <2>1. \A i \in 1 .. n : i \in 1 .. n + 1
        BY <1>1
    <2>2. QED
        BY <1>1, <1>4, <1>5, <2>1
<1>7. FlattenSeq(more) = FlattenSeq(pieces) \o more[n + 1] /\ FlattenSeq(pieces) \in Seq(C)
    BY <1>1, <1>4, <1>5, <1>6, FlattenLonger
<1>8. more[n + 1] = Image(table, c)
    <2>1. n + 1 \in 1 .. n + 1
        BY <1>1
    <2>2. QED
        BY <1>1, <1>5, <2>1
<1>9. QED
    BY <1>0, <1>3, <1>7, <1>8 DEF t

LEMMA MappedType ==
    ASSUME NEW C, NEW table, Into(table, C)
    PROVE  \A s \in Seq(C) : Mapped(table, s) \in Seq(C)
<1> DEFINE S == {s \in Seq(C) : Mapped(table, s) \in Seq(C)}
<1>1. << >> \in S
    BY MappedNothing, EmptySeq
<1>2. ASSUME NEW s \in Seq(C), NEW x \in C, s \in S PROVE Append(s, x) \in S
    <2>1. /\ Mapped(table, Append(s, x)) = Mapped(table, s) \o Image(table, x)
          /\ Mapped(table, s) \in Seq(C) /\ Image(table, x) \in Seq(C)
        BY MappedAppend
    <2>2. Append(s, x) \in Seq(C) /\ Mapped(table, s) \o Image(table, x) \in Seq(C)
        BY <2>1
    <2>3. QED
        BY <2>1, <2>2
<1> HIDE DEF S
<1>3. \A s \in Seq(C) : s \in S
    BY <1>1, <1>2, SeqInduction
<1>4. QED
    BY <1>3 DEF S

LEMMA MappedConcat ==
    ASSUME NEW C, NEW table, Into(table, C), NEW s \in Seq(C)
    PROVE  \A t \in Seq(C) : Mapped(table, s \o t) = Mapped(table, s) \o Mapped(table, t)
<1> DEFINE S == {t \in Seq(C) : Mapped(table, s \o t) = Mapped(table, s) \o Mapped(table, t)}
<1>0. Mapped(table, s) \in Seq(C)
    BY MappedType
<1>1. << >> \in S
    <2>1. s \o << >> = s /\ Mapped(table, s) \o << >> = Mapped(table, s)
        BY <1>0
    <2>2. QED
        BY <2>1, MappedNothing, EmptySeq
<1>2. ASSUME NEW t \in Seq(C), NEW x \in C, t \in S PROVE Append(t, x) \in S
    <2>1. s \o Append(t, x) = Append(s \o t, x) /\ s \o t \in Seq(C) /\ Append(t, x) \in Seq(C)
        OBVIOUS
    <2>2. /\ Mapped(table, Append(t, x)) = Mapped(table, t) \o Image(table, x)
          /\ Mapped(table, t) \in Seq(C) /\ Image(table, x) \in Seq(C)
        BY MappedAppend
    <2>3. ASSUME NEW u \in Seq(C)
          PROVE  Mapped(table, Append(u, x)) = Mapped(table, u) \o Image(table, x)
        BY MappedAppend
    <2>4. Mapped(table, s \o t) = Mapped(table, s) \o Mapped(table, t)
        BY <1>2
    <2>5. (Mapped(table, s) \o Mapped(table, t)) \o Image(table, x)
             = Mapped(table, s) \o (Mapped(table, t) \o Image(table, x))
        BY <1>0, <2>2
    <2>6. Mapped(table, Append(s \o t, x)) = Mapped(table, s \o t) \o Image(table, x)
        BY <2>1, <2>3
    <2>7. QED
        BY <2>1, <2>2, <2>4, <2>5, <2>6
<1> HIDE DEF S
<1>3. \A t \in Seq(C) : t \in S
    BY <1>1, <1>2, SeqInduction
<1>4. QED
    BY <1>3 DEF S

\* Two tables that agree on the characters of a text map it alike.
LEMMA MappedAlike ==
    ASSUME NEW C, NEW table, Into(table, C), NEW other, Into(other, C),
           NEW B \in SUBSET C, \A c \in B : Image(table, c) = Image(other, c)
    PROVE  \A s \in Seq(B) : Mapped(table, s) = Mapped(other, s)
<1> DEFINE S == {s \in Seq(B) : Mapped(table, s) = Mapped(other, s)}
<1>1. << >> \in S
    BY MappedNothing, EmptySeq
<1>2. ASSUME NEW s \in Seq(B), NEW x \in B, s \in S PROVE Append(s, x) \in S
    <2>1. s \in Seq(C) /\ x \in C /\ Append(s, x) \in Seq(B)
        OBVIOUS
    <2>2. Mapped(table, Append(s, x)) = Mapped(table, s) \o Image(table, x)
        BY <2>1, MappedAppend
    <2>3. Mapped(other, Append(s, x)) = Mapped(other, s) \o Image(other, x)
        BY <2>1, MappedAppend
    <2>4. QED
        BY <1>2, <2>1, <2>2, <2>3
<1> HIDE DEF S
<1>3. \A s \in Seq(B) : s \in S
    BY <1>1, <1>2, SeqInduction
<1>4. QED
    BY <1>3 DEF S

\* A table that has none of the characters of a text leaves it alone.
LEMMA MappedNot ==
    ASSUME NEW C, NEW table, Into(table, C), NEW B \in SUBSET C, B \cap DOMAIN table = {}
    PROVE  \A s \in Seq(B) : Mapped(table, s) = s
<1> DEFINE S == {s \in Seq(B) : Mapped(table, s) = s}
<1>1. << >> \in S
    BY MappedNothing, EmptySeq
<1>2. ASSUME NEW s \in Seq(B), NEW x \in B, s \in S PROVE Append(s, x) \in S
    <2>1. s \in Seq(C) /\ x \in C /\ Append(s, x) \in Seq(B) /\ s \o <<x>> = Append(s, x)
        OBVIOUS
    <2>2. Mapped(table, Append(s, x)) = Mapped(table, s) \o Image(table, x)
        BY <2>1, MappedAppend
    <2>3. Image(table, x) = <<x>>
        BY DEF Image
    <2>4. QED
        BY <1>2, <2>1, <2>2, <2>3
<1> HIDE DEF S
<1>3. \A s \in Seq(B) : s \in S
    BY <1>1, <1>2, SeqInduction
<1>4. QED
    BY <1>3 DEF S

\* What a table makes of a text is made of the images of its characters.
LEMMA MappedInto ==
    ASSUME NEW C, NEW table, Into(table, C), NEW B \in SUBSET C, NEW D \in SUBSET C,
           \A c \in B : Image(table, c) \in Seq(D)
    PROVE  \A s \in Seq(B) : Mapped(table, s) \in Seq(D)
<1> DEFINE S == {s \in Seq(B) : Mapped(table, s) \in Seq(D)}
<1>1. << >> \in S
    BY MappedNothing, EmptySeq
<1>2. ASSUME NEW s \in Seq(B), NEW x \in B, s \in S PROVE Append(s, x) \in S
    <2>1. s \in Seq(C) /\ x \in C /\ Append(s, x) \in Seq(B)
        OBVIOUS
    <2>2. Mapped(table, Append(s, x)) = Mapped(table, s) \o Image(table, x)
        BY <2>1, MappedAppend
    <2>3. Image(table, x) \in Seq(D) /\ Mapped(table, s) \in Seq(D)
        BY <1>2
    <2>4. Mapped(table, s) \o Image(table, x) \in Seq(D)
        BY <2>3
    <2>5. QED
        BY <2>1, <2>2, <2>4
<1> HIDE DEF S
<1>3. \A s \in Seq(B) : s \in S
    BY <1>1, <1>2, SeqInduction
<1>4. QED
    BY <1>3 DEF S

\* Two tables in either order, if they may be applied to each character in either order.
LEMMA MappedEitherWay ==
    ASSUME NEW C, NEW table, Into(table, C), NEW other, Into(other, C),
           \A c \in C : Mapped(table, Image(other, c)) = Mapped(other, Image(table, c))
    PROVE  \A s \in Seq(C) : Mapped(table, Mapped(other, s)) = Mapped(other, Mapped(table, s))
<1> DEFINE S == {s \in Seq(C) : Mapped(table, Mapped(other, s)) = Mapped(other, Mapped(table, s))}
<1>1. << >> \in S
    BY MappedNothing, EmptySeq
<1>2. ASSUME NEW s \in Seq(C), NEW x \in C, s \in S PROVE Append(s, x) \in S
    <2>1. /\ Mapped(table, Append(s, x)) = Mapped(table, s) \o Image(table, x)
          /\ Mapped(table, s) \in Seq(C) /\ Image(table, x) \in Seq(C)
        BY MappedAppend
    <2>2. /\ Mapped(other, Append(s, x)) = Mapped(other, s) \o Image(other, x)
          /\ Mapped(other, s) \in Seq(C) /\ Image(other, x) \in Seq(C)
        BY MappedAppend
    <2>3. Mapped(table, Mapped(other, s) \o Image(other, x))
             = Mapped(table, Mapped(other, s)) \o Mapped(table, Image(other, x))
        BY <2>2, MappedConcat
    <2>4. Mapped(other, Mapped(table, s) \o Image(table, x))
             = Mapped(other, Mapped(table, s)) \o Mapped(other, Image(table, x))
        BY <2>1, MappedConcat
    <2>5. Append(s, x) \in Seq(C) /\ Mapped(table, Mapped(other, s)) = Mapped(other, Mapped(table, s))
        BY <1>2
    <2>6. QED
        BY <2>1, <2>2, <2>3, <2>4, <2>5
<1> HIDE DEF S
<1>3. \A s \in Seq(C) : s \in S
    BY <1>1, <1>2, SeqInduction
<1>4. QED
    BY <1>3 DEF S
-----------------------------------------------------------------------------
(* Ordering and composing, character by character. *)

Step(kind, acc, c) == IF kind = "order" THEN Insert(acc, c) ELSE Put(acc, c)

StepRow(kind, F, s) ==
    F = [n \in 0 .. Len(s) |-> IF n = 0 THEN << >> ELSE Step(kind, F[n - 1], s[n])]

OrderRow(F, s) == F = [n \in 0 .. Len(s) |-> IF n = 0 THEN << >> ELSE Insert(F[n - 1], s[n])]
PutRow(F, s) == F = [n \in 0 .. Len(s) |-> IF n = 0 THEN << >> ELSE Put(F[n - 1], s[n])]

LEMMA StepRowExists ==
    ASSUME NEW kind, NEW C, NEW s \in Seq(C)
    PROVE  \E F : StepRow(kind, F, s)
<1> DEFINE Is(F, m) == F = [i \in 0 .. m |-> IF i = 0 THEN << >> ELSE Step(kind, F[i - 1], s[i])]
           S == {m \in Nat : \E F : Is(F, m)}
<1>1. 0 \in S
    <2> DEFINE F == [i \in 0 .. 0 |-> << >>]
    <2>1. Is(F, 0)
        OBVIOUS
    <2>2. QED
        BY <2>1
<1>2. ASSUME NEW m \in Nat, m \in S PROVE m + 1 \in S
    <2>1. PICK F : Is(F, m)
        BY <1>2
    <2> DEFINE last == Step(kind, F[m], s[m + 1])
               G == [i \in 0 .. m + 1 |-> IF i <= m THEN F[i] ELSE last]
    <2> HIDE DEF last
    <2>2. /\ \A i \in 0 .. m : G[i] = F[i]
          /\ G[m + 1] = last /\ G = [i \in 0 .. m + 1 |-> G[i]]
        OBVIOUS
    <2> HIDE DEF G
    <2>3. ASSUME NEW i \in 0 .. m + 1
          PROVE  G[i] = IF i = 0 THEN << >> ELSE Step(kind, G[i - 1], s[i])
        <3>1. CASE i = 0
            <4>1. 0 \in 0 .. m
                OBVIOUS
            <4>2. F[0] = << >>
                BY <2>1, <4>1
            <4>3. QED
                BY <2>2, <3>1, <4>1, <4>2
        <3>2. CASE i # 0 /\ i <= m
            <4>1. i \in 0 .. m /\ i - 1 \in 0 .. m
                BY <3>2
            <4>2. F[i] = Step(kind, F[i - 1], s[i])
                BY <2>1, <3>2, <4>1
            <4>3. QED
                BY <2>2, <3>2, <4>1, <4>2
        <3>3. CASE i = m + 1
            <4>1. i # 0 /\ i - 1 = m /\ m \in 0 .. m
                BY <3>3
            <4>2. QED
                BY <2>2, <3>3, <4>1 DEF last
        <3>4. QED
            BY <3>1, <3>2, <3>3
    <2>4. Is(G, m + 1)
        BY <2>2, <2>3
    <2> HIDE DEF Is
    <2>5. m + 1 \in Nat
        OBVIOUS
    <2>6. QED
        BY <2>4, <2>5
<1> HIDE DEF S
<1>3. \A m \in Nat : m \in S
    BY <1>1, <1>2, SetInduction
<1>4. Len(s) \in Nat
    OBVIOUS
<1>5. QED
    BY <1>3, <1>4 DEF S, StepRow

LEMMA StepRowsAgree ==
    ASSUME NEW kind, NEW C, NEW s \in Seq(C), NEW c \in C,
           NEW F, StepRow(kind, F, s), NEW G, StepRow(kind, G, Append(s, c))
    PROVE  G[Len(s) + 1] = Step(kind, F[Len(s)], c)
<1> DEFINE m == Len(s)
           t == Append(s, c)
           S == {i \in Nat : i <= m => F[i] = G[i]}
<1>1. m \in Nat /\ Len(t) = m + 1 /\ t[m + 1] = c /\ \A i \in 1 .. m : t[i] = s[i]
    OBVIOUS
<1>2. \A i \in 0 .. m : F[i] = IF i = 0 THEN << >> ELSE Step(kind, F[i - 1], s[i])
    BY DEF StepRow
<1>3. \A i \in 0 .. m + 1 : G[i] = IF i = 0 THEN << >> ELSE Step(kind, G[i - 1], t[i])
    BY <1>1 DEF StepRow
<1> HIDE DEF m, t
<1>4. 0 \in S
    <2>1. 0 \in 0 .. m /\ 0 \in 0 .. m + 1
        BY <1>1
    <2>2. QED
        BY <1>2, <1>3, <2>1
<1>5. ASSUME NEW n \in Nat, n \in S PROVE n + 1 \in S
    <2> SUFFICES ASSUME n + 1 <= m PROVE F[n + 1] = G[n + 1]
        OBVIOUS
    <2>1. /\ n + 1 \in 0 .. m /\ n + 1 \in 0 .. m + 1 /\ n + 1 \in 1 .. m /\ n + 1 # 0
          /\ (n + 1) - 1 = n /\ n <= m
        BY <1>1
    <2>2. F[n] = G[n]
        BY <1>5, <2>1
    <2>3. F[n + 1] = Step(kind, F[n], s[n + 1])
        BY <1>2, <2>1
    <2>4. G[n + 1] = Step(kind, G[n], t[n + 1])
        BY <1>3, <2>1
    <2>5. QED
        BY <1>1, <2>1, <2>2, <2>3, <2>4
<1> HIDE DEF S
<1>6. \A n \in Nat : n \in S
    BY <1>4, <1>5, SetInduction
<1>7. F[m] = G[m]
    BY <1>1, <1>6 DEF S
<1>8. G[m + 1] = Step(kind, G[m], t[m + 1])
    <2>1. m + 1 \in 0 .. m + 1 /\ m + 1 # 0 /\ (m + 1) - 1 = m
        BY <1>1
    <2>2. QED
        BY <1>3, <2>1
<1>9. QED
    BY <1>1, <1>7, <1>8 DEF m

LEMMA OrderedRow ==
    ASSUME NEW C, NEW s \in Seq(C)
    PROVE  \E F : StepRow("order", F, s) /\ Ordered(s) = F[Len(s)]
<1> DEFINE F == CHOOSE F : OrderRow(F, s)
<1>1. \A G : OrderRow(G, s) <=> StepRow("order", G, s)
    BY DEF OrderRow, StepRow, Step
<1>2. OrderRow(F, s)
    BY <1>1, StepRowExists
<1>3. Ordered(s) = F[Len(s)]
    BY Zenon DEF Ordered, OrderRow
<1>4. QED
    BY <1>1, <1>2, <1>3

LEMMA ComposedRow ==
    ASSUME NEW C, NEW s \in Seq(C)
    PROVE  \E F : StepRow("put", F, s) /\ Composed(s) = F[Len(s)]
<1> DEFINE F == CHOOSE F : PutRow(F, s)
<1>1. \A G : PutRow(G, s) <=> StepRow("put", G, s)
    BY DEF PutRow, StepRow, Step
<1>2. PutRow(F, s)
    BY <1>1, StepRowExists
<1>3. Composed(s) = F[Len(s)]
    BY Zenon DEF Composed, PutRow
<1>4. QED
    BY <1>1, <1>2, <1>3

LEMMA NothingOrdered == Ordered(<< >>) = << >> /\ Composed(<< >>) = << >>
<1>1. << >> \in Seq({}) /\ Len(<< >>) = 0 /\ 0 \in 0 .. 0
    OBVIOUS
<1>2. PICK F : StepRow("order", F, << >>) /\ Ordered(<< >>) = F[Len(<< >>)]
    BY <1>1, OrderedRow
<1>3. PICK G : StepRow("put", G, << >>) /\ Composed(<< >>) = G[Len(<< >>)]
    BY <1>1, ComposedRow
<1>4. F[0] = << >> /\ G[0] = << >>
    BY <1>1, <1>2, <1>3 DEF StepRow
<1>5. QED
    BY <1>1, <1>2, <1>3, <1>4

LEMMA OrderedAppend ==
    ASSUME NEW C, NEW s \in Seq(C), NEW c \in C
    PROVE  Ordered(Append(s, c)) = Insert(Ordered(s), c)
<1>1. Append(s, c) \in Seq(C) /\ Len(Append(s, c)) = Len(s) + 1
    OBVIOUS
<1>2. PICK F : StepRow("order", F, s) /\ Ordered(s) = F[Len(s)]
    BY OrderedRow
<1>3. PICK G : StepRow("order", G, Append(s, c)) /\ Ordered(Append(s, c)) = G[Len(Append(s, c))]
    BY <1>1, OrderedRow
<1>4. G[Len(s) + 1] = Step("order", F[Len(s)], c)
    BY <1>2, <1>3, StepRowsAgree
<1>5. QED
    BY <1>1, <1>2, <1>3, <1>4 DEF Step

LEMMA ComposedAppend ==
    ASSUME NEW C, NEW s \in Seq(C), NEW c \in C
    PROVE  Composed(Append(s, c)) = Put(Composed(s), c)
<1>1. Append(s, c) \in Seq(C) /\ Len(Append(s, c)) = Len(s) + 1
    OBVIOUS
<1>2. PICK F : StepRow("put", F, s) /\ Composed(s) = F[Len(s)]
    BY ComposedRow
<1>3. PICK G : StepRow("put", G, Append(s, c)) /\ Composed(Append(s, c)) = G[Len(Append(s, c))]
    BY <1>1, ComposedRow
<1>4. G[Len(s) + 1] = Step("put", F[Len(s)], c)
    BY <1>2, <1>3, StepRowsAgree
<1>5. "put" # "order"
    OBVIOUS
<1>6. QED
    BY <1>1, <1>2, <1>3, <1>4, <1>5 DEF Step

-----------------------------------------------------------------------------
(* Where a mark goes. *)

LEMMA GreatestOf ==
    ASSUME NEW n \in Nat, NEW P \in SUBSET (0 .. n), P # {}
    PROVE  Max(P) \in P /\ \A q \in P : q <= Max(P)
<1> DEFINE S == {m \in Nat : \A Q \in SUBSET (0 .. m) :
                    Q # {} => \E x \in Q : \A y \in Q : x >= y}
<1>1. 0 \in S
    <2>1. ASSUME NEW Q \in SUBSET (0 .. 0), Q # {} PROVE \E x \in Q : \A y \in Q : x >= y
        <3>0. \A y \in Q : y \in 0 .. 0 /\ y = 0
            OBVIOUS
        <3>1. PICK x \in Q : TRUE
            BY <2>1
        <3>2. \A y \in Q : x >= y
            BY <3>0
        <3>3. QED
            BY <3>2
    <2>2. 0 \in Nat
        OBVIOUS
    <2>3. QED
        BY <2>1, <2>2
<1>2. ASSUME NEW m \in Nat, m \in S PROVE m + 1 \in S
    <2>1. ASSUME NEW Q \in SUBSET (0 .. m + 1), Q # {} PROVE \E x \in Q : \A y \in Q : x >= y
        <3>1. CASE m + 1 \in Q
            <4>1. \A y \in Q : m + 1 >= y
                OBVIOUS
            <4>2. QED
                BY <3>1, <4>1
        <3>2. CASE m + 1 \notin Q
            <4>1. Q \in SUBSET (0 .. m)
                BY <3>2
            <4>2. QED
                BY <1>2, <2>1, <4>1
        <3>3. QED
            BY <3>1, <3>2
    <2>2. m + 1 \in Nat
        OBVIOUS
    <2> HIDE DEF S
    <2>3. QED
        BY <2>1, <2>2 DEF S
<1> HIDE DEF S
<1>3. \A m \in Nat : m \in S
    BY <1>1, <1>2, SetInduction
<1>4. \E x \in P : \A y \in P : x >= y
    BY <1>3 DEF S
<1>5. Max(P) \in P /\ \A y \in P : Max(P) >= y
    BY <1>4 DEF Max
<1>6. P \subseteq Int
    OBVIOUS
<1>7. QED
    BY <1>5, <1>6
\* A mark is put behind what it may not pass.
Before(x, c) == ~IsMark(x) \/ Ccc(x) <= Ccc(c)

At(acc, p, c) ==
    [i \in 1 .. Len(acc) + 1 |-> IF i <= p THEN acc[i] ELSE IF i = p + 1 THEN c ELSE acc[i - 1]]

Place(acc, c, p) ==
    /\ p \in 0 .. Len(acc)
    /\ p # 0 => Before(acc[p], c)
    /\ \A q \in p + 1 .. Len(acc) : ~Before(acc[q], c)

LEMMA AtType ==
    ASSUME NEW C, NEW acc \in Seq(C), NEW c \in C, NEW p \in 0 .. Len(acc)
    PROVE  /\ At(acc, p, c) \in Seq(C) /\ Len(At(acc, p, c)) = Len(acc) + 1
           /\ At(acc, p, c) = SubSeq(acc, 1, p) \o <<c>> \o SubSeq(acc, p + 1, Len(acc))
<1> DEFINE n == Len(acc)
           f == At(acc, p, c)
           front == SubSeq(acc, 1, p)
           rest == SubSeq(acc, p + 1, n)
           g == front \o <<c>> \o rest
<1>1. n \in Nat /\ n + 1 \in Nat /\ p \in 0 .. n /\ \A i \in 1 .. n : acc[i] \in C
    OBVIOUS
<1>2. f \in [1 .. n + 1 -> C]
    <2>1. ASSUME NEW i \in 1 .. n + 1
          PROVE  (IF i <= p THEN acc[i] ELSE IF i = p + 1 THEN c ELSE acc[i - 1]) \in C
        BY <1>1
    <2>2. QED
        BY <2>1 DEF At
<1>3. f \in Seq(C) /\ Len(f) = n + 1
    <2> HIDE DEF f
    <2>1. QED
        BY <1>1, <1>2, FunctionSeq
<1>4. /\ front \in Seq(C) /\ Len(front) = p /\ \A i \in 1 .. p : front[i] = acc[i]
      /\ rest \in Seq(C) /\ Len(rest) = n - p /\ \A i \in 1 .. n - p : rest[i] = acc[p + i]
    BY <1>1
<1> HIDE DEF front, rest
<1>5. /\ g \in Seq(C) /\ Len(g) = n + 1 /\ g[p + 1] = c
      /\ \A i \in 1 .. p : g[i] = front[i]
      /\ \A i \in p + 2 .. n + 1 : g[i] = rest[i - (p + 1)]
    BY <1>1, <1>4
<1> HIDE DEF n, g
<1>6. ASSUME NEW i \in 1 .. n + 1 PROVE f[i] = g[i]
    <2>1. f[i] = IF i <= p THEN acc[i] ELSE IF i = p + 1 THEN c ELSE acc[i - 1]
        BY DEF At, n
    <2>2. CASE i <= p
        <3>1. i \in 1 .. p
            BY <1>1, <2>2
        <3>2. QED
            BY <1>4, <1>5, <2>1, <2>2, <3>1
    <2>3. CASE i = p + 1
        BY <1>1, <1>5, <2>1, <2>3
    <2>4. CASE i > p + 1
        <3>1. f[i] = acc[i - 1]
            BY <1>1, <2>1, <2>4
        <3>2. i \in p + 2 .. n + 1 /\ i - (p + 1) \in 1 .. n - p /\ p + (i - (p + 1)) = i - 1
            BY <1>1, <2>4
        <3>3. QED
            BY <1>4, <1>5, <3>1, <3>2
    <2>5. QED
        BY <1>1, <2>2, <2>3, <2>4
<1>7. f = g
    <2>1. f = [i \in 1 .. n + 1 |-> f[i]]
        BY <1>2
    <2>2. g = [i \in 1 .. n + 1 |-> g[i]]
        BY <1>5
    <2> HIDE DEF f
    <2>3. QED
        BY <1>6, <2>1, <2>2
<1>8. QED
    BY <1>3, <1>7 DEF g, front, rest, n

LEMMA OnePlace ==
    ASSUME NEW C, NEW acc \in Seq(C), NEW c, NEW p, Place(acc, c, p), NEW q, Place(acc, c, q)
    PROVE  p = q
<1>1. p \in 0 .. Len(acc) /\ q \in 0 .. Len(acc) /\ Len(acc) \in Nat
    BY DEF Place
<1>2. ~(p < q)
    <2> SUFFICES ASSUME p < q PROVE FALSE
        OBVIOUS
    <2>1. q \in p + 1 .. Len(acc) /\ q # 0
        BY <1>1
    <2>2. QED
        BY <2>1 DEF Place
<1>3. ~(q < p)
    <2> SUFFICES ASSUME q < p PROVE FALSE
        OBVIOUS
    <2>1. p \in q + 1 .. Len(acc) /\ p # 0
        BY <1>1
    <2>2. QED
        BY <2>1 DEF Place
<1>4. QED
    BY <1>1, <1>2, <1>3

LEMMA InsertIs ==
    ASSUME NEW C, NEW acc \in Seq(C), NEW c \in C
    PROVE  /\ ~IsMark(c) => Insert(acc, c) = Append(acc, c)
           /\ IsMark(c) => \E p : Place(acc, c, p) /\ Insert(acc, c) = At(acc, p, c)
<1> DEFINE before == {p \in DOMAIN acc : ~IsMark(acc[p]) \/ Ccc(acc[p]) <= Ccc(c)}
           m == Max(before \cup {0})
<1>1. Len(acc) \in Nat /\ DOMAIN acc = 1 .. Len(acc)
    OBVIOUS
<1>2. before \cup {0} \in SUBSET (0 .. Len(acc)) /\ before \cup {0} # {}
    BY <1>1
<1>3. \A p \in DOMAIN acc : p \in before <=> Before(acc[p], c)
    BY DEF Before
<1>4. IsMark(c) => Insert(acc, c) = InsertAt(acc, m + 1, c)
    BY DEF Insert
<1>5. ~IsMark(c) => Insert(acc, c) = Append(acc, c)
    BY DEF Insert
<1> HIDE DEF before
<1>6. m \in before \cup {0} /\ \A q \in before \cup {0} : q <= m
    BY <1>1, <1>2, GreatestOf
<1> HIDE DEF m
<1>7. m \in 0 .. Len(acc)
    BY <1>2, <1>6
<1>8. Place(acc, c, m)
    <2>1. ASSUME m # 0 PROVE Before(acc[m], c)
        <3>1. m \in before /\ m \in DOMAIN acc
            BY <1>1, <1>6, <1>7, <2>1
        <3>2. QED
            BY <1>3, <3>1
    <2>2. ASSUME NEW q \in m + 1 .. Len(acc) PROVE ~Before(acc[q], c)
        <3>1. q \in DOMAIN acc /\ ~(q <= m)
            BY <1>1, <1>7
        <3>2. QED
            BY <1>3, <1>6, <3>1
    <2>3. QED
        BY <1>7, <2>1, <2>2 DEF Place
<1>9. InsertAt(acc, m + 1, c) = At(acc, m, c)
    <2>1. (m + 1) - 1 = m
        BY <1>7
    <2>2. At(acc, m, c) = SubSeq(acc, 1, m) \o <<c>> \o SubSeq(acc, m + 1, Len(acc))
        BY <1>7, AtType
    <2>3. QED
        BY <2>1, <2>2 DEF InsertAt
<1>10. QED
    BY <1>4, <1>5, <1>8, <1>9

LEMMA InsertAtPlace ==
    ASSUME NEW C, NEW acc \in Seq(C), NEW c \in C, IsMark(c), NEW p, Place(acc, c, p)
    PROVE  Insert(acc, c) = At(acc, p, c)
<1>1. PICK q : Place(acc, c, q) /\ Insert(acc, c) = At(acc, q, c)
    BY InsertIs
<1>2. p = q
    BY <1>1, OnePlace
<1>3. QED
    BY <1>1, <1>2

LEMMA InsertType ==
    ASSUME NEW C, NEW acc \in Seq(C), NEW c \in C
    PROVE  Insert(acc, c) \in Seq(C)
<1>1. CASE ~IsMark(c)
    BY <1>1, InsertIs
<1>2. CASE IsMark(c)
    <2>1. PICK p : Place(acc, c, p) /\ Insert(acc, c) = At(acc, p, c)
        BY <1>2, InsertIs
    <2>2. p \in 0 .. Len(acc)
        BY <2>1 DEF Place
    <2>3. QED
        BY <2>1, <2>2, AtType
<1>3. QED
    BY <1>1, <1>2

\* The lower of two marks may come first or second.
LEMMA InsertLower ==
    ASSUME NEW C, NEW a \in Seq(C), NEW c \in C, NEW e \in C, IsMark(c), IsMark(e),
           \A x : Before(x, c) => Before(x, e), Before(c, e), ~Before(e, c)
    PROVE  Insert(Insert(a, c), e) = Insert(Insert(a, e), c)
<1> DEFINE n == Len(a)
<1>0. n \in Nat
    OBVIOUS
<1>1. PICK p : Place(a, c, p) /\ Insert(a, c) = At(a, p, c)
    BY InsertIs
<1>2. PICK q : Place(a, e, q) /\ Insert(a, e) = At(a, q, e)
    BY InsertIs
<1>3. p \in 0 .. n /\ q \in 0 .. n
    BY <1>1, <1>2 DEF Place
<1>4. p <= q
    <2> SUFFICES ASSUME q < p PROVE FALSE
        BY <1>3
    <2>1. p # 0 /\ p \in q + 1 .. n
        BY <1>3
    <2>2. Before(a[p], c)
        BY <1>1, <2>1 DEF Place
    <2>3. QED
        BY <1>2, <2>1, <2>2 DEF Place
<1> DEFINE s == At(a, p, c)
           t == At(a, q, e)
<1>5. s \in Seq(C) /\ Len(s) = n + 1 /\ t \in Seq(C) /\ Len(t) = n + 1
    BY <1>3, AtType
<1>6. \A i \in 1 .. n + 1 :
         /\ s[i] = IF i <= p THEN a[i] ELSE IF i = p + 1 THEN c ELSE a[i - 1]
         /\ t[i] = IF i <= q THEN a[i] ELSE IF i = q + 1 THEN e ELSE a[i - 1]
    BY DEF At
<1> HIDE DEF n, s, t
<1>7. Place(s, e, q + 1)
    <2>1. q + 1 \in 0 .. Len(s) /\ q + 1 \in 1 .. n + 1
        BY <1>0, <1>3, <1>5
    <2>2. Before(s[q + 1], e)
        <3>1. CASE q = p
            <4>1. s[q + 1] = c
                BY <1>3, <1>6, <2>1, <3>1
            <4>2. QED
                BY <4>1
        <3>2. CASE q # p
            <4>1. s[q + 1] = a[q]
                BY <1>3, <1>4, <1>6, <2>1, <3>2
            <4>2. q # 0
                BY <1>3, <1>4, <3>2
            <4>3. Before(a[q], e)
                BY <1>2, <4>2 DEF Place
            <4>4. QED
                BY <4>1, <4>3
        <3>3. QED
            BY <3>1, <3>2
    <2>3. ASSUME NEW r \in (q + 1) + 1 .. Len(s) PROVE ~Before(s[r], e)
        <3>1. r \in 1 .. n + 1 /\ ~(r <= p) /\ r # p + 1 /\ r - 1 \in q + 1 .. n
            BY <1>0, <1>3, <1>4, <1>5
        <3>2. s[r] = a[r - 1]
            BY <1>6, <3>1
        <3>3. QED
            BY <1>2, <3>1, <3>2 DEF Place, n
    <2>4. QED
        BY <2>1, <2>2, <2>3 DEF Place
<1>8. Place(t, c, p)
    <2>1. p \in 0 .. Len(t)
        BY <1>0, <1>3, <1>5
    <2>2. ASSUME p # 0 PROVE Before(t[p], c)
        <3>1. p \in 1 .. n + 1 /\ t[p] = a[p]
            BY <1>0, <1>3, <1>4, <1>6, <2>2
        <3>2. QED
            BY <1>1, <2>2, <3>1 DEF Place
    <2>3. ASSUME NEW r \in p + 1 .. Len(t) PROVE ~Before(t[r], c)
        <3>0. r \in 1 .. n + 1
            BY <1>0, <1>3, <1>5
        <3>1. CASE r <= q
            <4>1. t[r] = a[r] /\ r \in p + 1 .. n
                BY <1>0, <1>3, <1>6, <3>0, <3>1
            <4>2. QED
                BY <1>1, <4>1 DEF Place, n
        <3>2. CASE r = q + 1
            <4>1. t[r] = e
                BY <1>3, <1>6, <3>0, <3>2
            <4>2. QED
                BY <4>1
        <3>3. CASE r > q + 1
            <4>1. t[r] = a[r - 1] /\ r - 1 \in p + 1 .. n
                BY <1>0, <1>3, <1>4, <1>6, <3>0, <3>3
            <4>2. QED
                BY <1>1, <4>1 DEF Place, n
        <3>4. QED
            BY <1>3, <3>0, <3>1, <3>2, <3>3
    <2>4. QED
        BY <2>1, <2>2, <2>3 DEF Place
<1>9. Insert(s, e) = At(s, q + 1, e) /\ Insert(t, c) = At(t, p, c)
    BY <1>5, <1>7, <1>8, InsertAtPlace
<1>10. At(s, q + 1, e) = At(t, p, c)
    <2>1. ASSUME NEW i \in 1 .. (n + 1) + 1
          PROVE  (IF i <= q + 1 THEN s[i] ELSE IF i = (q + 1) + 1 THEN e ELSE s[i - 1])
                    = (IF i <= p THEN t[i] ELSE IF i = p + 1 THEN c ELSE t[i - 1])
        <3>1. CASE i <= p
            <4>1. i \in 1 .. n + 1 /\ i <= q /\ i <= q + 1
                BY <1>0, <1>3, <1>4, <3>1
            <4>2. s[i] = a[i] /\ t[i] = a[i]
                BY <1>6, <3>1, <4>1
            <4>3. QED
                BY <3>1, <4>1, <4>2
        <3>2. CASE i = p + 1
            <4>1. i \in 1 .. n + 1 /\ i <= q + 1 /\ ~(i <= p)
                BY <1>0, <1>3, <1>4, <3>2
            <4>2. s[i] = c
                BY <1>6, <3>2, <4>1
            <4>3. QED
                BY <3>2, <4>1, <4>2
        <3>3. CASE i > p + 1 /\ i <= q + 1
            <4>1. /\ i \in 1 .. n + 1 /\ ~(i <= p) /\ i # p + 1
                  /\ i - 1 \in 1 .. n + 1 /\ i - 1 <= q
                BY <1>0, <1>3, <1>4, <3>3
            <4>2. s[i] = a[i - 1] /\ t[i - 1] = a[i - 1]
                BY <1>6, <4>1
            <4>3. QED
                BY <3>3, <4>1, <4>2
        <3>4. CASE i = q + 2
            <4>1. /\ ~(i <= p) /\ i # p + 1 /\ i - 1 \in 1 .. n + 1 /\ i - 1 = q + 1 /\ ~(i - 1 <= q)
                  /\ ~(i <= q + 1) /\ i = (q + 1) + 1
                BY <1>0, <1>3, <1>4, <3>4
            <4>2. t[i - 1] = e
                BY <1>6, <4>1
            <4>3. QED
                BY <4>1, <4>2
        <3>5. CASE i > q + 2
            <4>1. /\ ~(i <= p) /\ i # p + 1 /\ i - 1 \in 1 .. n + 1 /\ ~(i - 1 <= q) /\ i - 1 # q + 1
                  /\ ~(i <= q + 1) /\ i # (q + 1) + 1 /\ ~(i - 1 <= p) /\ i - 1 # p + 1
                BY <1>0, <1>3, <1>4, <3>5
            <4>2. t[i - 1] = a[(i - 1) - 1] /\ s[i - 1] = a[(i - 1) - 1]
                BY <1>6, <4>1
            <4>3. QED
                BY <4>1, <4>2
        <3>6. QED
            BY <1>0, <1>3, <3>1, <3>2, <3>3, <3>4, <3>5
    <2>2. QED
        BY <1>5, <2>1 DEF At
<1>11. QED
    BY <1>1, <1>2, <1>9, <1>10 DEF s, t
LEMMA MarksAre ==
    /\ \A c : IsMark(c) <=> c \in Marks
    /\ Ccc("below") = 220 /\ Ccc("dot") = 230
    /\ Marks \subseteq Characters
<1>1. "below" # "dot"
    OBVIOUS
<1>2. Ccc("below") = 220 /\ Ccc("dot") = 230
    BY <1>1 DEF Ccc
<1>3. ASSUME NEW c PROVE IsMark(c) <=> c \in Marks
    BY <1>1 DEF Ccc, IsMark, Marks
<1>4. QED
    BY <1>2, <1>3 DEF Characters

LEMMA InsertEither ==
    ASSUME NEW a \in Seq(Characters), NEW c \in Marks, NEW e \in Marks
    PROVE  Insert(Insert(a, c), e) = Insert(Insert(a, e), c)
<1>1. c = e \/ (c = "below" /\ e = "dot") \/ (c = "dot" /\ e = "below")
    BY DEF Marks
<1>2. Before("below", "dot") /\ ~Before("dot", "below")
    BY MarksAre DEF Before, Marks
<1>3. \A x : Before(x, "below") => Before(x, "dot")
    <2>1. ASSUME NEW x, IsMark(x), Ccc(x) <= 220 PROVE Ccc(x) <= 230
        <3>1. x \in Marks
            BY <2>1, MarksAre
        <3>2. CASE x = "below"
            BY <3>2, MarksAre
        <3>3. CASE x = "dot"
            BY <2>1, <3>3, MarksAre
        <3>4. QED
            BY <3>1, <3>2, <3>3 DEF Marks
    <2>2. QED
        BY <2>1, MarksAre DEF Before
<1>4. "below" \in Characters /\ "dot" \in Characters /\ IsMark("below") /\ IsMark("dot")
    BY MarksAre DEF Marks
<1>5. Insert(Insert(a, "below"), "dot") = Insert(Insert(a, "dot"), "below")
    BY <1>2, <1>3, <1>4, InsertLower
<1>6. QED
    BY <1>1, <1>5

-----------------------------------------------------------------------------
(* Canonical order of texts that are joined. *)

LEMMA OrderedType ==
    ASSUME NEW C
    PROVE  \A s \in Seq(C) : Ordered(s) \in Seq(C)
<1> DEFINE S == {s \in Seq(C) : Ordered(s) \in Seq(C)}
<1>1. << >> \in S
    BY NothingOrdered, EmptySeq
<1>2. ASSUME NEW s \in Seq(C), NEW x \in C, s \in S PROVE Append(s, x) \in S
    <2>1. Append(s, x) \in Seq(C) /\ Ordered(s) \in Seq(C)
        BY <1>2
    <2>2. Ordered(Append(s, x)) = Insert(Ordered(s), x)
        BY OrderedAppend
    <2>3. Insert(Ordered(s), x) \in Seq(C)
        BY <2>1, InsertType
    <2>4. QED
        BY <2>1, <2>2, <2>3
<1> HIDE DEF S
<1>3. \A s \in Seq(C) : s \in S
    BY <1>1, <1>2, SeqInduction
<1>4. QED
    BY <1>3 DEF S

\* What is put behind two texts of one order leaves them so.
LEMMA OrderedBehind ==
    ASSUME NEW C, NEW x \in Seq(C), NEW y \in Seq(C), Ordered(x) = Ordered(y)
    PROVE  \A z \in Seq(C) : Ordered(x \o z) = Ordered(y \o z)
<1> DEFINE S == {z \in Seq(C) : Ordered(x \o z) = Ordered(y \o z)}
<1>1. << >> \in S
    <2>1. x \o << >> = x /\ y \o << >> = y /\ << >> \in Seq(C)
        OBVIOUS
    <2>2. QED
        BY <2>1
<1>2. ASSUME NEW z \in Seq(C), NEW c \in C, z \in S PROVE Append(z, c) \in S
    <2>1. /\ x \o Append(z, c) = Append(x \o z, c) /\ x \o z \in Seq(C)
          /\ y \o Append(z, c) = Append(y \o z, c) /\ y \o z \in Seq(C)
          /\ Append(z, c) \in Seq(C)
        OBVIOUS
    <2>2. ASSUME NEW u \in Seq(C) PROVE Ordered(Append(u, c)) = Insert(Ordered(u), c)
        BY OrderedAppend
    <2>3. Ordered(x \o z) = Ordered(y \o z)
        BY <1>2
    <2>4. Ordered(Append(x \o z, c)) = Ordered(Append(y \o z, c))
        BY <2>1, <2>2, <2>3
    <2>5. QED
        BY <2>1, <2>4
<1> HIDE DEF S
<1>3. \A z \in Seq(C) : z \in S
    BY <1>1, <1>2, SeqInduction
<1>4. QED
    BY <1>3 DEF S

\* A mark may go behind other marks.
LEMMA OrderedPast ==
    ASSUME NEW x \in Seq(Characters), NEW c \in Marks
    PROVE  \A q \in Seq(Marks) : Ordered(x \o <<c>> \o q) = Ordered(x \o q \o <<c>>)
<1> DEFINE S == {q \in Seq(Marks) : Ordered(x \o <<c>> \o q) = Ordered(x \o q \o <<c>>)}
<1>0. c \in Characters /\ Marks \subseteq Characters
    BY MarksAre
<1>1. << >> \in S
    <2>1. << >> \in Seq(Marks)
        OBVIOUS
    <2>2. x \o <<c>> \in Seq(Characters)
        BY <1>0
    <2>3. x \o <<c>> \o << >> = x \o <<c>> /\ x \o << >> = x
        BY <2>2, ConcatEmptySeq
    <2>4. QED
        BY <2>1, <2>3
<1>2. ASSUME NEW q \in Seq(Marks), NEW m \in Marks, q \in S PROVE Append(q, m) \in S
    <2>0. q \in Seq(Characters) /\ m \in Characters /\ Append(q, m) \in Seq(Marks)
        BY <1>0
    <2>1. /\ x \o <<c>> \o Append(q, m) = Append(x \o <<c>> \o q, m)
          /\ x \o <<c>> \o q \in Seq(Characters)
        BY <1>0, <2>0
    <2>2. /\ x \o q \o <<c>> = Append(x \o q, c) /\ x \o q \in Seq(Characters)
          /\ x \o Append(q, m) \o <<c>> = Append(Append(x \o q, m), c)
          /\ Append(x \o q, m) \in Seq(Characters)
        BY <1>0, <2>0
    <2>3. ASSUME NEW u \in Seq(Characters), NEW e \in Characters
          PROVE  Ordered(Append(u, e)) = Insert(Ordered(u), e)
        BY OrderedAppend
    <2>4. Ordered(x \o <<c>> \o q) = Ordered(x \o q \o <<c>>)
        BY <1>2
    <2>5. Ordered(Append(x \o <<c>> \o q, m)) = Insert(Insert(Ordered(x \o q), c), m)
        BY <1>0, <2>0, <2>1, <2>2, <2>3, <2>4
    <2>6. Ordered(Append(Append(x \o q, m), c)) = Insert(Insert(Ordered(x \o q), m), c)
        BY <1>0, <2>0, <2>2, <2>3
    <2>7. Ordered(x \o q) \in Seq(Characters)
        BY <2>2, OrderedType
    <2>8. QED
        BY <2>0, <2>1, <2>2, <2>5, <2>6, <2>7, InsertEither
<1> HIDE DEF S
<1>3. \A q \in Seq(Marks) : q \in S
    BY <1>1, <1>2, SeqInduction
<1>4. QED
    BY <1>3 DEF S

\* A text is what stands before a place and behind it; behind the place of a mark stand
\* marks.
LEMMA InsertSplits ==
    ASSUME NEW acc \in Seq(Characters), NEW c \in Marks
    PROVE  \E pre \in Seq(Characters), post \in Seq(Marks) :
              acc = pre \o post /\ Insert(acc, c) = pre \o <<c>> \o post
<1>1. IsMark(c) /\ c \in Characters
    BY MarksAre
<1>2. PICK p : Place(acc, c, p) /\ Insert(acc, c) = At(acc, p, c)
    BY <1>1, InsertIs
<1>3. p \in 0 .. Len(acc) /\ Len(acc) \in Nat
    BY <1>2 DEF Place
<1> DEFINE pre == SubSeq(acc, 1, p)
           post == SubSeq(acc, p + 1, Len(acc))
<1>4. pre \in Seq(Characters) /\ acc = pre \o post
    <2>1. pre \in Seq(Characters)
        BY <1>3
    <2>2. pre \o post = SubSeq(acc, 1, Len(acc))
        <3>1. 1 \in 1 .. Len(acc) + 1 /\ p \in 1 - 1 .. Len(acc) /\ Len(acc) \in p .. Len(acc)
            BY <1>3
        <3>2. QED
            BY <3>1, ConcatAdjacentSubSeq
    <2>3. SubSeq(acc, 1, Len(acc)) = acc
        BY SubSeqFull
    <2>4. QED
        BY <2>1, <2>2, <2>3
<1>5. post \in Seq(Marks)
    <2>1. /\ post \in Seq(Characters) /\ Len(post) = Len(acc) - p
          /\ \A i \in 1 .. Len(acc) - p : post[i] = acc[p + i]
        BY <1>3
    <2> HIDE DEF post
    <2>2. ASSUME NEW i \in 1 .. Len(acc) - p PROVE post[i] \in Marks
        <3>1. p + i \in p + 1 .. Len(acc)
            BY <1>3
        <3>2. ~Before(acc[p + i], c)
            BY <1>2, <3>1 DEF Place
        <3>3. IsMark(acc[p + i])
            BY <3>2 DEF Before
        <3>4. QED
            BY <2>1, <3>3, MarksAre
    <2>3. post = [i \in 1 .. Len(acc) - p |-> post[i]] /\ Len(acc) - p \in Nat
        BY <1>3, <2>1
    <2>4. post \in [1 .. Len(acc) - p -> Marks]
        BY <2>2, <2>3
    <2>5. QED
        BY <2>3, <2>4, FunctionSeq
<1>6. Insert(acc, c) = pre \o <<c>> \o post
    BY <1>1, <1>2, <1>3, AtType
<1> HIDE DEF pre, post
<1>7. QED
    BY <1>4, <1>5, <1>6

\* A table without marks gives the same order whether the marks of the text are in order
\* or not.
LEMMA OrderedThrough ==
    ASSUME NEW table, Into(table, Characters), Marks \cap DOMAIN table = {}
    PROVE  \A s \in Seq(Characters) :
              Ordered(Mapped(table, Ordered(s))) = Ordered(Mapped(table, s))
<1> DEFINE S == {s \in Seq(Characters) : Ordered(Mapped(table, Ordered(s))) = Ordered(Mapped(table, s))}
<1>0. Marks \subseteq Characters
    BY MarksAre
<1>1. << >> \in S
    BY MappedNothing, NothingOrdered, EmptySeq
<1>2. ASSUME NEW s \in Seq(Characters), NEW c \in Characters, s \in S PROVE Append(s, c) \in S
    <2> DEFINE a == Ordered(s)
               y == Image(table, c)
    <2>1. a \in Seq(Characters) /\ Append(s, c) \in Seq(Characters)
        BY OrderedType
    <2>2. Ordered(Mapped(table, a)) = Ordered(Mapped(table, s))
        BY <1>2
    <2>3. Ordered(Append(s, c)) = Insert(a, c)
        BY OrderedAppend
    <2> HIDE DEF a
    <2>4. /\ Mapped(table, Append(s, c)) = Mapped(table, s) \o y
          /\ Mapped(table, s) \in Seq(Characters) /\ y \in Seq(Characters)
        BY MappedAppend
    <2>5. /\ Mapped(table, Append(a, c)) = Mapped(table, a) \o y
          /\ Mapped(table, a) \in Seq(Characters)
        BY <2>1, MappedAppend
    <2>6. Ordered(Mapped(table, a) \o y) = Ordered(Mapped(table, s) \o y)
        BY <2>2, <2>4, <2>5, OrderedBehind
    <2>7. Ordered(Mapped(table, Insert(a, c))) = Ordered(Mapped(table, a) \o y)
        <3>1. CASE c \notin Marks
            <4>1. Insert(a, c) = Append(a, c)
                BY <2>1, <3>1, InsertIs, MarksAre
            <4>2. QED
                BY <2>5, <4>1
        <3>2. CASE c \in Marks
            <4>0. ASSUME NEW u \in Seq(Characters), NEW v \in Seq(Characters)
                  PROVE  Mapped(table, u \o v) = Mapped(table, u) \o Mapped(table, v)
                BY MappedConcat
            <4>1. PICK pre \in Seq(Characters), post \in Seq(Marks) :
                     a = pre \o post /\ Insert(a, c) = pre \o <<c>> \o post
                BY <2>1, <3>2, InsertSplits
            <4>2. post \in Seq(Characters) /\ <<c>> \in Seq(Marks) /\ <<c>> \in Seq(Characters)
                BY <1>0, <3>2
            <4>3. Mapped(table, post) = post /\ Mapped(table, <<c>>) = <<c>>
                BY <1>0, <4>2, MappedNot
            <4>4. y = <<c>>
                BY <3>2 DEF Image
            <4> DEFINE x == Mapped(table, pre)
            <4>5. x \in Seq(Characters)
                BY MappedType
            <4>6. Mapped(table, a) = x \o post
                <5>1. Mapped(table, pre \o post) = Mapped(table, pre) \o Mapped(table, post)
                    BY <4>0, <4>2
                <5>2. QED
                    BY <4>1, <4>3, <5>1
            <4>7. Mapped(table, Insert(a, c)) = x \o <<c>> \o post
                <5>1. pre \o <<c>> \in Seq(Characters)
                    BY <4>2
                <5>2. Mapped(table, (pre \o <<c>>) \o post) = Mapped(table, pre \o <<c>>) \o Mapped(table, post)
                    BY <4>0, <4>2, <5>1
                <5>3. Mapped(table, pre \o <<c>>) = Mapped(table, pre) \o Mapped(table, <<c>>)
                    BY <4>0, <4>2
                <5>4. QED
                    BY <4>1, <4>3, <5>2, <5>3
            <4> HIDE DEF x
            <4>8. Ordered(x \o <<c>> \o post) = Ordered(x \o post \o <<c>>)
                BY <3>2, <4>5, OrderedPast
            <4>9. QED
                BY <4>4, <4>6, <4>7, <4>8
        <3>3. QED
            BY <3>1, <3>2
    <2>8. QED
        BY <2>1, <2>3, <2>4, <2>6, <2>7
<1> HIDE DEF S
<1>3. \A s \in Seq(Characters) : s \in S
    BY <1>1, <1>2, SeqInduction
<1>4. QED
    BY <1>3 DEF S

\* What is in order stays so.
LEMMA OrderedOnce ==
    ASSUME NEW s \in Seq(Characters) PROVE Ordered(Ordered(s)) = Ordered(s)
<1> DEFINE nothing == [c \in {} |-> << >>]
<1>1. Into(nothing, Characters) /\ DOMAIN nothing = {}
    BY DEF Into
<1> HIDE DEF nothing
<1>2. \A t \in Seq(Characters) : Mapped(nothing, t) = t
    BY <1>1, MappedNot
<1>3. Ordered(s) \in Seq(Characters)
    BY OrderedType
<1>4. Ordered(Mapped(nothing, Ordered(s))) = Ordered(Mapped(nothing, s))
    BY <1>1, OrderedThrough
<1>5. QED
    BY <1>2, <1>3, <1>4
-----------------------------------------------------------------------------
(* Composition, and what undoes it. *)

LEMMA TableFacts ==
    /\ Into(Canonical, Characters) /\ Into(Compatible, Characters)
    /\ DOMAIN Canonical = {"Idot", "Odot", "odot"} /\ DOMAIN Compatible = {"wideO", "wideo"}
    /\ Canonical["Idot"] = <<"I", "dot">> /\ Canonical["Odot"] = <<"O", "dot">>
    /\ Canonical["odot"] = <<"o", "dot">>
    /\ Compatible["wideO"] = <<"O">> /\ Compatible["wideo"] = <<"o">>
<1>1. /\ DOMAIN Canonical = {"Idot", "Odot", "odot"}
      /\ Canonical["Idot"] = <<"I", "dot">> /\ Canonical["Odot"] = <<"O", "dot">>
      /\ Canonical["odot"] = <<"o", "dot">>
    BY DEF Canonical
<1>2. /\ DOMAIN Compatible = {"wideO", "wideo"}
      /\ Compatible["wideO"] = <<"O">> /\ Compatible["wideo"] = <<"o">>
    BY DEF Compatible
<1>3. /\ <<"I", "dot">> \in Seq(Characters) /\ <<"O", "dot">> \in Seq(Characters)
      /\ <<"o", "dot">> \in Seq(Characters)
      /\ <<"O">> \in Seq(Characters) /\ <<"o">> \in Seq(Characters)
    BY DEF Characters, Ascii, Marks
<1>4. Into(Canonical, Characters)
    BY <1>1, <1>3 DEF Into
<1>5. Into(Compatible, Characters)
    BY <1>2, <1>3 DEF Into
<1>6. QED
    BY <1>1, <1>2, <1>4, <1>5

LEMMA CompositeFacts ==
    ASSUME NEW b, NEW c, <<b, c>> \in DOMAIN Composites
    PROVE  /\ c = "dot" /\ c \in Marks /\ b \in {"I", "O", "o"}
           /\ Composites[<<b, c>>] \in DOMAIN Canonical
           /\ Canonical[Composites[<<b, c>>]] = <<b, c>>
           /\ Composites[<<b, c>>] = IF b = "I" THEN "Idot" ELSE IF b = "O" THEN "Odot" ELSE "odot"
<1>1. DOMAIN Composites = {<<"I", "dot">>, <<"O", "dot">>, <<"o", "dot">>}
    BY DEF Composites
<1>2. c = "dot" /\ b \in {"I", "O", "o"}
    BY <1>1
<1>3. Composites[<<b, c>>] =
         CASE <<b, c>>[1] = "I" -> "Idot" [] <<b, c>>[1] = "O" -> "Odot" [] <<b, c>>[1] = "o" -> "odot"
    BY <1>1 DEF Composites
<1>4. <<b, c>>[1] = b
    OBVIOUS
<1>5. Composites[<<b, c>>] = IF b = "I" THEN "Idot" ELSE IF b = "O" THEN "Odot" ELSE "odot"
    BY <1>2, <1>3, <1>4
<1>6. QED
    BY <1>2, <1>5, TableFacts DEF Marks

\* A character is put behind the others, or joins one behind which only marks stand.
LEMMA PutIs ==
    ASSUME NEW C, NEW acc \in Seq(C), NEW c
    PROVE  \/ Put(acc, c) = Append(acc, c)
           \/ \E p \in 1 .. Len(acc) :
                 /\ <<acc[p], c>> \in DOMAIN Composites
                 /\ \A q \in p + 1 .. Len(acc) : IsMark(acc[q])
                 /\ Put(acc, c) = [acc EXCEPT ![p] = Composites[<<acc[p], c>>]]
<1> DEFINE starters == {p \in DOMAIN acc : ~IsMark(acc[p])}
           base == Max(starters \cup {0})
<1>1. Len(acc) \in Nat /\ DOMAIN acc = 1 .. Len(acc)
    OBVIOUS
<1>2. starters \cup {0} \in SUBSET (0 .. Len(acc)) /\ starters \cup {0} # {}
    BY <1>1
<1>3. Put(acc, c) =
         IF /\ base > 0 /\ <<acc[base], c>> \in DOMAIN Composites
            /\ base = Len(acc) \/ Ccc(acc[Len(acc)]) < Ccc(c)
         THEN [acc EXCEPT ![base] = Composites[<<acc[base], c>>]]
         ELSE Append(acc, c)
    BY DEF Put
<1>4. \A q \in 1 .. Len(acc) : ~IsMark(acc[q]) => q \in starters
    BY <1>1
<1> HIDE DEF starters
<1>5. base \in starters \cup {0} /\ \A q \in starters \cup {0} : q <= base
    BY <1>1, <1>2, GreatestOf
<1> HIDE DEF base
<1>6. base \in 0 .. Len(acc)
    BY <1>2, <1>5
<1>7. \A q \in base + 1 .. Len(acc) : IsMark(acc[q])
    <2>1. ASSUME NEW q \in base + 1 .. Len(acc), ~IsMark(acc[q]) PROVE FALSE
        <3>1. q \in 1 .. Len(acc) /\ ~(q <= base)
            BY <1>1, <1>6
        <3>2. QED
            BY <1>4, <1>5, <2>1, <3>1
    <2>2. QED
        BY <2>1
<1>8. CASE base > 0 /\ <<acc[base], c>> \in DOMAIN Composites
                    /\ (base = Len(acc) \/ Ccc(acc[Len(acc)]) < Ccc(c))
    <2>1. base \in 1 .. Len(acc)
        BY <1>1, <1>6, <1>8
    <2>2. Put(acc, c) = [acc EXCEPT ![base] = Composites[<<acc[base], c>>]]
        BY <1>3, <1>8, Zenon
    <2>3. QED
        BY <1>7, <1>8, <2>1, <2>2
<1>9. CASE ~(base > 0 /\ <<acc[base], c>> \in DOMAIN Composites
                    /\ (base = Len(acc) \/ Ccc(acc[Len(acc)]) < Ccc(c)))
    BY <1>3, <1>9, Zenon
<1>10. QED
    BY <1>8, <1>9

LEMMA JoinedAround ==
    ASSUME NEW C, NEW s \in Seq(C), NEW x \in C, NEW t \in Seq(C)
    PROVE  /\ s \o <<x>> \o t \in Seq(C) /\ Len(s \o <<x>> \o t) = Len(s) + 1 + Len(t)
           /\ (s \o <<x>> \o t)[Len(s) + 1] = x
           /\ \A i \in 1 .. Len(s) : (s \o <<x>> \o t)[i] = s[i]
           /\ \A i \in 1 .. Len(t) : (s \o <<x>> \o t)[Len(s) + 1 + i] = t[i]
OBVIOUS

LEMMA PutSplits ==
    ASSUME NEW acc \in Seq(Characters), NEW c \in Characters
    PROVE  \/ Put(acc, c) = Append(acc, c)
           \/ \E pre \in Seq(Characters), b \in Characters, post \in Seq(Marks) :
                 /\ <<b, c>> \in DOMAIN Composites
                 /\ acc = pre \o <<b>> \o post
                 /\ Put(acc, c) = pre \o <<Composites[<<b, c>>]>> \o post
<1> SUFFICES ASSUME Put(acc, c) # Append(acc, c)
             PROVE  \E pre \in Seq(Characters), b \in Characters, post \in Seq(Marks) :
                       /\ <<b, c>> \in DOMAIN Composites
                       /\ acc = pre \o <<b>> \o post
                       /\ Put(acc, c) = pre \o <<Composites[<<b, c>>]>> \o post
    OBVIOUS
<1>1. PICK p \in 1 .. Len(acc) :
         /\ <<acc[p], c>> \in DOMAIN Composites
         /\ \A q \in p + 1 .. Len(acc) : IsMark(acc[q])
         /\ Put(acc, c) = [acc EXCEPT ![p] = Composites[<<acc[p], c>>]]
    BY PutIs
<1> DEFINE n == Len(acc)
           pre == SubSeq(acc, 1, p - 1)
           b == acc[p]
           post == SubSeq(acc, p + 1, n)
           new == Composites[<<b, c>>]
<1>2. n \in Nat /\ p \in Nat /\ b \in Characters /\ new \in Characters
    <2>1. b \in Characters /\ n \in Nat /\ p \in Nat
        OBVIOUS
    <2>2. new \in {"Idot", "Odot", "odot"}
        BY <1>1, CompositeFacts
    <2>3. QED
        BY <2>1, <2>2 DEF Characters
<1>3. /\ pre \in Seq(Characters) /\ Len(pre) = p - 1 /\ \A i \in 1 .. p - 1 : pre[i] = acc[i]
      /\ post \in Seq(Characters) /\ Len(post) = n - p /\ \A i \in 1 .. n - p : post[i] = acc[p + i]
    BY <1>2
<1> HIDE DEF pre, post
<1>4. post \in Seq(Marks)
    <2>1. ASSUME NEW i \in 1 .. n - p PROVE post[i] \in Marks
        <3>1. p + i \in p + 1 .. n
            BY <1>2
        <3>2. QED
            BY <1>1, <1>3, <3>1, MarksAre
    <2>2. n - p \in Nat /\ post = [i \in 1 .. n - p |-> post[i]]
        BY <1>2, <1>3
    <2>3. post \in [1 .. n - p -> Marks]
        BY <2>1, <2>2
    <2>4. QED
        BY <2>2, <2>3, FunctionSeq
<1>5. ASSUME NEW x \in Characters, NEW f \in Seq(Characters), Len(f) = n, f[p] = x,
             \A i \in 1 .. n : i # p => f[i] = acc[i]
      PROVE  f = pre \o <<x>> \o post
    <2> DEFINE g == pre \o <<x>> \o post
    <2> HIDE DEF n
    <2>0. n \in Nat /\ p \in 1 .. n
        BY <1>2 DEF n
    <2>1. /\ g \in Seq(Characters) /\ Len(g) = n /\ g[p] = x
          /\ \A i \in 1 .. p - 1 : g[i] = pre[i]
          /\ \A i \in p + 1 .. n : g[i] = post[i - p]
        <3>0. pre \in Seq(Characters) /\ post \in Seq(Characters)
            BY <1>3
        <3>1. /\ g \in Seq(Characters) /\ Len(g) = Len(pre) + 1 + Len(post) /\ g[Len(pre) + 1] = x
              /\ \A i \in 1 .. Len(pre) : g[i] = pre[i]
              /\ \A i \in 1 .. Len(post) : g[Len(pre) + 1 + i] = post[i]
            BY <3>0, JoinedAround
        <3> HIDE DEF g
        <3>2. Len(pre) = p - 1 /\ Len(post) = n - p
            BY <1>3 DEF n
        <3>3. Len(g) = n /\ g[p] = x
            BY <2>0, <3>1, <3>2
        <3>4. ASSUME NEW i \in p + 1 .. n PROVE g[i] = post[i - p]
            <4>1. i - p \in 1 .. Len(post) /\ Len(pre) + 1 + (i - p) = i
                BY <2>0, <3>2
            <4>2. QED
                BY <3>1, <4>1
        <3>5. QED
            BY <3>1, <3>2, <3>3, <3>4
    <2> HIDE DEF g
    <2>2. ASSUME NEW i \in 1 .. n PROVE f[i] = g[i]
        <3>1. CASE i = p
            BY <1>5, <2>1, <3>1
        <3>2. CASE i \in 1 .. p - 1
            BY <1>2, <1>3, <1>5, <2>1, <3>2
        <3>3. CASE i \in p + 1 .. n
            <4>1. i - p \in 1 .. n - p /\ p + (i - p) = i /\ i # p
                BY <1>2, <3>3
            <4>2. QED
                BY <1>3, <1>5, <2>1, <3>3, <4>1
        <3>4. QED
            BY <1>2, <3>1, <3>2, <3>3
    <2>3. f = [i \in 1 .. n |-> f[i]] /\ g = [i \in 1 .. n |-> g[i]]
        BY <1>5, <2>1
    <2>4. f = g
        BY <2>2, <2>3
    <2>5. QED
        BY <2>4 DEF g
<1>6. acc = pre \o <<b>> \o post
    BY <1>2, <1>5
<1>7. Put(acc, c) = pre \o <<new>> \o post
    <2> DEFINE f == [acc EXCEPT ![p] = new]
    <2>1. /\ f \in Seq(Characters) /\ Len(f) = n /\ f[p] = new
          /\ \A i \in 1 .. n : i # p => f[i] = acc[i]
        BY <1>2
    <2>2. Put(acc, c) = f
        BY <1>1
    <2> HIDE DEF f, n, new
    <2>3. QED
        BY <1>2, <1>5, <2>1, <2>2
<1> HIDE DEF n, b, new
<1>8. <<b, c>> \in DOMAIN Composites
    BY <1>1 DEF b
<1>9. QED
    BY <1>2, <1>3, <1>4, <1>6, <1>7, <1>8 DEF new

\* Composing does not lead out of a set of characters that has its composites.
LEMMA ComposedType ==
    ASSUME NEW C, \A b, c \in C : <<b, c>> \in DOMAIN Composites => Composites[<<b, c>>] \in C
    PROVE  \A s \in Seq(C) : Composed(s) \in Seq(C)
<1> DEFINE S == {s \in Seq(C) : Composed(s) \in Seq(C)}
<1>1. << >> \in S
    BY NothingOrdered, EmptySeq
<1>2. ASSUME NEW s \in Seq(C), NEW x \in C, s \in S PROVE Append(s, x) \in S
    <2> DEFINE acc == Composed(s)
    <2>1. Append(s, x) \in Seq(C) /\ acc \in Seq(C)
        BY <1>2
    <2>2. Composed(Append(s, x)) = Put(acc, x)
        BY ComposedAppend
    <2> HIDE DEF acc
    <2>3. Put(acc, x) \in Seq(C)
        <3>1. CASE Put(acc, x) = Append(acc, x)
            BY <2>1, <3>1
        <3>2. CASE Put(acc, x) # Append(acc, x)
            <4>1. PICK p \in 1 .. Len(acc) :
                     /\ <<acc[p], x>> \in DOMAIN Composites
                     /\ Put(acc, x) = [acc EXCEPT ![p] = Composites[<<acc[p], x>>]]
                BY <2>1, <3>2, PutIs
            <4>2. acc[p] \in C
                BY <2>1
            <4>3. Composites[<<acc[p], x>>] \in C
                BY <4>1, <4>2
            <4>4. QED
                BY <2>1, <4>1, <4>3
        <3>3. QED
            BY <3>1, <3>2
    <2>4. QED
        BY <2>1, <2>2, <2>3
<1> HIDE DEF S
<1>3. \A s \in Seq(C) : s \in S
    BY <1>1, <1>2, SeqInduction
<1>4. QED
    BY <1>3 DEF S

\* What is not composed.
Simple == Characters \ DOMAIN Canonical

\* Decomposing undoes composing, up to the order of marks.
LEMMA Decomposed ==
    \A s \in Seq(Simple) : Ordered(Mapped(Canonical, Composed(s))) = Ordered(s)
<1> DEFINE S == {s \in Seq(Simple) : Ordered(Mapped(Canonical, Composed(s))) = Ordered(s)}
<1>0. Simple \subseteq Characters /\ Into(Canonical, Characters) /\ Marks \cap DOMAIN Canonical = {}
      /\ Marks \subseteq Characters
    BY TableFacts DEF Simple, Marks, Characters
<1>a. ASSUME NEW s \in Seq(Characters) PROVE Composed(s) \in Seq(Characters)
    <2>1. ASSUME NEW b \in Characters, NEW c \in Characters, <<b, c>> \in DOMAIN Composites
          PROVE  Composites[<<b, c>>] \in Characters
        BY <2>1, CompositeFacts, TableFacts DEF Characters
    <2>2. QED
        BY <2>1, ComposedType
<1>1. << >> \in S
    BY MappedNothing, NothingOrdered, EmptySeq
<1>2. ASSUME NEW s \in Seq(Simple), NEW c \in Simple, s \in S PROVE Append(s, c) \in S
    <2> DEFINE acc == Composed(s)
    <2>1. Append(s, c) \in Seq(Simple) /\ s \in Seq(Characters) /\ c \in Characters
        BY <1>0
    <2>2. Ordered(Mapped(Canonical, acc)) = Ordered(s) /\ acc \in Seq(Characters)
        BY <1>2, <1>a, <2>1
    <2>3. Composed(Append(s, c)) = Put(acc, c) /\ Ordered(Append(s, c)) = Insert(Ordered(s), c)
        BY ComposedAppend, OrderedAppend
    <2> HIDE DEF acc
    <2>4. /\ Mapped(Canonical, Append(acc, c)) = Mapped(Canonical, acc) \o Image(Canonical, c)
          /\ Mapped(Canonical, acc) \in Seq(Characters)
        BY <1>0, <2>1, <2>2, MappedAppend
    <2>5. Image(Canonical, c) = <<c>>
        BY DEF Image, Simple
    <2> DEFINE d == Mapped(Canonical, acc)
    <2>6. d \in Seq(Characters) /\ d \o <<c>> = Append(d, c)
        BY <2>4
    <2> HIDE DEF d
    <2>7. Ordered(d \o <<c>>) = Insert(Ordered(s), c)
        <3>1. Ordered(Append(d, c)) = Insert(Ordered(d), c)
            BY <2>1, <2>6, OrderedAppend
        <3>2. QED
            BY <2>2, <2>6, <3>1 DEF d
    <2>8. Ordered(Mapped(Canonical, Put(acc, c))) = Ordered(d \o <<c>>)
        <3>1. CASE Put(acc, c) = Append(acc, c)
            BY <2>4, <2>5, <3>1 DEF d
        <3>2. CASE Put(acc, c) # Append(acc, c)
            <4>1. PICK pre \in Seq(Characters), b \in Characters, post \in Seq(Marks) :
                     /\ <<b, c>> \in DOMAIN Composites
                     /\ acc = pre \o <<b>> \o post
                     /\ Put(acc, c) = pre \o <<Composites[<<b, c>>]>> \o post
                BY <2>1, <2>2, <3>2, PutSplits
            <4> DEFINE x == Mapped(Canonical, pre)
                       new == Composites[<<b, c>>]
            <4>2. /\ c \in Marks /\ b \in Simple /\ new \in DOMAIN Canonical
                  /\ Canonical[new] = <<b, c>> /\ new \in Characters
                BY <4>1, CompositeFacts, TableFacts DEF Simple, Characters, Ascii
            <4> HIDE DEF new
            <4>3. ASSUME NEW y \in Characters
                  PROVE  Mapped(Canonical, pre \o <<y>> \o post) = x \o Image(Canonical, y) \o post
                <5>1. pre \o <<y>> = Append(pre, y) /\ Append(pre, y) \in Seq(Characters)
                      /\ post \in Seq(Characters)
                    BY <1>0
                <5>2. ASSUME NEW u \in Seq(Characters), NEW v \in Seq(Characters)
                      PROVE  Mapped(Canonical, u \o v) = Mapped(Canonical, u) \o Mapped(Canonical, v)
                    BY <1>0, MappedConcat
                <5>3. Mapped(Canonical, Append(pre, y) \o post)
                         = Mapped(Canonical, Append(pre, y)) \o Mapped(Canonical, post)
                    BY <5>1, <5>2
                <5>4. Mapped(Canonical, Append(pre, y)) = x \o Image(Canonical, y)
                    BY <1>0, MappedAppend
                <5>5. Mapped(Canonical, post) = post
                    BY <1>0, MappedNot
                <5>6. QED
                    BY <5>1, <5>3, <5>4, <5>5
            <4>4. x \in Seq(Characters)
                BY <1>0, MappedType
            <4>5. Image(Canonical, b) = <<b>> /\ Image(Canonical, new) = <<b, c>>
                BY <4>2 DEF Image, Simple
            <4>6. d = x \o <<b>> \o post
                BY <4>1, <4>3, <4>5 DEF d
            <4>7. Mapped(Canonical, Put(acc, c)) = x \o <<b, c>> \o post
                BY <4>1, <4>2, <4>3, <4>5 DEF new
            <4> HIDE DEF x
            <4>8. x \o <<b, c>> \o post = (x \o <<b>>) \o <<c>> \o post /\ x \o <<b>> \in Seq(Characters)
                BY <1>0, <2>1, <4>4
            <4>9. Ordered((x \o <<b>>) \o <<c>> \o post) = Ordered((x \o <<b>>) \o post \o <<c>>)
                BY <4>2, <4>8, OrderedPast
            <4>10. QED
                BY <4>6, <4>7, <4>8, <4>9
        <3>3. QED
            BY <3>1, <3>2
    <2>9. QED
        BY <2>1, <2>3, <2>7, <2>8
<1> HIDE DEF S
<1>3. \A s \in Seq(Simple) : s \in S
    BY <1>1, <1>2, SeqInduction
<1>4. QED
    BY <1>3 DEF S
-----------------------------------------------------------------------------
(* The stages. *)

LEMMA MappedOne ==
    ASSUME NEW C, NEW table, Into(table, C), NEW c \in C
    PROVE  Mapped(table, <<c>>) = Image(table, c) /\ Image(table, c) \in Seq(C)
<1>1. << >> \in Seq(C) /\ Append(<< >>, c) = <<c>>
    OBVIOUS
<1>0. ASSUME NEW s \in Seq(C)
      PROVE  /\ Mapped(table, Append(s, c)) = Mapped(table, s) \o Image(table, c)
             /\ Image(table, c) \in Seq(C)
    BY MappedAppend
<1>2. /\ Mapped(table, Append(<< >>, c)) = Mapped(table, << >>) \o Image(table, c)
      /\ Image(table, c) \in Seq(C)
    BY <1>0, <1>1
<1>3. << >> \o Image(table, c) = Image(table, c)
    BY <1>2
<1>4. QED
    BY <1>1, <1>2, <1>3, MappedNothing

\* A set of characters that no normal form leads out of.
Closed(B) ==
    /\ B \in SUBSET Characters
    /\ \A c \in B : Image(Canonical, c) \in Seq(B) /\ Image(Compatible, c) \in Seq(B)
    /\ \A b, c \in B : <<b, c>> \in DOMAIN Composites => Composites[<<b, c>>] \in B

LEMMA NormalFormType ==
    ASSUME NEW conf \in Configs, NEW B, Closed(B), NEW s \in Seq(B)
    PROVE  NormalForm(conf, s) \in Seq(B) /\ Nfd(s) \in Seq(B)
<1>1. B \in SUBSET Characters
    BY DEF Closed
<1>2. \A t \in Seq(B) : Mapped(Canonical, t) \in Seq(B)
    BY <1>1, TableFacts, MappedInto DEF Closed
<1>3. \A t \in Seq(B) : Mapped(Compatible, t) \in Seq(B)
    BY <1>1, TableFacts, MappedInto DEF Closed
<1>4. \A t \in Seq(B) : Ordered(t) \in Seq(B)
    BY OrderedType
<1>5. \A t \in Seq(B) : Composed(t) \in Seq(B)
    <2>1. \A b, c \in B : <<b, c>> \in DOMAIN Composites => Composites[<<b, c>>] \in B
        BY DEF Closed
    <2>2. QED
        BY <2>1, ComposedType
<1>6. Nfd(s) \in Seq(B)
    BY <1>2, <1>4 DEF Nfd
<1>7. Nfc(s) \in Seq(B)
    BY <1>5, <1>6 DEF Nfc
<1>8. Nfkc(s) \in Seq(B)
    BY <1>2, <1>3, <1>4, <1>5 DEF Nfkc
<1>9. conf.normalization \in {"nfc", "nfkc", "none"}
    BY DEF Configs
<1>10. QED
    BY <1>6, <1>7, <1>8, <1>9 DEF NormalForm

\* What stripping leaves.
Drops(conf) == {c \in Invisible : ShouldDrop(conf, c)}
Left(conf) == Characters \ Drops(conf)
Strips(conf) == [c \in Drops(conf) |-> << >>]

\* What folding leaves.
Folds ==
    [c \in {"I", "O", "Idot", "Odot", "wideO"} |->
        CASE c = "I" -> <<"i">> [] c = "O" -> <<"o">> [] c = "Idot" -> <<"i", "dot">>
          [] c = "Odot" -> <<"odot">> [] c = "wideO" -> <<"wideo">>]
Small == Characters \ {"I", "O", "Idot", "Odot", "wideO"}

LEMMA FoldFacts ==
    /\ DOMAIN Folds = {"I", "O", "Idot", "Odot", "wideO"}
    /\ Folds["I"] = <<"i">> /\ Folds["O"] = <<"o">> /\ Folds["Idot"] = <<"i", "dot">>
    /\ Folds["Odot"] = <<"odot">> /\ Folds["wideO"] = <<"wideo">>
    /\ \A s : CaseFolded(s) = Mapped(Folds, s)
BY DEF Folds, CaseFolded

LEMMA StripFacts ==
    ASSUME NEW conf
    PROVE  /\ Into(Strips(conf), Characters) /\ DOMAIN Strips(conf) = Drops(conf)
           /\ Drops(conf) \subseteq Invisible /\ Left(conf) \subseteq Characters
           /\ \A s : Stripped(conf, s) = Mapped(Strips(conf), s)
           /\ \A s \in Seq(Characters) : Stripped(conf, s) \in Seq(Left(conf))
           /\ \A s \in Seq(Left(conf)) : Stripped(conf, s) = s
<1>1. DOMAIN Strips(conf) = Drops(conf) /\ \A c \in Drops(conf) : Strips(conf)[c] = << >>
    BY DEF Strips
<1>2. << >> \in Seq(Characters) /\ << >> \in Seq(Left(conf))
    OBVIOUS
<1>3. Into(Strips(conf), Characters)
    BY <1>1, <1>2 DEF Into
<1>4. \A s : Stripped(conf, s) = Mapped(Strips(conf), s)
    BY DEF Stripped, Strips, Drops
<1>5. Drops(conf) \subseteq Invisible /\ Left(conf) \in SUBSET Characters
    BY DEF Drops, Left
<1>6. \A s \in Seq(Characters) : Mapped(Strips(conf), s) \in Seq(Left(conf))
    <2>1. ASSUME NEW c \in Characters PROVE Image(Strips(conf), c) \in Seq(Left(conf))
        <3>1. CASE c \in Drops(conf)
            BY <1>1, <1>2, <3>1 DEF Image
        <3>2. CASE c \notin Drops(conf)
            <4>1. c \in Left(conf)
                BY <3>2 DEF Left
            <4>2. <<c>> \in Seq(Left(conf))
                BY <4>1
            <4>3. QED
                BY <1>1, <3>2, <4>2 DEF Image
        <3>3. QED
            BY <3>1, <3>2
    <2>2. QED
        BY <1>3, <1>5, <2>1, MappedInto
<1>7. \A s \in Seq(Left(conf)) : Mapped(Strips(conf), s) = s
    <2>1. Left(conf) \cap DOMAIN Strips(conf) = {}
        BY <1>1 DEF Left
    <2>2. QED
        BY <1>3, <1>5, <2>1, MappedNot
<1>8. QED
    BY <1>1, <1>3, <1>4, <1>5, <1>6, <1>7

LEMMA FoldedType ==
    /\ Into(Folds, Characters)
    /\ \A s \in Seq(Characters) : CaseFolded(s) \in Seq(Small)
    /\ \A s \in Seq(Small) : CaseFolded(s) = s
    /\ \A conf : \A s \in Seq(Left(conf)) : CaseFolded(s) \in Seq(Left(conf))
<1>1. {"i", "o", "dot", "odot", "wideo"} \subseteq Characters /\ Small \in SUBSET Characters
    BY DEF Characters, Ascii, Marks, Small
<1>2. ASSUME NEW B, {"i", "o", "dot", "odot", "wideo"} \subseteq B
      PROVE  /\ <<"i">> \in Seq(B) /\ <<"o">> \in Seq(B) /\ <<"i", "dot">> \in Seq(B)
             /\ <<"odot">> \in Seq(B) /\ <<"wideo">> \in Seq(B)
    BY <1>2
<1>3. ASSUME NEW B, {"i", "o", "dot", "odot", "wideo"} \subseteq B, NEW c \in DOMAIN Folds
      PROVE  Folds[c] \in Seq(B)
    <2>1. /\ <<"i">> \in Seq(B) /\ <<"o">> \in Seq(B) /\ <<"i", "dot">> \in Seq(B)
          /\ <<"odot">> \in Seq(B) /\ <<"wideo">> \in Seq(B)
        BY <1>2, <1>3
    <2>2. QED
        BY <2>1, FoldFacts
<1>4. Into(Folds, Characters)
    BY <1>1, <1>3 DEF Into
<1>5. ASSUME NEW A \in SUBSET Characters, NEW B \in SUBSET Characters,
             {"i", "o", "dot", "odot", "wideo"} \subseteq B, A \ DOMAIN Folds \subseteq B
      PROVE  \A s \in Seq(A) : CaseFolded(s) \in Seq(B)
    <2>1. ASSUME NEW c \in A PROVE Image(Folds, c) \in Seq(B)
        <3>1. CASE c \in DOMAIN Folds
            BY <1>3, <1>5, <3>1 DEF Image
        <3>2. CASE c \notin DOMAIN Folds
            <4>1. c \in B
                BY <1>5, <3>2
            <4>2. <<c>> \in Seq(B)
                BY <4>1
            <4>3. QED
                BY <3>2, <4>2 DEF Image
        <3>3. QED
            BY <3>1, <3>2
    <2>2. \A s \in Seq(A) : Mapped(Folds, s) \in Seq(B)
        BY <1>4, <2>1, MappedInto
    <2>3. QED
        BY <2>2, FoldFacts
<1>6. \A s \in Seq(Characters) : CaseFolded(s) \in Seq(Small)
    <2>1. {"i", "o", "dot", "odot", "wideo"} \subseteq Small
        BY <1>1 DEF Small
    <2>2. Characters \ DOMAIN Folds \subseteq Small
        BY FoldFacts DEF Small
    <2>3. QED
        BY <1>1, <1>5, <2>1, <2>2
<1>7. \A s \in Seq(Small) : Mapped(Folds, s) = s
    <2>1. Small \cap DOMAIN Folds = {}
        BY FoldFacts DEF Small
    <2>2. QED
        BY <1>1, <1>4, <2>1, MappedNot
<1>8. ASSUME NEW conf PROVE \A s \in Seq(Left(conf)) : CaseFolded(s) \in Seq(Left(conf))
    <2>1. Left(conf) \in SUBSET Characters
        BY StripFacts
    <2>2. {"i", "o", "dot", "odot", "wideo"} \subseteq Left(conf)
        <3>1. {"i", "o", "dot", "odot", "wideo"} \cap Invisible = {}
            BY DEF Invisible
        <3>2. QED
            BY <1>1, <3>1, StripFacts DEF Left
    <2>3. QED
        BY <1>5, <2>1, <2>2
<1>9. QED
    BY <1>4, <1>6, <1>7, <1>8, FoldFacts

LEMMA ClosedSets ==
    /\ Closed(Characters) /\ Closed(Small)
    /\ \A conf : Closed(Left(conf))
<1>1. ASSUME NEW B \in SUBSET Characters, {"o", "dot", "odot"} \subseteq B,
             "Idot" \in B => "I" \in B,
             "Odot" \in B \/ "wideO" \in B => "O" \in B,
             "I" \in B => "Idot" \in B, "O" \in B => "Odot" \in B
      PROVE  Closed(B)
    <2>1. ASSUME NEW c \in B PROVE Image(Canonical, c) \in Seq(B)
        <3>1. CASE c = "Idot"
            <4>1. <<"I", "dot">> \in Seq(B)
                BY <1>1, <3>1
            <4>2. QED
                BY <3>1, <4>1, TableFacts DEF Image
        <3>2. CASE c = "Odot"
            <4>1. <<"O", "dot">> \in Seq(B)
                BY <1>1, <3>2
            <4>2. QED
                BY <3>2, <4>1, TableFacts DEF Image
        <3>3. CASE c = "odot"
            <4>1. <<"o", "dot">> \in Seq(B)
                BY <1>1
            <4>2. QED
                BY <3>3, <4>1, TableFacts DEF Image
        <3>4. CASE c \notin DOMAIN Canonical
            <4>1. <<c>> \in Seq(B)
                OBVIOUS
            <4>2. QED
                BY <3>4, <4>1 DEF Image
        <3>5. QED
            BY <3>1, <3>2, <3>3, <3>4, TableFacts
    <2>2. ASSUME NEW c \in B PROVE Image(Compatible, c) \in Seq(B)
        <3>1. CASE c = "wideO"
            <4>1. <<"O">> \in Seq(B)
                BY <1>1, <3>1
            <4>2. QED
                BY <3>1, <4>1, TableFacts DEF Image
        <3>2. CASE c = "wideo"
            <4>1. <<"o">> \in Seq(B)
                BY <1>1
            <4>2. QED
                BY <3>2, <4>1, TableFacts DEF Image
        <3>3. CASE c \notin DOMAIN Compatible
            <4>1. <<c>> \in Seq(B)
                OBVIOUS
            <4>2. QED
                BY <3>3, <4>1 DEF Image
        <3>4. QED
            BY <3>1, <3>2, <3>3, TableFacts
    <2>3. ASSUME NEW b \in B, NEW c \in B, <<b, c>> \in DOMAIN Composites
          PROVE  Composites[<<b, c>>] \in B
        BY <1>1, <2>3, CompositeFacts
    <2>4. QED
        BY <2>1, <2>2, <2>3 DEF Closed
<1>2. {"I", "O", "o", "dot", "odot", "Idot", "Odot"} \subseteq Characters
    BY DEF Characters, Ascii, Marks
<1>3. Closed(Characters)
    BY <1>1, <1>2
<1>4. Closed(Small)
    <2>1. /\ Small \in SUBSET Characters /\ {"o", "dot", "odot"} \subseteq Small
          /\ "Idot" \notin Small /\ "Odot" \notin Small /\ "wideO" \notin Small
          /\ "I" \notin Small /\ "O" \notin Small
        BY <1>2 DEF Small
    <2>2. QED
        BY <1>1, <2>1
<1>5. ASSUME NEW conf PROVE Closed(Left(conf))
    <2>1. Left(conf) \in SUBSET Characters
        BY StripFacts
    <2>2. {"I", "O", "o", "dot", "odot", "Idot", "Odot"} \subseteq Left(conf)
        <3>1. {"I", "O", "o", "dot", "odot", "Idot", "Odot"} \cap Invisible = {}
            BY DEF Invisible
        <3>2. QED
            BY <1>2, <3>1, StripFacts DEF Left
    <2>3. QED
        BY <1>1, <2>1, <2>2
<1>6. QED
    BY <1>3, <1>4, <1>5
-----------------------------------------------------------------------------
(* The short cuts. *)

LEMMA AppendIs ==
    ASSUME NEW C, NEW s \in Seq(C), NEW x \in C, NEW n \in Nat, Len(s) = n
    PROVE  /\ Append(s, x) = [i \in 1 .. n + 1 |-> Append(s, x)[i]] /\ Append(s, x)[n + 1] = x
           /\ \A i \in 1 .. n : Append(s, x)[i] = s[i]
<1>1. Append(s, x) \in Seq(C) /\ Len(Append(s, x)) = n + 1
    OBVIOUS
<1>2. Append(s, x) = [i \in 1 .. n + 1 |-> Append(s, x)[i]]
    <2> DEFINE t == Append(s, x)
    <2>1. t \in Seq(C) /\ Len(t) = n + 1
        BY <1>1
    <2> HIDE DEF t
    <2>2. t = [i \in 1 .. n + 1 |-> t[i]]
        BY <2>1
    <2>3. QED
        BY <2>2 DEF t
<1>3. Append(s, x)[n + 1] = x /\ \A i \in 1 .. n : Append(s, x)[i] = s[i]
    OBVIOUS
<1>4. QED
    BY <1>2, <1>3

LEMMA AsciiPlain ==
    /\ Ascii \subseteq Characters /\ Ascii \cap Marks = {} /\ Ascii \cap Invisible = {}
    /\ Ascii \cap DOMAIN Canonical = {} /\ Ascii \cap DOMAIN Compatible = {} /\ "dot" \notin Ascii
BY TableFacts DEF Ascii, Characters, Marks, Invisible

LEMMA AsciiNormal ==
    \A s \in Seq(Ascii) :
        /\ Mapped(Canonical, s) = s /\ Mapped(Compatible, s) = s
        /\ Ordered(s) = s /\ Composed(s) = s /\ Nfc(s) = s /\ Nfkc(s) = s
<1> DEFINE S == {s \in Seq(Ascii) : Ordered(s) = s /\ Composed(s) = s}
<1>1. << >> \in S
    BY NothingOrdered, EmptySeq
<1>2. ASSUME NEW s \in Seq(Ascii), NEW c \in Ascii, s \in S PROVE Append(s, c) \in S
    <2>1. Append(s, c) \in Seq(Ascii) /\ Ordered(s) = s /\ Composed(s) = s
        BY <1>2
    <2>2. Ordered(Append(s, c)) = Insert(s, c) /\ Composed(Append(s, c)) = Put(s, c)
        BY <2>1, OrderedAppend, ComposedAppend
    <2>3. ~IsMark(c)
        BY AsciiPlain, MarksAre
    <2>4. Insert(s, c) = Append(s, c)
        BY <2>3, InsertIs
    <2>5. Put(s, c) = Append(s, c)
        <3>1. \A b : <<b, c>> \notin DOMAIN Composites
            BY AsciiPlain, CompositeFacts
        <3>2. QED
            BY <3>1, PutIs
    <2>6. QED
        BY <2>1, <2>2, <2>4, <2>5
<1> HIDE DEF S
<1>3. \A s \in Seq(Ascii) : s \in S
    BY <1>1, <1>2, SeqInduction
<1>4. ASSUME NEW s \in Seq(Ascii)
      PROVE  /\ Mapped(Canonical, s) = s /\ Mapped(Compatible, s) = s
             /\ Ordered(s) = s /\ Composed(s) = s /\ Nfc(s) = s /\ Nfkc(s) = s
    <2>1. Mapped(Canonical, s) = s
        BY AsciiPlain, TableFacts, MappedNot
    <2>2. Mapped(Compatible, s) = s
        BY AsciiPlain, TableFacts, MappedNot
    <2>3. Ordered(s) = s /\ Composed(s) = s
        BY <1>3 DEF S
    <2>4. QED
        BY <2>1, <2>2, <2>3 DEF Nfc, Nfd, Nfkc
<1>5. QED
    BY <1>4

Lower(c) == CASE c = "I" -> "i" [] c = "O" -> "o" [] OTHER -> c

\* Folding ASCII is making it lower case.
LEMMA AsciiFolded ==
    \A s \in Seq(Ascii) : CaseFolded(s) = AsciiLower(s) /\ AsciiLower(s) \in Seq(Ascii)
<1> DEFINE S == {s \in Seq(Ascii) : Mapped(Folds, s) = AsciiLower(s) /\ AsciiLower(s) \in Seq(Ascii)}
<1>0. \A s : AsciiLower(s) = [i \in DOMAIN s |-> Lower(s[i])]
    BY DEF AsciiLower, Lower
<1>1. << >> \in S
    <2>1. [i \in DOMAIN << >> |-> Lower(<< >>[i])] = << >>
        OBVIOUS
    <2>2. << >> \in Seq(Ascii)
        OBVIOUS
    <2>3. QED
        BY <1>0, <2>1, <2>2, MappedNothing
<1>2. ASSUME NEW s \in Seq(Ascii), NEW c \in Ascii, s \in S PROVE Append(s, c) \in S
    <2>1. Append(s, c) \in Seq(Ascii) /\ s \in Seq(Characters) /\ c \in Characters
        BY AsciiPlain
    <2>2. Mapped(Folds, s) = AsciiLower(s) /\ AsciiLower(s) \in Seq(Ascii)
        BY <1>2
    <2>3. Mapped(Folds, Append(s, c)) = Mapped(Folds, s) \o Image(Folds, c)
        BY <2>1, FoldedType, MappedAppend
    <2>4. Image(Folds, c) = <<Lower(c)>> /\ Lower(c) \in Ascii
        BY FoldFacts DEF Image, Lower, Ascii
    <2>5. AsciiLower(Append(s, c)) = Append(AsciiLower(s), Lower(c))
        <3> DEFINE t == Append(s, c)
                   n == Len(s)
                   u == AsciiLower(s)
        <3>1. /\ n \in Nat /\ DOMAIN s = 1 .. n /\ DOMAIN t = 1 .. n + 1 /\ t[n + 1] = c
              /\ \A i \in 1 .. n : t[i] = s[i]
            OBVIOUS
        <3>2. AsciiLower(t) = [i \in 1 .. n + 1 |-> Lower(t[i])] /\ u = [i \in 1 .. n |-> Lower(s[i])]
            BY <1>0, <3>1
        <3>3. u \in Seq(Ascii) /\ Lower(c) \in Ascii
            BY <2>2, <2>4
        <3> HIDE DEF t, n, u
        <3>4. Len(u) = n
            BY <3>1, <3>2, <3>3
        <3> DEFINE a == Append(u, Lower(c))
        <3>5. /\ a = [i \in 1 .. n + 1 |-> a[i]] /\ a[n + 1] = Lower(c)
              /\ \A i \in 1 .. n : a[i] = u[i]
            BY <3>1, <3>3, <3>4, AppendIs
        <3> HIDE DEF a
        <3>6. ASSUME NEW i \in 1 .. n + 1 PROVE a[i] = Lower(t[i])
            <4>1. CASE i \in 1 .. n
                <5>1. u[i] = Lower(s[i])
                    BY <3>2, <4>1
                <5>2. QED
                    BY <3>1, <3>5, <4>1, <5>1
            <4>2. CASE i = n + 1
                BY <3>1, <3>5, <4>2
            <4>3. QED
                BY <3>1, <4>1, <4>2
        <3>7. AsciiLower(t) = a
            BY <3>2, <3>5, <3>6
        <3>8. QED
            BY <3>7 DEF a, t, u
    <2>6. Append(AsciiLower(s), Lower(c)) = AsciiLower(s) \o <<Lower(c)>>
          /\ Append(AsciiLower(s), Lower(c)) \in Seq(Ascii)
        BY <2>2, <2>4
    <2>7. QED
        BY <2>1, <2>2, <2>3, <2>4, <2>5, <2>6
<1> HIDE DEF S
<1>3. \A s \in Seq(Ascii) : s \in S
    BY <1>1, <1>2, SeqInduction
<1>4. QED
    BY <1>3, FoldFacts DEF S

LEMMA PipelineType ==
    ASSUME NEW conf \in Configs, NEW s \in Seq(Characters)
    PROVE  Pipeline(conf, s) \in Seq(Characters)
<1>1. \A t \in Seq(Characters) : NormalForm(conf, t) \in Seq(Characters) /\ Nfd(t) \in Seq(Characters)
    BY ClosedSets, NormalFormType
<1>2. Stripped(conf, s) \in Seq(Characters)
    <2>1. Stripped(conf, s) \in Seq(Left(conf)) /\ Left(conf) \subseteq Characters
        BY StripFacts
    <2>2. QED
        BY <2>1
<1>3. \A t \in Seq(Characters) : CaseFolded(t) \in Seq(Characters)
    <2>1. ASSUME NEW t \in Seq(Characters) PROVE CaseFolded(t) \in Seq(Characters)
        <3>1. CaseFolded(t) \in Seq(Small) /\ Small \subseteq Characters
            BY FoldedType DEF Small
        <3>2. QED
            BY <3>1
    <2>2. QED
        BY <2>1
<1>4. StripAndNormalize(conf, s) \in Seq(Characters)
    BY <1>1, <1>2 DEF StripAndNormalize
<1>5. Fold(conf, StripAndNormalize(conf, s)) \in Seq(Characters)
    BY <1>1, <1>3, <1>4 DEF Fold
<1>6. \A t \in Seq(Characters) : Skeleton(t) \in Seq(Characters)
    <2> DEFINE prototype == [c \in {"I", "zero", "wideO", "wideo"} |->
            CASE c = "I" -> <<"l">> [] c \in {"zero", "wideO"} -> <<"O">> [] c = "wideo" -> <<"o">>]
    <2>1. <<"l">> \in Seq(Characters) /\ <<"O">> \in Seq(Characters) /\ <<"o">> \in Seq(Characters)
        BY DEF Characters, Ascii
    <2>2. DOMAIN prototype = {"I", "zero", "wideO", "wideo"}
        OBVIOUS
    <2>3. ASSUME NEW c \in DOMAIN prototype PROVE prototype[c] \in Seq(Characters)
        <3>1. prototype[c] = CASE c = "I" -> <<"l">> [] c \in {"zero", "wideO"} -> <<"O">> [] c = "wideo" -> <<"o">>
            OBVIOUS
        <3>2. QED
            BY <2>1, <2>2, <3>1
    <2>4. ASSUME NEW t PROVE Skeleton(t) = Nfd(Mapped(prototype, Nfd(t)))
        BY DEF Skeleton
    <2> HIDE DEF prototype
    <2>5. Into(prototype, Characters)
        BY <2>3 DEF Into
    <2>6. \A t \in Seq(Characters) : Mapped(prototype, t) \in Seq(Characters)
        BY <2>5, MappedType
    <2>7. QED
        BY <1>1, <2>4, <2>6
<1>7. QED
    BY <1>5, <1>6 DEF Pipeline, Confusable

\* All the short cuts do is what the stages do.
LEMMA ShortCut ==
    ASSUME NEW conf \in Configs, NEW s \in Seq(Characters), NEW buffer
    PROVE  CanonicalizeInto(conf, s, buffer) = Pipeline(conf, s)
<1> DEFINE HalfAscii == \A i \in DOMAIN s : IsAscii(s[i]) \/ IsBidiControl(s[i]) \/ IsFormat(s[i])
<1>0. \A t \in Seq(Characters) : Cleared(buffer) \o t = t
    BY ConcatEmptySeq DEF Cleared
<1>1. ASSUME IsDefaultPipeline(conf), NEW t \in Seq(Ascii), Stripped(conf, s) = t
      PROVE  Pipeline(conf, s) = AsciiLower(t)
    <2>1. /\ conf.normalization = "nfkc" /\ conf.caseFold = "simple"
          /\ ~conf.applyConfusable
        BY <1>1 DEF IsDefaultPipeline
    <2>2. StripAndNormalize(conf, s) = t
        <3>1. NormalForm(conf, t) = Nfkc(t)
            BY <2>1 DEF NormalForm
        <3>2. QED
            BY <1>1, <3>1, AsciiNormal DEF StripAndNormalize
    <2>3. CaseFolded(t) = AsciiLower(t) /\ AsciiLower(t) \in Seq(Ascii)
        BY AsciiFolded
    <2>4. AllAscii(CaseFolded(t))
        BY <2>3 DEF AllAscii, IsAscii
    <2>5. Fold(conf, t) = AsciiLower(t)
        BY <2>1, <2>3, <2>4 DEF Fold
    <2>6. QED
        BY <2>1, <2>2, <2>5 DEF Pipeline, Confusable
<1>2. CASE IsDefaultPipeline(conf) /\ AllAscii(s)
    <2>1. s \in Seq(Ascii)
        <3>1. Len(s) \in Nat /\ DOMAIN s = 1 .. Len(s) /\ s = [i \in 1 .. Len(s) |-> s[i]]
            OBVIOUS
        <3>2. s \in [1 .. Len(s) -> Ascii]
            BY <1>2, <3>1 DEF AllAscii, IsAscii
        <3>3. QED
            BY <3>1, <3>2, FunctionSeq
    <2>2. s \in Seq(Left(conf))
        <3>1. Ascii \subseteq Left(conf)
            BY AsciiPlain, StripFacts DEF Left
        <3>2. QED
            BY <2>1, <3>1
    <2>3. Stripped(conf, s) = s
        BY <2>2, StripFacts
    <2>4. CanonicalizeInto(conf, s, buffer) = AsciiLower(s)
        BY <1>0, <1>2 DEF CanonicalizeInto
    <2>5. QED
        BY <1>1, <1>2, <2>1, <2>3, <2>4
<1>3. CASE IsDefaultPipeline(conf) /\ ~AllAscii(s) /\ HalfAscii
    <2> DEFINE B == Ascii \cup Invisible
               only == [c \in Characters \ Ascii |-> << >>]
    <2>1. s \in Seq(B)
        <3>1. Len(s) \in Nat /\ DOMAIN s = 1 .. Len(s) /\ s = [i \in 1 .. Len(s) |-> s[i]]
            OBVIOUS
        <3>2. ASSUME NEW i \in 1 .. Len(s) PROVE s[i] \in B
            BY <1>3, <3>1 DEF IsAscii, IsBidiControl, IsFormat, Invisible
        <3> HIDE DEF B
        <3>3. s \in [1 .. Len(s) -> B]
            BY <3>1, <3>2
        <3>4. QED
            BY <3>1, <3>3, FunctionSeq
    <2>2. B \in SUBSET Characters
        BY DEF Characters
    <2>3. Drops(conf) = Invisible
        BY <1>3 DEF Drops, ShouldDrop, IsDefaultPipeline, IsFormat, IsBidiControl, Invisible
    <2>4. /\ Into(Strips(conf), Characters) /\ DOMAIN Strips(conf) = Invisible
          /\ \A c \in Invisible : Strips(conf)[c] = << >>
          /\ Stripped(conf, s) = Mapped(Strips(conf), s)
        BY <2>3, StripFacts DEF Strips
    <2>5. DOMAIN only = Characters \ Ascii /\ \A c \in Characters \ Ascii : only[c] = << >>
        OBVIOUS
    <2>6. OnlyAscii(s) = Mapped(only, s)
        BY DEF OnlyAscii
    <2> HIDE DEF only
    <2>7. Into(only, Characters)
        <3>1. << >> \in Seq(Characters)
            OBVIOUS
        <3>2. QED
            BY <2>5, <3>1 DEF Into
    <2>8. ASSUME NEW c \in B PROVE Image(Strips(conf), c) = Image(only, c)
        <3>1. CASE c \in Ascii
            BY <2>4, <2>5, <3>1, AsciiPlain DEF Image
        <3>2. CASE c \in Invisible
            <4>1. c \in Characters \ Ascii
                BY <2>2, <3>2, AsciiPlain
            <4>2. QED
                BY <2>4, <2>5, <3>2, <4>1 DEF Image
        <3>3. QED
            BY <3>1, <3>2
    <2>9. ASSUME NEW c \in B PROVE Image(only, c) \in Seq(Ascii)
        <3>1. CASE c \in Ascii
            <4>1. <<c>> \in Seq(Ascii)
                BY <3>1
            <4>2. QED
                BY <2>5, <3>1, <4>1 DEF Image
        <3>2. CASE c \notin Ascii
            <4>1. << >> \in Seq(Ascii)
                OBVIOUS
            <4>2. c \in Characters \ Ascii
                BY <2>2, <3>2
            <4>3. QED
                BY <2>5, <4>1, <4>2 DEF Image
        <3>3. QED
            BY <3>1, <3>2
    <2> HIDE DEF B
    <2>10. Mapped(Strips(conf), s) = Mapped(only, s)
        BY <2>1, <2>2, <2>4, <2>7, <2>8, MappedAlike
    <2>11. Mapped(only, s) \in Seq(Ascii)
        BY <2>1, <2>2, <2>7, <2>9, AsciiPlain, MappedInto
    <2>12. OnlyAscii(s) \in Seq(Ascii) /\ OnlyAscii(s) \in Seq(Characters) /\ Stripped(conf, s) = OnlyAscii(s)
        BY <2>4, <2>6, <2>10, <2>11, AsciiPlain
    <2>13. CanonicalizeInto(conf, s, buffer) = AsciiLower(OnlyAscii(s))
        BY <1>0, <1>3, <2>12 DEF CanonicalizeInto
    <2>14. QED
        BY <1>1, <1>3, <2>12, <2>13
<1>4. CASE ~(IsDefaultPipeline(conf) /\ AllAscii(s)) /\ ~(IsDefaultPipeline(conf) /\ HalfAscii)
    <2>1. CanonicalizeInto(conf, s, buffer) = Cleared(buffer) \o Pipeline(conf, s)
        BY <1>4 DEF CanonicalizeInto
    <2>2. QED
        BY <1>0, <2>1, PipelineType
<1>5. QED
    BY <1>2, <1>3, <1>4
-----------------------------------------------------------------------------
(* A normal form is taken once, the pipeline is run once, and spellings agree. *)

LEMMA MappedSimple ==
    /\ Simple \subseteq Characters
    /\ \A s \in Seq(Characters) : Mapped(Canonical, s) \in Seq(Simple)
<1>1. ASSUME NEW c \in Characters PROVE Image(Canonical, c) \in Seq(Simple)
    <2>1. /\ <<"I", "dot">> \in Seq(Simple) /\ <<"O", "dot">> \in Seq(Simple)
          /\ <<"o", "dot">> \in Seq(Simple)
        BY TableFacts DEF Simple, Characters, Ascii, Marks
    <2>2. CASE c \in DOMAIN Canonical
        BY <2>1, <2>2, TableFacts DEF Image
    <2>3. CASE c \notin DOMAIN Canonical
        BY <2>3 DEF Image, Simple
    <2>4. QED
        BY <2>2, <2>3
<1>2. QED
    BY <1>1, TableFacts, MappedInto DEF Simple

LEMMA NormalFormOnce ==
    ASSUME NEW conf \in Configs, NEW s \in Seq(Characters)
    PROVE  NormalForm(conf, NormalForm(conf, s)) = NormalForm(conf, s)
<1> DEFINE t == Mapped(Canonical, s)
           Plain == Simple \ DOMAIN Compatible
           plain == Mapped(Compatible, t)
<1>1. t \in Seq(Simple) /\ Simple \subseteq Characters
    BY MappedSimple
<1>2. ASSUME NEW r \in Seq(Simple)
      PROVE  /\ Ordered(r) \in Seq(Simple) /\ Ordered(r) \in Seq(Characters)
             /\ Ordered(Mapped(Canonical, Composed(Ordered(r)))) = Ordered(r)
    <2>1. Ordered(r) \in Seq(Simple)
        BY OrderedType
    <2>2. r \in Seq(Characters) /\ Ordered(r) \in Seq(Characters)
        BY <1>1, <2>1
    <2>3. Ordered(Mapped(Canonical, Composed(Ordered(r)))) = Ordered(Ordered(r))
        BY <2>1, Decomposed
    <2>4. QED
        BY <2>1, <2>2, <2>3, OrderedOnce
<1>3. plain \in Seq(Plain) /\ Plain \subseteq Simple
    <2>1. ASSUME NEW c \in Simple PROVE Image(Compatible, c) \in Seq(Plain)
        <3>1. <<"O">> \in Seq(Plain) /\ <<"o">> \in Seq(Plain)
            BY TableFacts DEF Simple, Characters, Ascii
        <3>2. CASE c \in DOMAIN Compatible
            BY <3>1, <3>2, TableFacts DEF Image
        <3>3. CASE c \notin DOMAIN Compatible
            BY <3>3 DEF Image
        <3>4. QED
            BY <3>2, <3>3
    <2> HIDE DEF t, Plain
    <2>2. Mapped(Compatible, t) \in Seq(Plain)
        <3>1. Simple \in SUBSET Characters /\ Plain \subseteq Characters
            BY <1>1 DEF Plain
        <3>2. QED
            BY <1>1, <2>1, <3>1, TableFacts, MappedInto
    <2>3. QED
        BY <2>2 DEF Plain
<1> HIDE DEF t
<1>4. CASE conf.normalization = "nfc"
    <2>1. \A q : NormalForm(conf, q) = Composed(Ordered(Mapped(Canonical, q)))
        BY <1>4 DEF NormalForm, Nfc, Nfd
    <2>2. NormalForm(conf, s) = Composed(Ordered(t))
        BY <2>1 DEF t
    <2>3. QED
        BY <1>1, <1>2, <2>1, <2>2
<1>5. CASE conf.normalization = "nfkc"
    <2> DEFINE d == Ordered(plain)
               B == Characters \ DOMAIN Compatible
    <2>1. \A q : NormalForm(conf, q) = Composed(Ordered(Mapped(Compatible, Mapped(Canonical, q))))
        BY <1>5 DEF NormalForm, Nfkc
    <2>2. NormalForm(conf, s) = Composed(d)
        BY <2>1 DEF t
    <2>3. d \in Seq(Plain)
        BY <1>3, OrderedType
    <2>4. B \subseteq Characters /\ Plain \subseteq B
        BY <1>1 DEF Simple
    <2>5. ASSUME NEW c \in B PROVE Image(Canonical, c) \in Seq(B)
        <3>1. <<"I", "dot">> \in Seq(B) /\ <<"O", "dot">> \in Seq(B) /\ <<"o", "dot">> \in Seq(B)
            BY TableFacts DEF Characters, Ascii, Marks
        <3>2. CASE c \in DOMAIN Canonical
            BY <3>1, <3>2, TableFacts DEF Image
        <3>3. CASE c \notin DOMAIN Canonical
            BY <3>3 DEF Image
        <3>4. QED
            BY <3>2, <3>3
    <2>6. \A b, c \in B : <<b, c>> \in DOMAIN Composites => Composites[<<b, c>>] \in B
        <3>1. ASSUME NEW b \in B, NEW c \in B, <<b, c>> \in DOMAIN Composites
              PROVE  Composites[<<b, c>>] \in B
            <4>1. Composites[<<b, c>>] \in {"Idot", "Odot", "odot"}
                BY <3>1, CompositeFacts, TableFacts
            <4>2. QED
                BY <4>1, TableFacts DEF Characters
        <3>2. QED
            BY <3>1
    <2>7. B \cap DOMAIN Compatible = {}
        OBVIOUS
    <2> HIDE DEF B, d
    <2>8. d \in Seq(B)
        BY <2>3, <2>4
    <2>9. Composed(d) \in Seq(B)
        BY <2>6, <2>8, ComposedType
    <2>10. Mapped(Canonical, Composed(d)) \in Seq(B)
        BY <2>4, <2>5, <2>9, TableFacts, MappedInto
    <2>11. Mapped(Compatible, Mapped(Canonical, Composed(d))) = Mapped(Canonical, Composed(d))
        BY <2>4, <2>7, <2>10, TableFacts, MappedNot
    <2>12. plain \in Seq(Simple)
        BY <1>3
    <2> HIDE DEF plain
    <2>13. Ordered(Mapped(Canonical, Composed(d))) = d
        BY <1>2, <2>12 DEF d
    <2>14. QED
        BY <2>1, <2>2, <2>11, <2>13
<1>6. CASE conf.normalization = "none"
    BY <1>6 DEF NormalForm
<1>7. QED
    BY <1>4, <1>5, <1>6 DEF Configs

\* Without the skeleton what comes out of the pipeline passes through it unchanged.
LEMMA PipelineOnce ==
    ASSUME NEW conf \in Configs, ~conf.applyConfusable, NEW s \in Seq(Characters)
    PROVE  Pipeline(conf, Pipeline(conf, s)) = Pipeline(conf, s)
<1> DEFINE L == Left(conf)
           v == StripAndNormalize(conf, s)
           w == CaseFolded(v)
           r == NormalForm(conf, w)
<1>1. L \subseteq Characters /\ Closed(L) /\ Closed(Small) /\ Small \subseteq Characters
    BY StripFacts, ClosedSets DEF Closed
<1>2. \A t \in Seq(L) : Stripped(conf, t) = t
    BY StripFacts
<1>3. \A t \in Seq(L) : NormalForm(conf, t) \in Seq(L)
    BY <1>1, NormalFormType
<1>4. Stripped(conf, s) \in Seq(L) /\ Stripped(conf, s) \in Seq(Characters)
    <2>1. Stripped(conf, s) \in Seq(L)
        BY StripFacts
    <2>2. QED
        BY <1>1, <2>1
<1>5. v \in Seq(L) /\ v \in Seq(Characters) /\ NormalForm(conf, v) = v
    <2>1. v = NormalForm(conf, Stripped(conf, s))
        BY DEF StripAndNormalize
    <2> HIDE DEF v, L
    <2>2. v \in Seq(L) /\ NormalForm(conf, v) = v
        BY <1>3, <1>4, <2>1, NormalFormOnce
    <2>3. QED
        BY <1>1, <2>2
<1> HIDE DEF L, v
<1>6. \A t : Pipeline(conf, t) = Fold(conf, StripAndNormalize(conf, t))
    BY DEF Pipeline, Confusable
<1>7. Pipeline(conf, s) = Fold(conf, v)
    BY <1>6 DEF v
<1>8. \A t \in Seq(L) : StripAndNormalize(conf, t) = NormalForm(conf, t)
    BY <1>2 DEF StripAndNormalize
<1>9. CASE conf.caseFold # "simple"
    <2>1. \A t : Fold(conf, t) = t
        BY <1>9 DEF Fold
    <2>2. QED
        BY <1>5, <1>6, <1>7, <1>8, <2>1
<1>10. CASE conf.caseFold = "simple"
    <2>1. w \in Seq(L) /\ w \in Seq(Small) /\ w \in Seq(Characters)
        <3>1. w \in Seq(L) /\ w \in Seq(Small)
            BY <1>5, FoldedType DEF L
        <3> HIDE DEF w
        <3>2. QED
            BY <1>1, <3>1
    <2>2. \A t \in Seq(Small) : CaseFolded(t) = t
        BY FoldedType
    <2>3. \A t : Fold(conf, t) = IF AllAscii(CaseFolded(t)) THEN CaseFolded(t)
                                 ELSE NormalForm(conf, CaseFolded(t))
        BY <1>10 DEF Fold
    <2>4. ASSUME NEW t \in Seq(L), t \in Seq(Small), NormalForm(conf, t) = t
          PROVE  Pipeline(conf, t) = t
        <3>1. StripAndNormalize(conf, t) = t /\ CaseFolded(t) = t
            BY <1>8, <2>2, <2>4
        <3>2. QED
            BY <1>6, <2>3, <2>4, <3>1
    <2>5. Pipeline(conf, s) = IF AllAscii(w) THEN w ELSE r
        BY <1>7, <2>3
    <2> HIDE DEF w
    <2>6. CASE AllAscii(w)
        <3>1. w \in Seq(Ascii)
            <4>1. Len(w) \in Nat /\ DOMAIN w = 1 .. Len(w) /\ w = [i \in 1 .. Len(w) |-> w[i]]
                BY <2>1
            <4>2. w \in [1 .. Len(w) -> Ascii]
                BY <2>6, <4>1 DEF AllAscii, IsAscii
            <4>3. QED
                BY <4>1, <4>2, FunctionSeq
        <3>2. Nfc(w) = w /\ Nfkc(w) = w
            BY <3>1, AsciiNormal
        <3>3. NormalForm(conf, w) = w
            BY <3>2 DEF NormalForm, Configs
        <3>4. QED
            BY <2>1, <2>4, <2>5, <2>6, <3>3
    <2>7. CASE ~AllAscii(w)
        <3>1. r \in Seq(L) /\ r \in Seq(Small)
            BY <1>1, <2>1, NormalFormType
        <3>2. NormalForm(conf, r) = r
            BY <2>1, NormalFormOnce
        <3> HIDE DEF r
        <3>3. QED
            BY <2>4, <2>5, <2>7, <3>1, <3>2
    <2>8. QED
        BY <2>6, <2>7
<1>11. QED
    BY <1>9, <1>10

\* What is stripped may be taken out before decomposing or after.
LEMMA Spellings ==
    ASSUME NEW conf \in Configs, conf.normalization # "none", NEW s \in Seq(Characters)
    PROVE  NormalForm(conf, Stripped(conf, Nfd(s))) = NormalForm(conf, Stripped(conf, s))
<1> DEFINE t == Mapped(Canonical, s)
           strip == Strips(conf)
           m == Mapped(Canonical, Mapped(strip, s))
<1>1. /\ Into(strip, Characters) /\ Into(Canonical, Characters) /\ Into(Compatible, Characters)
      /\ DOMAIN strip = Drops(conf) /\ Drops(conf) \subseteq Invisible
      /\ \A q : Stripped(conf, q) = Mapped(strip, q)
    BY StripFacts, TableFacts
<1>2. Marks \cap DOMAIN strip = {} /\ Marks \cap DOMAIN Compatible = {}
    BY <1>1, TableFacts DEF Marks, Invisible
<1>3. ASSUME NEW c \in Characters
      PROVE  Mapped(strip, Image(Canonical, c)) = Mapped(Canonical, Image(strip, c))
    <2>1. CASE c \in DOMAIN Canonical
        <3>1. c \notin DOMAIN strip
            BY <1>1, <2>1, TableFacts DEF Invisible
        <3>2. Image(strip, c) = <<c>>
            BY <3>1 DEF Image
        <3>3. Mapped(Canonical, <<c>>) = Image(Canonical, c)
            BY <1>1, MappedOne
        <3>4. /\ Image(Canonical, c) \in Seq(Ascii \cup Marks)
              /\ Ascii \cup Marks \subseteq Characters /\ (Ascii \cup Marks) \cap DOMAIN strip = {}
            <4>1. /\ <<"I", "dot">> \in Seq(Ascii \cup Marks) /\ <<"O", "dot">> \in Seq(Ascii \cup Marks)
                  /\ <<"o", "dot">> \in Seq(Ascii \cup Marks)
                BY DEF Ascii, Marks
            <4>2. Image(Canonical, c) \in Seq(Ascii \cup Marks)
                BY <2>1, <4>1, TableFacts DEF Image
            <4>3. (Ascii \cup Marks) \cap DOMAIN strip = {}
                BY <1>1 DEF Ascii, Marks, Invisible
            <4>4. QED
                BY <4>2, <4>3 DEF Characters
        <3>5. Mapped(strip, Image(Canonical, c)) = Image(Canonical, c)
            BY <1>1, <3>4, MappedNot
        <3>6. QED
            BY <3>2, <3>3, <3>5
    <2>2. CASE c \notin DOMAIN Canonical
        <3>1. Image(Canonical, c) = <<c>>
            BY <2>2 DEF Image
        <3>2. Mapped(strip, <<c>>) = Image(strip, c)
            BY <1>1, MappedOne
        <3>3. CASE c \in DOMAIN strip
            <4>1. Image(strip, c) = << >>
                BY <1>1, <3>3 DEF Image, Strips
            <4>2. QED
                BY <3>1, <3>2, <4>1, MappedNothing
        <3>4. CASE c \notin DOMAIN strip
            <4>1. Image(strip, c) = <<c>>
                BY <3>4 DEF Image
            <4>2. Mapped(Canonical, <<c>>) = Image(Canonical, c)
                BY <1>1, MappedOne
            <4>3. QED
                BY <3>1, <3>2, <4>1, <4>2
        <3>5. QED
            BY <3>3, <3>4
    <2>3. QED
        BY <2>1, <2>2
<1> HIDE DEF strip
<1>4. Mapped(strip, t) = m
    BY <1>1, <1>3, MappedEitherWay
<1>5. t \in Seq(Simple) /\ Simple \subseteq Characters /\ Simple \cap DOMAIN Canonical = {}
    BY MappedSimple DEF Simple
<1> HIDE DEF t
<1>6. t \in Seq(Characters) /\ m \in Seq(Characters)
    <2>1. t \in Seq(Characters)
        BY <1>5
    <2>2. QED
        BY <1>1, <1>4, <2>1, MappedType
<1> HIDE DEF m
<1> DEFINE x == Mapped(strip, Ordered(t))
<1>7. x \in Seq(Simple) /\ x \in Seq(Characters) /\ Mapped(Canonical, x) = x
    <2>1. Ordered(t) \in Seq(Simple)
        BY <1>5, OrderedType
    <2>2. ASSUME NEW c \in Simple PROVE Image(strip, c) \in Seq(Simple)
        <3>1. << >> \in Seq(Simple) /\ <<c>> \in Seq(Simple)
            OBVIOUS
        <3>2. c \in DOMAIN strip => strip[c] = << >>
            BY <1>1 DEF strip, Strips
        <3>3. QED
            BY <3>1, <3>2 DEF Image
    <2>3. x \in Seq(Simple)
        BY <1>1, <1>5, <2>1, <2>2, MappedInto
    <2>4. Mapped(Canonical, x) = x
        BY <1>1, <1>5, <2>3, MappedNot
    <2> HIDE DEF x
    <2>5. QED
        BY <1>5, <2>3, <2>4
<1>8. Ordered(x) = Ordered(m)
    BY <1>1, <1>2, <1>4, <1>6, OrderedThrough
<1>9. Stripped(conf, Nfd(s)) = x
    BY <1>1 DEF Nfd, t
<1>10. Mapped(Canonical, Stripped(conf, s)) = m
    BY <1>1 DEF m
<1> HIDE DEF x
<1>11. CASE conf.normalization = "nfc"
    <2>1. \A q : NormalForm(conf, q) = Composed(Ordered(Mapped(Canonical, q)))
        BY <1>11 DEF NormalForm, Nfc, Nfd
    <2>2. QED
        BY <1>7, <1>8, <1>9, <1>10, <2>1
<1>12. CASE conf.normalization = "nfkc"
    <2>1. \A q : NormalForm(conf, q) = Composed(Ordered(Mapped(Compatible, Mapped(Canonical, q))))
        BY <1>12 DEF NormalForm, Nfkc
    <2>2. Ordered(Mapped(Compatible, Ordered(x))) = Ordered(Mapped(Compatible, x))
          /\ Ordered(Mapped(Compatible, Ordered(m))) = Ordered(Mapped(Compatible, m))
        BY <1>1, <1>2, <1>6, <1>7, OrderedThrough
    <2>3. Ordered(Mapped(Compatible, x)) = Ordered(Mapped(Compatible, m))
        BY <1>8, <2>2
    <2>4. QED
        BY <1>7, <1>9, <1>10, <2>1, <2>3
<1>13. QED
    BY <1>11, <1>12 DEF Configs


-----------------------------------------------------------------------------
(* The behaviours. *)

\* After the first call the buffer holds what the stages make of the text; the text of
\* the second call is the result of the first.
CanonInv ==
    /\ cfg \in Configs /\ input \in Seq(Characters) /\ round \in 0 .. 2
    /\ round > 0 => out = Pipeline(cfg, input)
    /\ round = 2 => \E s \in Seq(Characters) : input = Pipeline(cfg, s)

LEMMA CanonInvHolds == CanonSpec => []CanonInv
<1>1. CanonInit => CanonInv
    BY CanonAssumption DEF CanonInit, CanonInv
<1>2. ASSUME CanonInv, [CanonNext]_canonVars PROVE CanonInv'
    <2>1. CASE Canonicalize
        <3>1. out' = Pipeline(cfg, input)
            BY <1>2, <2>1, ShortCut DEF CanonInv, Canonicalize
        <3>2. QED
            BY <1>2, <2>1, <3>1 DEF CanonInv, Canonicalize
    <2>2. CASE CanonicalizeResult
        <3>1. out = Pipeline(cfg, input) /\ input' = out
            BY <1>2, <2>2 DEF CanonInv, CanonicalizeResult
        <3>2. out \in Seq(Characters)
            BY <1>2, <3>1, PipelineType DEF CanonInv
        <3>3. out' = Pipeline(cfg, out)
            BY <1>2, <2>2, <3>2, ShortCut DEF CanonInv, CanonicalizeResult
        <3>4. QED
            BY <1>2, <2>2, <3>1, <3>2, <3>3 DEF CanonInv, CanonicalizeResult
    <2>3. CASE UNCHANGED canonVars
        BY <1>2, <2>3 DEF CanonInv, canonVars
    <2>4. QED
        BY <1>2, <2>1, <2>2, <2>3 DEF CanonNext
<1>3. QED
    BY <1>1, <1>2, PTL DEF CanonSpec

(* Whatever the configuration, the text and what the buffer held before: the short cuts
   for text that is ASCII, or ASCII but for invisible characters, give what the stages
   give (canonicalize_into). *)
THEOREM CanonShortCuts == CanonSpec => []ShortCutsDoNotShow
<1>1. CanonInv => ShortCutsDoNotShow
    BY DEF CanonInv, ShortCutsDoNotShow
<1>2. QED
    BY <1>1, CanonInvHolds, PTL

(* Canonical text is canonicalized to itself under every configuration without the
   skeleton: the second normal form, taken after folding, is what makes it so. *)
THEOREM CanonIdempotent == CanonSpec => []Idempotent
<1>1. ASSUME CanonInv PROVE Idempotent
    <2>1. ASSUME round = 2, ~cfg.applyConfusable PROVE out = input
        <3>1. PICK s \in Seq(Characters) : input = Pipeline(cfg, s)
            BY <1>1, <2>1 DEF CanonInv
        <3>2. cfg \in Configs /\ out = Pipeline(cfg, input)
            BY <1>1, <2>1 DEF CanonInv
        <3>3. QED
            BY <2>1, <3>1, <3>2, PipelineOnce
    <2>2. QED
        BY <2>1 DEF Idempotent
<1>2. QED
    BY <1>1, CanonInvHolds, PTL

(* Invisible characters that the configuration strips, and the choice between composed
   and decomposed spelling, do not show in the result of canonicalize_into. *)
THEOREM CanonVariants == CanonSpec => []VariantsAgree
<1>1. ASSUME CanonInv PROVE VariantsAgree
    <2>1. cfg \in Configs /\ input \in Seq(Characters)
        BY <1>1 DEF CanonInv
    <2>2. ASSUME NEW s \in Seq(Characters), NEW t \in Seq(Characters),
                 NormalForm(cfg, Stripped(cfg, s)) = NormalForm(cfg, Stripped(cfg, t))
          PROVE  CanonicalizeInto(cfg, s, << >>) = Pipeline(cfg, t)
        <3>1. Pipeline(cfg, s) = Pipeline(cfg, t)
            BY <2>2 DEF Pipeline, StripAndNormalize
        <3>2. QED
            BY <2>1, <3>1, ShortCut
    <2>3. ASSUME round = 1 PROVE out = Pipeline(cfg, input)
        BY <1>1, <2>3 DEF CanonInv
    <2>4. /\ Stripped(cfg, input) \in Seq(Characters)
          /\ Stripped(cfg, Stripped(cfg, input)) = Stripped(cfg, input)
        <3>1. Stripped(cfg, input) \in Seq(Left(cfg)) /\ Left(cfg) \subseteq Characters
            BY <2>1, StripFacts
        <3>2. QED
            BY <3>1, StripFacts
    <2>5. InvisibleErased
        BY <2>1, <2>2, <2>3, <2>4 DEF InvisibleErased
    <2>6. SpellingsAgree
        <3>1. Nfd(input) \in Seq(Characters)
            BY <2>1, ClosedSets, NormalFormType
        <3>2. ASSUME cfg.normalization # "none"
              PROVE  CanonicalizeInto(cfg, Nfd(input), << >>) = Pipeline(cfg, input)
            BY <2>1, <2>2, <3>1, <3>2, Spellings
        <3>3. QED
            BY <2>3, <3>2 DEF SpellingsAgree
    <2>7. QED
        BY <2>5, <2>6 DEF VariantsAgree
<1>2. QED
    BY <1>1, CanonInvHolds, PTL
=============================================================================
