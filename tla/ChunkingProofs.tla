--------------------------- MODULE ChunkingProofs ---------------------------
(***************************************************************************)
(* The chunker loses and moves no word, repeats none but the overlap, and  *)
(* keeps its cap up to the seed, for documents of any length, any caps and *)
(* any overlaps.                                                           *)
(***************************************************************************)
EXTENDS Chunking, SequenceTheorems, WellFoundedInduction, NaturalsInduction, TLAPS

(* Induction, for a set in place of a predicate. *)
LEMMA SetInduction ==
    ASSUME NEW S, 0 \in S, \A n \in Nat : n \in S => n + 1 \in S
    PROVE  \A n \in Nat : n \in S
<1> DEFINE Missing == {n \in Nat : n \notin S}
           Less == OpToRel(<, Nat)
<1> SUFFICES ASSUME Missing # {} PROVE FALSE
    OBVIOUS
<1>1. IsWellFoundedOn(Less, Nat)
    BY NatLessThanWellFounded
<1>2. \A m, n \in Nat : m < n => <<m, n>> \in Less
    BY DEF OpToRel
<1> HIDE DEF Less
<1>3. PICK n \in Missing : \A m \in Missing : <<m, n>> \notin Less
    <2> Missing \subseteq Nat
        OBVIOUS
    <2> HIDE DEF Missing
    <2> QED
        BY <1>1, WFMin
<1>4. n \in Nat /\ n - 1 \in Nat /\ n - 1 \in Missing
    BY <1>3
<1>5. <<n - 1, n>> \in Less
    BY <1>2, <1>4
<1>6. QED
    BY <1>3, <1>4, <1>5

(* A set that has the empty sequence and every sequence one element longer than one it
   has, has all. *)
LEMMA SeqInduction ==
    ASSUME NEW A, NEW S, << >> \in S, \A s \in Seq(A) : \A x \in A : s \in S => Append(s, x) \in S
    PROVE  \A s \in Seq(A) : s \in S
<1> DEFINE N == {n \in Nat : \A s \in Seq(A) : Len(s) = n => s \in S}
<1>1. 0 \in N
    BY EmptySeq
<1>2. ASSUME NEW n \in Nat, n \in N PROVE n + 1 \in N
    <2> SUFFICES ASSUME NEW s \in Seq(A), Len(s) = n + 1 PROVE s \in S
        OBVIOUS
    <2> DEFINE front == SubSeq(s, 1, n)
               x == s[n + 1]
    <2>1. front \in Seq(A) /\ Len(front) = n /\ x \in A
        OBVIOUS
    <2>2. s = Append(front, x)
        OBVIOUS
    <2> HIDE DEF front, x
    <2>3. front \in S
        BY <1>2, <2>1
    <2>4. QED
        BY <2>1, <2>2, <2>3
<1> HIDE DEF N
<1>3. \A n \in Nat : n \in N
    BY <1>1, <1>2, SetInduction
<1>4. ASSUME NEW s \in Seq(A) PROVE s \in S
    BY <1>3 DEF N
<1>5. QED
    BY <1>4

LEMMA ConcatAppend ==
    ASSUME NEW A, NEW s \in Seq(A), NEW t \in Seq(A), NEW x \in A
    PROVE  s \o Append(t, x) = Append(s \o t, x) /\ s \o << >> = s /\ << >> \o s = s
OBVIOUS

LEMMA FunctionSeq ==
    ASSUME NEW A, NEW n \in Nat, NEW f \in [1 .. n -> A]
    PROVE  f \in Seq(A) /\ Len(f) = n
OBVIOUS

-----------------------------------------------------------------------------
(* The words of a text. *)

WordRow(W, text) ==
    W = [i \in 0 .. Len(text) |->
            IF i = 0 THEN << >>
            ELSE IF IsWord(text[i]) THEN Append(W[i - 1], text[i])
            ELSE W[i - 1]]

\* The words of a beginning of a text do not depend on the rest.
LEMMA WordRowsAgree ==
    ASSUME NEW t \in Seq(Nat), NEW u \in Seq(Nat), Len(t) <= Len(u),
           \A i \in 1 .. Len(t) : t[i] = u[i], NEW V, WordRow(V, t), NEW W, WordRow(W, u)
    PROVE  \A i \in 0 .. Len(t) : V[i] = W[i]
<1> DEFINE S == {i \in Nat : i <= Len(t) => V[i] = W[i]}
<1>1. 0 \in S
    BY DEF WordRow
<1>2. ASSUME NEW n \in Nat, n \in S PROVE n + 1 \in S
    <2> SUFFICES ASSUME n + 1 <= Len(t) PROVE V[n + 1] = W[n + 1]
        OBVIOUS
    <2>1. n + 1 \in 0 .. Len(t) /\ n + 1 \in 0 .. Len(u) /\ n + 1 # 0 /\ (n + 1) - 1 = n
        OBVIOUS
    <2>2. V[n] = W[n] /\ t[n + 1] = u[n + 1]
        BY <1>2
    <2>3. V[n + 1] = IF IsWord(t[n + 1]) THEN Append(V[n], t[n + 1]) ELSE V[n]
        BY <2>1 DEF WordRow
    <2>4. W[n + 1] = IF IsWord(u[n + 1]) THEN Append(W[n], u[n + 1]) ELSE W[n]
        BY <2>1 DEF WordRow
    <2>5. QED
        BY <2>2, <2>3, <2>4
<1> HIDE DEF S
<1>3. \A n \in Nat : n \in S
    BY <1>1, <1>2, SetInduction
<1>4. ASSUME NEW i \in 0 .. Len(t) PROVE V[i] = W[i]
    BY <1>3 DEF S
<1>5. QED
    BY <1>4

LEMMA WordRowExists ==
    ASSUME NEW text \in Seq(Nat)
    PROVE  \E W : WordRow(W, text)
<1> DEFINE Row(W, n) == W = [i \in 0 .. n |->
                               IF i = 0 THEN << >>
                               ELSE IF IsWord(text[i]) THEN Append(W[i - 1], text[i])
                               ELSE W[i - 1]]
           S == {n \in Nat : \E W : Row(W, n)}
<1>1. 0 \in S
    <2> DEFINE W == [i \in 0 .. 0 |-> << >>]
    <2>1. Row(W, 0)
        OBVIOUS
    <2>2. QED
        BY <2>1
<1>2. ASSUME NEW n \in Nat, n \in S PROVE n + 1 \in S
    <2>1. PICK W : Row(W, n)
        BY <1>2
    <2> DEFINE last == IF IsWord(text[n + 1]) THEN Append(W[n], text[n + 1]) ELSE W[n]
               V == [i \in 0 .. n + 1 |-> IF i <= n THEN W[i] ELSE last]
    <2>2. /\ \A i \in 0 .. n : V[i] = W[i]
          /\ V[n + 1] = last
        OBVIOUS
    <2> HIDE DEF last
    <2>3. V = [i \in 0 .. n + 1 |-> V[i]]
        OBVIOUS
    <2> HIDE DEF V
    <2>4. ASSUME NEW i \in 0 .. n + 1
          PROVE  V[i] = IF i = 0 THEN << >>
                        ELSE IF IsWord(text[i]) THEN Append(V[i - 1], text[i])
                        ELSE V[i - 1]
        <3>1. CASE i = 0
            BY <2>1, <2>2, <3>1
        <3>2. CASE i # 0 /\ i <= n
            <4>1. i \in 0 .. n /\ i - 1 \in 0 .. n
                BY <3>2
            <4>2. W[i] = IF IsWord(text[i]) THEN Append(W[i - 1], text[i]) ELSE W[i - 1]
                BY <2>1, <3>2, <4>1
            <4>3. QED
                BY <2>2, <3>2, <4>1, <4>2
        <3>3. CASE i = n + 1
            <4>1. i - 1 = n /\ i # 0 /\ n \in 0 .. n
                BY <3>3
            <4>2. QED
                BY <2>2, <3>3, <4>1 DEF last
        <3>4. QED
            BY <3>1, <3>2, <3>3
    <2>5. Row(V, n + 1)
        BY <2>3, <2>4
    <2>6. QED
        BY <2>5
<1> HIDE DEF S
<1>3. Len(text) \in S
    BY <1>1, <1>2, SetInduction
<1>4. QED
    BY <1>3 DEF S, WordRow

LEMMA WordsRow ==
    ASSUME NEW text \in Seq(Nat)
    PROVE  \E W : WordRow(W, text) /\ Words(text) = W[Len(text)]
<1> DEFINE W == CHOOSE W : WordRow(W, text)
<1>1. WordRow(W, text)
    BY WordRowExists
<1>2. Words(text) = W[Len(text)]
    BY DEF Words, WordRow
<1>3. QED
    BY <1>1, <1>2

LEMMA WordsAppend ==
    ASSUME NEW t \in Seq(Nat), NEW x \in Nat
    PROVE  Words(Append(t, x)) = IF IsWord(x) THEN Append(Words(t), x) ELSE Words(t)
<1> DEFINE u == Append(t, x)
           n == Len(t)
<1>1. u \in Seq(Nat) /\ Len(u) = n + 1 /\ u[n + 1] = x /\ n \in Nat /\ \A i \in 1 .. n : t[i] = u[i]
    OBVIOUS
<1>2. PICK V : WordRow(V, t) /\ Words(t) = V[n]
    BY WordsRow
<1> HIDE DEF u
<1>3. PICK W : WordRow(W, u) /\ Words(u) = W[Len(u)]
    BY <1>1, WordsRow
<1>4. V[n] = W[n]
    <2>1. WordRow(V, t) /\ WordRow(W, u) /\ Len(t) <= Len(u) /\ n \in 0 .. n
        BY <1>1, <1>2, <1>3
    <2>2. QED
        BY <1>1, <2>1, WordRowsAgree
<1>5. W[n + 1] = IF IsWord(u[n + 1]) THEN Append(W[n], u[n + 1]) ELSE W[n]
    <2>1. n + 1 \in 0 .. Len(u) /\ n + 1 # 0 /\ (n + 1) - 1 = n
        BY <1>1
    <2>2. QED
        BY <1>3, <2>1 DEF WordRow
<1>6. QED
    BY <1>1, <1>2, <1>3, <1>4, <1>5 DEF u

LEMMA WordsOfNothing == Words(<< >>) = << >>
<1>1. << >> \in Seq(Nat) /\ Len(<< >>) = 0
    OBVIOUS
<1>2. PICK W : WordRow(W, << >>) /\ Words(<< >>) = W[Len(<< >>)]
    BY <1>1, WordsRow
<1>3. W[0] = << >>
    BY <1>1, <1>2 DEF WordRow
<1>4. QED
    BY <1>1, <1>2, <1>3

LEMMA WordsAreWords ==
    \A t \in Seq(Nat) : Words(t) \in Seq(Nat) /\ Len(Words(t)) \in Nat
<1> DEFINE S == {t \in Seq(Nat) : Words(t) \in Seq(Nat)}
<1>1. << >> \in S
    <2>1. << >> \in Seq(Nat)
        OBVIOUS
    <2>2. QED
        BY <2>1, WordsOfNothing
<1>2. ASSUME NEW t \in Seq(Nat), NEW x \in Nat, t \in S PROVE Append(t, x) \in S
    <2>1. Append(t, x) \in Seq(Nat) /\ Words(t) \in Seq(Nat) /\ Append(Words(t), x) \in Seq(Nat)
        BY <1>2
    <2>2. Words(Append(t, x)) = IF IsWord(x) THEN Append(Words(t), x) ELSE Words(t)
        BY WordsAppend
    <2>3. QED
        BY <2>1, <2>2
<1> HIDE DEF S
<1>3. \A t \in Seq(Nat) : t \in S
    BY <1>1, <1>2, SeqInduction
<1>4. QED
    BY <1>3 DEF S

LEMMA WordsConcat ==
    ASSUME NEW t \in Seq(Nat), NEW u \in Seq(Nat)
    PROVE  Words(t \o u) = Words(t) \o Words(u)
<1> DEFINE S == {v \in Seq(Nat) : Words(t \o v) = Words(t) \o Words(v)}
<1>1. << >> \in S
    BY WordsOfNothing, WordsAreWords
<1>2. ASSUME NEW v \in Seq(Nat), NEW x \in Nat, v \in S PROVE Append(v, x) \in S
    <2>1. t \o Append(v, x) = Append(t \o v, x) /\ t \o v \in Seq(Nat)
        BY ConcatAppend
    <2>2. Words(Append(t \o v, x)) = IF IsWord(x) THEN Append(Words(t \o v), x) ELSE Words(t \o v)
        BY <2>1, WordsAppend
    <2>3. Words(Append(v, x)) = IF IsWord(x) THEN Append(Words(v), x) ELSE Words(v)
        BY WordsAppend
    <2>4. Words(t \o v) = Words(t) \o Words(v)
        BY <1>2
    <2>5. Words(t) \o Append(Words(v), x) = Append(Words(t) \o Words(v), x)
        BY WordsAreWords, ConcatAppend
    <2>6. Append(v, x) \in Seq(Nat)
        OBVIOUS
    <2>7. Words(t \o Append(v, x)) = Words(t) \o Words(Append(v, x))
        BY <2>1, <2>2, <2>3, <2>4, <2>5
    <2>8. QED
        BY <2>6, <2>7
<1> HIDE DEF S
<1>3. \A v \in Seq(Nat) : v \in S
    BY <1>1, <1>2, SeqInduction
<1>4. QED
    BY <1>3 DEF S

LEMMA WordsOfWords ==
    ASSUME NEW t \in Seq(Nat), \A i \in 1 .. Len(t) : t[i] > 0
    PROVE  Words(t) = t
<1> DEFINE S == {v \in Seq(Nat) : (\A i \in 1 .. Len(v) : v[i] > 0) => Words(v) = v}
<1>1. << >> \in S
    BY WordsOfNothing
<1>2. ASSUME NEW v \in Seq(Nat), NEW x \in Nat, v \in S PROVE Append(v, x) \in S
    <2>0. Append(v, x) \in Seq(Nat)
        OBVIOUS
    <2> SUFFICES ASSUME \A i \in 1 .. Len(Append(v, x)) : Append(v, x)[i] > 0
                 PROVE  Words(Append(v, x)) = Append(v, x)
        BY <2>0
    <2>1. /\ \A i \in 1 .. Len(v) : i \in 1 .. Len(Append(v, x)) /\ Append(v, x)[i] = v[i]
          /\ Append(v, x)[Len(v) + 1] = x /\ Len(v) + 1 \in 1 .. Len(Append(v, x))
        OBVIOUS
    <2>2. \A i \in 1 .. Len(v) : v[i] > 0
        BY <2>1
    <2>3. x > 0
        BY <2>1
    <2>4. Words(v) = v
        BY <1>2, <2>2
    <2>5. Words(Append(v, x)) = IF IsWord(x) THEN Append(Words(v), x) ELSE Words(v)
        BY WordsAppend
    <2>6. QED
        BY <2>3, <2>4, <2>5 DEF IsWord
<1> HIDE DEF S
<1>3. \A v \in Seq(Nat) : v \in S
    BY <1>1, <1>2, SeqInduction
<1>4. QED
    BY <1>3 DEF S

-----------------------------------------------------------------------------
(* The text behind a sequence of texts. *)

FlatRow(F, texts) ==
    F = [i \in 1 .. Len(texts) |-> IF i = 1 THEN texts[i] ELSE F[i - 1] \o texts[i]]

LEMMA FlatRowExists ==
    ASSUME NEW C, NEW texts \in Seq(Seq(C))
    PROVE  \E F : FlatRow(F, texts)
<1> DEFINE Row(F, n) == F = [i \in 1 .. n |-> IF i = 1 THEN texts[i] ELSE F[i - 1] \o texts[i]]
           S == {n \in Nat : \E F : Row(F, n)}
<1>1. 0 \in S
    <2> DEFINE F == [i \in 1 .. 0 |-> texts[i]]
    <2>1. Row(F, 0)
        OBVIOUS
    <2>2. QED
        BY <2>1
<1>2. ASSUME NEW n \in Nat, n \in S PROVE n + 1 \in S
    <2>1. PICK F : Row(F, n)
        BY <1>2
    <2> DEFINE last == IF n = 0 THEN texts[n + 1] ELSE F[n] \o texts[n + 1]
               G == [i \in 1 .. n + 1 |-> IF i <= n THEN F[i] ELSE last]
    <2> HIDE DEF last
    <2>2. /\ \A i \in 1 .. n : G[i] = F[i]
          /\ G[n + 1] = last
        OBVIOUS
    <2>3. G = [i \in 1 .. n + 1 |-> G[i]]
        OBVIOUS
    <2> HIDE DEF G
    <2>4. ASSUME NEW i \in 1 .. n + 1
          PROVE  G[i] = IF i = 1 THEN texts[i] ELSE G[i - 1] \o texts[i]
        <3>1. CASE i <= n /\ i = 1
            <4>1. i \in 1 .. n
                BY <3>1
            <4>2. F[i] = texts[i]
                BY <2>1, <3>1, <4>1
            <4>3. QED
                BY <2>2, <3>1, <4>1, <4>2
        <3>2. CASE i <= n /\ i # 1
            <4>1. i \in 1 .. n /\ i - 1 \in 1 .. n
                BY <3>2
            <4>2. F[i] = F[i - 1] \o texts[i]
                BY <2>1, <3>2, <4>1
            <4>3. QED
                BY <2>2, <3>2, <4>1, <4>2
        <3>3. CASE i = n + 1 /\ n = 0
            BY <2>2, <3>3 DEF last
        <3>4. CASE i = n + 1 /\ n # 0
            <4>1. i - 1 = n /\ i # 1 /\ n \in 1 .. n
                BY <3>4
            <4>2. G[i - 1] = F[n]
                BY <2>2, <4>1
            <4>3. QED
                BY <2>2, <3>4, <4>1, <4>2 DEF last
        <3>5. QED
            BY <3>1, <3>2, <3>3, <3>4
    <2>5. Row(G, n + 1)
        BY <2>3, <2>4
    <2> HIDE DEF Row
    <2>6. QED
        BY <2>5
<1> HIDE DEF S
<1>3. Len(texts) \in S
    BY <1>1, <1>2, SetInduction
<1>4. QED
    BY <1>3 DEF S, FlatRow

LEMMA FlatRowOf ==
    ASSUME NEW C, NEW texts \in Seq(Seq(C)), texts # << >>
    PROVE  \E F : FlatRow(F, texts) /\ FlattenSeq(texts) = F[Len(texts)]
<1> DEFINE F == CHOOSE F : FlatRow(F, texts)
<1>1. FlatRow(F, texts)
    BY FlatRowExists
<1>2. Len(texts) # 0
    OBVIOUS
<1>3. FlattenSeq(texts) = F[Len(texts)]
    BY <1>2, Zenon DEF FlattenSeq, FlatRow
<1>4. QED
    BY <1>1, <1>3

Begins(t, u) ==
    /\ Len(t) \in Nat /\ Len(u) \in Nat /\ Len(t) <= Len(u)
    /\ \A i \in 1 .. Len(t) : t[i] = u[i]

LEMMA FlatRowsAgree ==
    ASSUME NEW t, NEW u, Begins(t, u), NEW F, FlatRow(F, t), NEW G, FlatRow(G, u)
    PROVE  \A i \in 1 .. Len(t) : F[i] = G[i]
<1> USE DEF Begins
<1> DEFINE S == {i \in Nat : i \in 1 .. Len(t) => F[i] = G[i]}
<1>1. 0 \in S
    OBVIOUS
<1>2. ASSUME NEW n \in Nat, n \in S PROVE n + 1 \in S
    <2> SUFFICES ASSUME n + 1 \in 1 .. Len(t) PROVE F[n + 1] = G[n + 1]
        OBVIOUS
    <2>1. n + 1 \in 1 .. Len(u) /\ t[n + 1] = u[n + 1] /\ (n + 1) - 1 = n
        OBVIOUS
    <2>2. F[n + 1] = IF n + 1 = 1 THEN t[n + 1] ELSE F[n] \o t[n + 1]
        BY <2>1 DEF FlatRow
    <2>3. G[n + 1] = IF n + 1 = 1 THEN u[n + 1] ELSE G[n] \o u[n + 1]
        BY <2>1 DEF FlatRow
    <2>4. CASE n = 0
        BY <2>1, <2>2, <2>3, <2>4
    <2>5. CASE n # 0
        <3>1. n \in 1 .. Len(t) /\ n + 1 # 1
            BY <2>5
        <3>2. F[n] = G[n]
            BY <1>2, <3>1
        <3>3. QED
            BY <2>1, <2>2, <2>3, <3>1, <3>2
    <2>6. QED
        BY <2>4, <2>5
<1> HIDE DEF S
<1>3. \A n \in Nat : n \in S
    BY <1>1, <1>2, SetInduction
<1>4. ASSUME NEW i \in 1 .. Len(t) PROVE F[i] = G[i]
    BY <1>3 DEF S
<1>5. QED
    BY <1>4

LEMMA FlattenNothing == FlattenSeq(<< >>) = << >>
BY DEF FlattenSeq

LEMMA FlattenAppendAny ==
    ASSUME NEW C, NEW t \in Seq(Seq(C)), NEW x \in Seq(C)
    PROVE  FlattenSeq(Append(t, x)) = IF t = << >> THEN x ELSE FlattenSeq(t) \o x
<1> DEFINE u == Append(t, x)
           n == Len(t)
<1>0. /\ u \in Seq(Seq(C)) /\ Len(u) = n + 1 /\ u[n + 1] = x /\ n \in Nat
      /\ \A i \in 1 .. n : t[i] = u[i]
    OBVIOUS
<1> HIDE DEF u
<1>1. /\ u \in Seq(Seq(C)) /\ u # << >> /\ Len(u) = n + 1 /\ u[n + 1] = x /\ n \in Nat
      /\ \A i \in 1 .. n : t[i] = u[i]
    BY <1>0, EmptySeq
<1>2. PICK G : FlatRow(G, u) /\ FlattenSeq(u) = G[Len(u)]
    BY <1>1, FlatRowOf
<1>3. G[n + 1] = IF n + 1 = 1 THEN u[n + 1] ELSE G[n] \o u[n + 1]
    <2>1. n + 1 \in 1 .. Len(u) /\ (n + 1) - 1 = n
        BY <1>1
    <2>2. QED
        BY <1>2, <2>1 DEF FlatRow
<1>4. CASE t = << >>
    <2>1. n = 0
        BY <1>4
    <2>2. QED
        BY <1>1, <1>2, <1>3, <1>4, <2>1 DEF u
<1>5. CASE t # << >>
    <2>1. PICK F : FlatRow(F, t) /\ FlattenSeq(t) = F[n]
        BY <1>5, FlatRowOf
    <2>2. n \in 1 .. n /\ n + 1 # 1
        BY <1>5
    <2>3. F[n] = G[n]
        <3>1. FlatRow(F, t) /\ FlatRow(G, u)
            BY <1>2, <2>1
        <3>2. Begins(t, u)
            BY <1>1 DEF Begins
        <3>3. \A i \in 1 .. Len(t) : F[i] = G[i]
            BY <3>1, <3>2, FlatRowsAgree
        <3>4. QED
            BY <2>2, <3>3
    <2>4. QED
        BY <1>1, <1>2, <1>3, <1>5, <2>1, <2>2, <2>3 DEF u
<1>6. QED
    BY <1>4, <1>5

LEMMA FlattenType ==
    ASSUME NEW C
    PROVE  \A t \in Seq(Seq(C)) : FlattenSeq(t) \in Seq(C)
<1> DEFINE S == {t \in Seq(Seq(C)) : FlattenSeq(t) \in Seq(C)}
<1>1. << >> \in S
    <2>1. << >> \in Seq(Seq(C)) /\ << >> \in Seq(C)
        OBVIOUS
    <2>2. QED
        BY <2>1, FlattenNothing
<1>2. ASSUME NEW t \in Seq(Seq(C)), NEW x \in Seq(C), t \in S PROVE Append(t, x) \in S
    <2>1. Append(t, x) \in Seq(Seq(C)) /\ FlattenSeq(t) \in Seq(C)
        BY <1>2
    <2>2. FlattenSeq(t) \o x \in Seq(C)
        BY <2>1
    <2>3. FlattenSeq(Append(t, x)) = IF t = << >> THEN x ELSE FlattenSeq(t) \o x
        BY FlattenAppendAny
    <2>4. FlattenSeq(Append(t, x)) \in Seq(C)
        BY <2>2, <2>3
    <2>5. QED
        BY <2>1, <2>4
<1> HIDE DEF S
<1>3. \A t \in Seq(Seq(C)) : t \in S
    BY <1>1, <1>2, SeqInduction
<1>4. QED
    BY <1>3 DEF S

LEMMA FlattenAppend ==
    ASSUME NEW C, NEW t \in Seq(Seq(C)), NEW x \in Seq(C)
    PROVE  FlattenSeq(Append(t, x)) = FlattenSeq(t) \o x
<1>1. FlattenSeq(Append(t, x)) = IF t = << >> THEN x ELSE FlattenSeq(t) \o x
    BY FlattenAppendAny
<1>2. << >> \o x = x
    OBVIOUS
<1>3. QED
    BY <1>1, <1>2, FlattenNothing

LEMMA FlattenConcat ==
    ASSUME NEW C, NEW t \in Seq(Seq(C))
    PROVE  \A u \in Seq(Seq(C)) : FlattenSeq(t \o u) = FlattenSeq(t) \o FlattenSeq(u)
<1> DEFINE S == {u \in Seq(Seq(C)) : FlattenSeq(t \o u) = FlattenSeq(t) \o FlattenSeq(u)}
<1>1. << >> \in S
    <2>1. << >> \in Seq(Seq(C)) /\ t \o << >> = t
        OBVIOUS
    <2>2. FlattenSeq(t) \in Seq(C)
        BY FlattenType
    <2>3. FlattenSeq(t) \o << >> = FlattenSeq(t)
        BY <2>2
    <2>4. QED
        BY <2>1, <2>3, FlattenNothing
<1>2. ASSUME NEW u \in Seq(Seq(C)), NEW x \in Seq(C), u \in S PROVE Append(u, x) \in S
    <2>1. Append(u, x) \in Seq(Seq(C)) /\ t \o u \in Seq(Seq(C)) /\ t \o Append(u, x) = Append(t \o u, x)
        OBVIOUS
    <2>2. FlattenSeq(Append(t \o u, x)) = FlattenSeq(t \o u) \o x
        BY <2>1, FlattenAppend
    <2>3. FlattenSeq(Append(u, x)) = FlattenSeq(u) \o x
        BY FlattenAppend
    <2>4. FlattenSeq(t \o u) = FlattenSeq(t) \o FlattenSeq(u)
        BY <1>2
    <2>5. FlattenSeq(t) \in Seq(C) /\ FlattenSeq(u) \in Seq(C)
        BY FlattenType
    <2>6. (FlattenSeq(t) \o FlattenSeq(u)) \o x = FlattenSeq(t) \o (FlattenSeq(u) \o x)
        BY <2>5
    <2>7. QED
        BY <2>1, <2>2, <2>3, <2>4, <2>6
<1> HIDE DEF S
<1>3. \A u \in Seq(Seq(C)) : u \in S
    BY <1>1, <1>2, SeqInduction
<1>4. QED
    BY <1>3 DEF S

\* It does not matter whether paragraphs or sentences are put one behind the other first.
LEMMA FlattenTwice ==
    ASSUME NEW C
    PROVE  \A t \in Seq(Seq(Seq(C))) :
              FlattenSeq([i \in DOMAIN t |-> FlattenSeq(t[i])]) = FlattenSeq(FlattenSeq(t))
<1> DEFINE Each(t) == [i \in DOMAIN t |-> FlattenSeq(t[i])]
           S == {t \in Seq(Seq(Seq(C))) : FlattenSeq(Each(t)) = FlattenSeq(FlattenSeq(t))}
<1>1. << >> \in S
    <2>1. << >> \in Seq(Seq(Seq(C))) /\ Each(<< >>) = << >>
        OBVIOUS
    <2>2. QED
        BY <2>1, FlattenNothing
<1>2. ASSUME NEW t \in Seq(Seq(Seq(C))), NEW x \in Seq(Seq(C)), t \in S PROVE Append(t, x) \in S
    <2>1. Append(t, x) \in Seq(Seq(Seq(C)))
        OBVIOUS
    <2>2. FlattenSeq(x) \in Seq(C) /\ FlattenSeq(t) \in Seq(Seq(C))
        BY FlattenType
    <2>3. \A i \in DOMAIN t : FlattenSeq(t[i]) \in Seq(C)
        BY FlattenType
    <2>4. Each(t) \in Seq(Seq(C)) /\ Len(Each(t)) = Len(t)
        <3>1. DOMAIN t = 1 .. Len(t) /\ Len(t) \in Nat
            OBVIOUS
        <3>2. Each(t) \in [1 .. Len(t) -> Seq(C)]
            BY <2>3, <3>1
        <3>3. DOMAIN Each(t) = 1 .. Len(t)
            BY <3>1
        <3> HIDE DEF Each
        <3>4. QED
            BY <3>1, <3>2, FunctionSeq
    <2>5. Each(Append(t, x)) = Append(Each(t), FlattenSeq(x))
        <3> DEFINE u == Append(t, x)
                   e == Each(t)
                   f == FlattenSeq(x)
        <3>1. DOMAIN u = 1 .. Len(t) + 1 /\ u[Len(t) + 1] = x /\ \A i \in 1 .. Len(t) : u[i] = t[i]
            OBVIOUS
        <3>2. \A i \in 1 .. Len(t) : e[i] = FlattenSeq(t[i])
            OBVIOUS
        <3> DEFINE a == Append(e, f)
        <3>3. Len(e) = Len(t) /\ e \in Seq(Seq(C)) /\ f \in Seq(C) /\ Len(t) \in Nat
            BY <2>2, <2>4
        <3> HIDE DEF e, f
        <3>4. /\ a \in Seq(Seq(C)) /\ DOMAIN a = 1 .. Len(t) + 1 /\ a[Len(t) + 1] = f
              /\ \A i \in 1 .. Len(t) : a[i] = e[i]
            BY <3>3
        <3> HIDE DEF a, u
        <3>5. \A i \in 1 .. Len(t) + 1 : i \in 1 .. Len(t) \/ i = Len(t) + 1
            BY <3>3
        <3>6. \A i \in 1 .. Len(t) + 1 : FlattenSeq(u[i]) = a[i]
            BY <3>1, <3>2, <3>4, <3>5, Zenon DEF f
        <3>7. a = [i \in 1 .. Len(t) + 1 |-> a[i]]
            BY <3>4
        <3>8. [i \in DOMAIN u |-> FlattenSeq(u[i])] = a
            BY <3>1, <3>6, <3>7
        <3>9. QED
            BY <3>8 DEF u, a, e, f
    <2> HIDE DEF Each
    <2>6. FlattenSeq(Append(Each(t), FlattenSeq(x))) = FlattenSeq(Each(t)) \o FlattenSeq(x)
        BY <2>2, <2>4, FlattenAppend
    <2>7. FlattenSeq(Append(t, x)) = FlattenSeq(t) \o x
        BY FlattenAppend
    <2>8. FlattenSeq(FlattenSeq(t) \o x) = FlattenSeq(FlattenSeq(t)) \o FlattenSeq(x)
        BY <2>2, FlattenConcat
    <2>9. FlattenSeq(Each(t)) = FlattenSeq(FlattenSeq(t))
        BY <1>2
    <2>10. QED
        BY <2>1, <2>5, <2>6, <2>7, <2>8, <2>9
<1> HIDE DEF S
<1>3. \A t \in Seq(Seq(Seq(C))) : t \in S
    BY <1>1, <1>2, SeqInduction
<1>4. QED
    BY <1>3 DEF S

-----------------------------------------------------------------------------
(* Where a text lies in the document: behind its first a words, up to its b-th. *)

Run(a, b) == [i \in 1 .. b - a |-> a + i]

Holds(text, a, b) ==
    /\ text \in Seq(Nat) /\ a \in Nat /\ b \in Nat /\ a <= b
    /\ Words(text) = Run(a, b)

LEMMA RunType ==
    ASSUME NEW a \in Nat, NEW b \in Nat, a <= b
    PROVE  /\ Run(a, b) \in Seq(Nat) /\ Len(Run(a, b)) = b - a
           /\ DOMAIN Run(a, b) = 1 .. b - a
           /\ \A i \in 1 .. b - a : Run(a, b)[i] = a + i
<1>1. b - a \in Nat
    OBVIOUS
<1>2. Run(a, b) \in [1 .. b - a -> Nat]
    BY DEF Run
<1>3. \A i \in 1 .. b - a : Run(a, b)[i] = a + i
    BY DEF Run
<1>4. DOMAIN Run(a, b) = 1 .. b - a
    BY DEF Run
<1>5. QED
    BY <1>1, <1>2, <1>3, <1>4, FunctionSeq

LEMMA RunIs ==
    ASSUME NEW a \in Nat, NEW b \in Nat, a <= b, NEW r \in Seq(Nat), Len(r) = b - a,
           \A i \in 1 .. b - a : r[i] = a + i
    PROVE  r = Run(a, b)
BY DEF Run

LEMMA HoldsNothing ==
    ASSUME NEW a \in Nat
    PROVE  Holds(<< >>, a, a) /\ \A b : Holds(<< >>, a, b) => b = a
<1>1. << >> = Run(a, a) /\ << >> \in Seq(Nat) /\ Len(<< >>) = 0
    BY DEF Run
<1>2. ASSUME NEW b, Holds(<< >>, a, b) PROVE b = a
    <2>1. b \in Nat /\ a <= b /\ Len(Run(a, b)) = 0
        BY <1>1, <1>2, WordsOfNothing DEF Holds
    <2>2. QED
        BY <2>1, RunType
<1>3. QED
    BY <1>1, <1>2, WordsOfNothing DEF Holds

LEMMA HoldsMany ==
    ASSUME NEW t, NEW a, NEW b, Holds(t, a, b)
    PROVE  Len(Words(t)) = b - a /\ Tokens(t) = ApproxTokens(b - a)
BY RunType DEF Holds, Tokens

LEMMA HoldsRun ==
    ASSUME NEW a \in Nat, NEW b \in Nat, a <= b
    PROVE  Holds(Run(a, b), a, b)
<1>0. Run(a, b) \in Seq(Nat) /\ Len(Run(a, b)) = b - a /\ \A i \in 1 .. b - a : Run(a, b)[i] = a + i
    BY RunType
<1>1. Run(a, b) \in Seq(Nat) /\ \A i \in 1 .. Len(Run(a, b)) : Run(a, b)[i] > 0
    BY <1>0
<1>2. Words(Run(a, b)) = Run(a, b)
    BY <1>1, WordsOfWords
<1>3. QED
    BY <1>1, <1>2 DEF Holds

LEMMA HoldsConcat ==
    ASSUME NEW t, NEW u, NEW a, NEW b, NEW c, Holds(t, a, b), Holds(u, b, c)
    PROVE  Holds(t \o u, a, c)
<1>1. /\ a \in Nat /\ b \in Nat /\ c \in Nat /\ a <= b /\ b <= c /\ a <= c
      /\ t \in Seq(Nat) /\ u \in Seq(Nat)
    BY DEF Holds
<1>2. Words(t \o u) = Run(a, b) \o Run(b, c)
    BY <1>1, WordsConcat DEF Holds
<1>3. Run(a, b) \o Run(b, c) = Run(a, c)
    <2> DEFINE f == Run(a, b)
               g == Run(b, c)
    <2>1. f \in Seq(Nat) /\ Len(f) = b - a /\ \A i \in 1 .. b - a : f[i] = a + i
        BY <1>1, RunType
    <2>2. g \in Seq(Nat) /\ Len(g) = c - b /\ \A i \in 1 .. c - b : g[i] = b + i
        BY <1>1, RunType
    <2> HIDE DEF f, g
    <2>3. f \o g \in Seq(Nat) /\ Len(f \o g) = Len(f) + Len(g)
        BY <2>1, <2>2
    <2>4. Len(f \o g) = c - a
        BY <1>1, <2>1, <2>2, <2>3
    <2>5. ASSUME NEW i \in 1 .. c - a PROVE (f \o g)[i] = a + i
        <3>1. CASE i <= b - a
            <4>1. i \in 1 .. Len(f) /\ i \in 1 .. b - a
                BY <1>1, <2>1, <3>1
            <4>2. (f \o g)[i] = f[i]
                BY <2>1, <2>2, <4>1
            <4>3. QED
                BY <2>1, <4>1, <4>2
        <3>2. CASE i > b - a
            <4> DEFINE k == i - (b - a)
            <4>1. k \in 1 .. c - b /\ i = Len(f) + k /\ k \in 1 .. Len(g)
                BY <1>1, <2>1, <2>2, <3>2
            <4> HIDE DEF k
            <4>2. (f \o g)[Len(f) + k] = g[k]
                BY <2>1, <2>2, <4>1
            <4>3. g[k] = b + k
                BY <2>2, <4>1
            <4>4. b + k = a + i
                BY <1>1 DEF k
            <4>5. QED
                BY <4>1, <4>2, <4>3, <4>4
        <3>3. i \in Int /\ b - a \in Int
            BY <1>1
        <3>4. i <= b - a \/ i > b - a
            BY <3>3
        <3>5. QED
            BY <3>1, <3>2, <3>4, Zenon
    <2>6. f \o g = Run(a, c)
        BY <1>1, <2>3, <2>4, <2>5, RunIs
    <2>7. QED
        BY <2>6 DEF f, g
<1>4. t \o u \in Seq(Nat)
    BY <1>1
<1>5. QED
    BY <1>1, <1>2, <1>3, <1>4 DEF Holds

LEMMA HoldsSplit ==
    ASSUME NEW t \in Seq(Nat), NEW u \in Seq(Nat), NEW a, NEW c, Holds(t \o u, a, c)
    PROVE  \E b \in Nat : Holds(t, a, b) /\ Holds(u, b, c)
<1> DEFINE v == Words(t)
           w == Words(u)
           b == a + Len(v)
<1>1. a \in Nat /\ c \in Nat /\ a <= c /\ v \o w = Run(a, c)
    BY WordsConcat DEF Holds
<1>2. v \in Seq(Nat) /\ w \in Seq(Nat) /\ Len(v) \in Nat /\ Len(w) \in Nat
    BY WordsAreWords
<1>3. Len(Run(a, c)) = c - a /\ \A i \in 1 .. c - a : Run(a, c)[i] = a + i
    BY <1>1, RunType
<1> HIDE DEF v, w
<1>4. b \in Nat /\ a <= b /\ b <= c /\ Len(v) = b - a /\ Len(w) = c - b
    <2>1. Len(v \o w) = Len(v) + Len(w)
        BY <1>2
    <2>2. QED
        BY <1>1, <1>2, <1>3, <2>1
<1>5. v = Run(a, b)
    <2>1. \A i \in 1 .. Len(v) : (v \o w)[i] = v[i]
        BY <1>2
    <2>2. \A i \in 1 .. b - a : v[i] = a + i
        BY <1>1, <1>3, <1>4, <2>1
    <2>3. QED
        BY <1>1, <1>2, <1>4, <2>2, RunIs
<1>6. w = Run(b, c)
    <2>1. \A i \in 1 .. Len(w) : (v \o w)[Len(v) + i] = w[i]
        BY <1>2
    <2>2. \A i \in 1 .. c - b : w[i] = b + i
        <3> SUFFICES ASSUME NEW i \in 1 .. c - b PROVE w[i] = b + i
            OBVIOUS
        <3>1. Len(v) + i \in 1 .. c - a
            BY <1>1, <1>4
        <3>2. QED
            BY <1>1, <1>3, <1>4, <2>1, <3>1
    <2>3. QED
        BY <1>1, <1>2, <1>4, <2>2, RunIs
<1>7. Holds(t, a, b) /\ Holds(u, b, c)
    BY <1>1, <1>4, <1>5, <1>6 DEF Holds, v, w
<1>8. QED
    BY <1>4, <1>7

-----------------------------------------------------------------------------
(* The pieces a text is cut into lie one behind the other. *)

Parted(texts, e, a, b) ==
    /\ e \in [0 .. Len(texts) -> Nat] /\ e[0] = a /\ e[Len(texts)] = b
    /\ \A i \in 1 .. Len(texts) : Holds(texts[i], e[i - 1], e[i])

LEMMA PartsOfText ==
    ASSUME NEW a \in Nat
    PROVE  \A texts \in Seq(Seq(Nat)) : \A b :
              Holds(FlattenSeq(texts), a, b) => \E e : Parted(texts, e, a, b)
<1> DEFINE S == {texts \in Seq(Seq(Nat)) :
                    \A b : Holds(FlattenSeq(texts), a, b) => \E e : Parted(texts, e, a, b)}
<1>1. << >> \in S
    <2>0. << >> \in Seq(Seq(Nat)) /\ Len(<< >>) = 0
        OBVIOUS
    <2>1. ASSUME NEW b, Holds(FlattenSeq(<< >>), a, b) PROVE \E e : Parted(<< >>, e, a, b)
        <3>1. b = a
            BY <2>1, FlattenNothing, HoldsNothing
        <3> DEFINE e == [i \in 0 .. 0 |-> a]
        <3>2. e \in [0 .. 0 -> Nat] /\ e[0] = a
            OBVIOUS
        <3> HIDE DEF e
        <3>3. Parted(<< >>, e, a, b)
            BY <2>0, <3>1, <3>2 DEF Parted
        <3>4. QED
            BY <3>3
    <2>2. QED
        BY <2>0, <2>1
<1>2. ASSUME NEW t \in Seq(Seq(Nat)), NEW x \in Seq(Nat), t \in S PROVE Append(t, x) \in S
    <2> DEFINE n == Len(t)
               u == Append(t, x)
    <2>0. /\ u \in Seq(Seq(Nat)) /\ Len(u) = n + 1 /\ n \in Nat /\ u[n + 1] = x
          /\ \A i \in 1 .. n : u[i] = t[i]
        OBVIOUS
    <2>1. ASSUME NEW c, Holds(FlattenSeq(u), a, c) PROVE \E e : Parted(u, e, a, c)
        <3>1. FlattenSeq(u) = FlattenSeq(t) \o x /\ FlattenSeq(t) \in Seq(Nat)
            BY FlattenAppend, FlattenType
        <3>2. PICK b \in Nat : Holds(FlattenSeq(t), a, b) /\ Holds(x, b, c)
            <4>1. Holds(FlattenSeq(t) \o x, a, c)
                BY <2>1, <3>1
            <4>2. QED
                BY <3>1, <4>1, HoldsSplit
        <3>3. PICK d : Parted(t, d, a, b)
            BY <1>2, <3>2
        <3> DEFINE e == [i \in 0 .. n + 1 |-> IF i <= n THEN d[i] ELSE c]
        <3> HIDE DEF u
        <3>4. d \in [0 .. n -> Nat] /\ d[0] = a /\ d[n] = b /\ c \in Nat
            BY <3>2, <3>3 DEF Parted, Holds
        <3>5. /\ e \in [0 .. n + 1 -> Nat] /\ e[n + 1] = c
              /\ \A i \in 0 .. n : e[i] = d[i]
            BY <2>0, <3>4
        <3> HIDE DEF e
        <3>6. e[0] = a /\ e[n] = b
            BY <2>0, <3>4, <3>5
        <3>7. ASSUME NEW i \in 1 .. n + 1 PROVE Holds(u[i], e[i - 1], e[i])
            <4>1. CASE i \in 1 .. n
                <5>1. i \in 0 .. n /\ i - 1 \in 0 .. n
                    BY <4>1
                <5>2. Holds(t[i], d[i - 1], d[i])
                    BY <3>3, <4>1 DEF Parted
                <5>3. QED
                    BY <2>0, <3>5, <4>1, <5>1, <5>2
            <4>2. CASE i = n + 1
                <5>1. i - 1 = n
                    BY <2>0, <4>2
                <5>2. QED
                    BY <2>0, <3>2, <3>5, <3>6, <4>2, <5>1
            <4>3. QED
                BY <2>0, <4>1, <4>2
        <3>8. Parted(u, e, a, c)
            BY <2>0, <3>5, <3>6, <3>7 DEF Parted
        <3>9. QED
            BY <3>8
    <2> HIDE DEF u
    <2>2. u \in S
        BY <2>0, <2>1
    <2>3. QED
        BY <2>2 DEF u
<1> HIDE DEF S
<1>3. \A t \in Seq(Seq(Nat)) : t \in S
    BY <1>1, <1>2, SeqInduction
<1>4. QED
    BY <1>3 DEF S

-----------------------------------------------------------------------------
(* The two roundings. *)

LEMMA Rounding ==
    /\ ApproxTokens(0) = 0
    /\ \A m \in Nat : ApproxTokens(m) \in Nat /\ WordsFor(m) \in Nat
    /\ \A m \in Nat : ApproxTokens(WordsFor(m)) <= m
    /\ \A m, n \in Nat : m <= n => ApproxTokens(m) <= ApproxTokens(n)
    /\ \A m, n \in Nat : ApproxTokens(m + n) <= ApproxTokens(m) + ApproxTokens(n)
BY DEF ApproxTokens, WordsFor

IsStrategy(s) == s.max_tokens \in Nat /\ s.overlap \in Nat

\* What ChunksKeepCap allows a chunk.
Limit(s) == Greatest(s.max_tokens, ApproxTokens(1)) + ApproxTokens(SeedWords(s))

LEMMA SeedBounds ==
    ASSUME NEW s, IsStrategy(s)
    PROVE  /\ MaxWords(s) \in Nat /\ MaxWords(s) >= 1
           /\ ApproxTokens(MaxWords(s)) <= Greatest(s.max_tokens, ApproxTokens(1))
           /\ SeedWords(s) \in Nat /\ SeedWords(s) <= WordsFor(s.overlap)
           /\ SeedWords(s) < MaxWords(s)
           /\ ApproxTokens(SeedWords(s)) \in Nat
           /\ Limit(s) \in Nat /\ s.max_tokens + ApproxTokens(SeedWords(s)) <= Limit(s)
           /\ ApproxTokens(MaxWords(s)) <= Limit(s)
<1>1. /\ WordsFor(s.max_tokens) \in Nat /\ WordsFor(s.overlap) \in Nat
      /\ ApproxTokens(WordsFor(s.max_tokens)) <= s.max_tokens
      /\ ApproxTokens(1) \in Nat /\ s.max_tokens \in Nat
    BY Rounding DEF IsStrategy
<1>2. MaxWords(s) \in Nat /\ MaxWords(s) >= 1
    BY <1>1 DEF MaxWords, Greatest
<1>3. ApproxTokens(MaxWords(s)) <= Greatest(s.max_tokens, ApproxTokens(1))
    <2>1. MaxWords(s) = WordsFor(s.max_tokens) \/ MaxWords(s) = 1
        BY DEF MaxWords, Greatest
    <2>2. Greatest(s.max_tokens, ApproxTokens(1)) >= s.max_tokens
        BY <1>1 DEF Greatest
    <2>3. Greatest(s.max_tokens, ApproxTokens(1)) >= ApproxTokens(1)
        BY <1>1 DEF Greatest
    <2>4. Greatest(s.max_tokens, ApproxTokens(1)) \in Nat /\ ApproxTokens(WordsFor(s.max_tokens)) \in Nat
        BY <1>1, Rounding DEF Greatest
    <2>5. QED
        BY <1>1, <2>1, <2>2, <2>3, <2>4
<1>4. SeedWords(s) \in Nat /\ SeedWords(s) <= WordsFor(s.overlap) /\ SeedWords(s) < MaxWords(s)
    BY <1>1, <1>2 DEF SeedWords, Least
<1>5. ApproxTokens(SeedWords(s)) \in Nat /\ ApproxTokens(MaxWords(s)) \in Nat
    BY <1>2, <1>4, Rounding
<1>6. Greatest(s.max_tokens, ApproxTokens(1)) \in Nat /\ s.max_tokens <= Greatest(s.max_tokens, ApproxTokens(1))
    BY <1>1 DEF Greatest
<1>7. QED
    BY <1>1, <1>2, <1>3, <1>4, <1>5, <1>6 DEF Limit

-----------------------------------------------------------------------------
(* Chunks that cover the document from its a-th word to its b-th: chunk j holds what lies
   between lo[j] and hi[j], and the last of them starts behind word l.  Position 0 stands
   for the place where the first chunk starts. *)

\* Only where paragraphs are packed whole may a chunk be without a word.
Says(s, lo, hi) == s.mode = "Recursive" \/ lo < hi

Follows(chunk, from, upto, lo, hi, s) ==
    /\ chunk # << >> /\ Says(s, lo, hi) /\ Holds(chunk, lo, hi) /\ Tokens(chunk) <= Limit(s)
    /\ from <= lo /\ lo <= upto /\ upto <= hi /\ upto - lo <= WordsFor(s.overlap)

Laid(out, lo, hi, a, l, b, s) ==
    /\ out \in Seq(Seq(Nat))
    /\ lo \in [0 .. Len(out) -> Nat] /\ hi \in [0 .. Len(out) -> Nat]
    /\ lo[0] = a /\ hi[0] = a /\ lo[Len(out)] = l /\ hi[Len(out)] = b
    /\ \A j \in 1 .. Len(out) : Follows(out[j], lo[j - 1], hi[j - 1], lo[j], hi[j], s)

Chunked(out, a, l, b, s) == \E lo, hi : Laid(out, lo, hi, a, l, b, s)

LEMMA NothingChunked ==
    ASSUME NEW a \in Nat, NEW s
    PROVE  Chunked(<< >>, a, a, a, s)
<1> DEFINE lo == [j \in 0 .. 0 |-> a]
<1>1. << >> \in Seq(Seq(Nat)) /\ Len(<< >>) = 0
    OBVIOUS
<1>2. lo \in [0 .. 0 -> Nat] /\ lo[0] = a
    OBVIOUS
<1> HIDE DEF lo
<1>3. Laid(<< >>, lo, lo, a, a, a, s)
    BY <1>1, <1>2 DEF Laid
<1>4. QED
    BY <1>3 DEF Chunked

LEMMA ChunkedBounds ==
    ASSUME NEW out, NEW a, NEW l, NEW b, NEW s, Chunked(out, a, l, b, s)
    PROVE  /\ out \in Seq(Seq(Nat)) /\ a \in Nat /\ l \in Nat /\ b \in Nat /\ l <= b
           /\ out = << >> => l = a /\ b = a
           /\ out # << >> => Last(out) \in Seq(Nat) /\ Holds(Last(out), l, b)
<1>1. PICK lo, hi : Laid(out, lo, hi, a, l, b, s)
    BY DEF Chunked
<1>2. out \in Seq(Seq(Nat)) /\ Len(out) \in Nat
    BY <1>1 DEF Laid
<1>3. a \in Nat /\ l \in Nat /\ b \in Nat
    <2> DEFINE n == Len(out)
    <2>1. /\ lo \in [0 .. n -> Nat] /\ hi \in [0 .. n -> Nat]
          /\ lo[0] = a /\ lo[n] = l /\ hi[n] = b /\ n \in Nat
        BY <1>1, <1>2 DEF Laid
    <2> HIDE DEF n
    <2>2. QED
        BY <2>1
<1>4. CASE out = << >>
    <2>1. Len(out) = 0
        BY <1>4
    <2>2. QED
        BY <1>1, <1>2, <1>3, <1>4, <2>1 DEF Laid
<1>5. CASE out # << >>
    <2>1. Len(out) \in 1 .. Len(out) /\ Last(out) = out[Len(out)]
        BY <1>2, <1>5 DEF Last
    <2>2. Follows(out[Len(out)], lo[Len(out) - 1], hi[Len(out) - 1], l, b, s)
        BY <1>1, <2>1 DEF Laid
    <2>3. Holds(Last(out), l, b)
        BY <2>1, <2>2 DEF Follows
    <2>4. QED
        BY <1>2, <1>3, <1>5, <2>3 DEF Holds
<1>6. QED
    BY <1>4, <1>5

\* Chunks go on with chunks that start where they end.
LEMMA ChunkedConcat ==
    ASSUME NEW out, NEW split, NEW a, NEW l, NEW b, NEW m, NEW c, NEW s,
           Chunked(out, a, l, b, s), Chunked(split, b, m, c, s)
    PROVE  \E k : Chunked(out \o split, a, k, c, s)
<1>1. PICK lo, hi : Laid(out, lo, hi, a, l, b, s)
    BY DEF Chunked
<1>2. PICK lo2, hi2 : Laid(split, lo2, hi2, b, m, c, s)
    BY DEF Chunked
<1> DEFINE n == Len(out)
           p == Len(split)
           from == [j \in 0 .. n + p |-> IF j <= n THEN lo[j] ELSE lo2[j - n]]
           upto == [j \in 0 .. n + p |-> IF j <= n THEN hi[j] ELSE hi2[j - n]]
           k == from[n + p]
           all == out \o split
<1>3. /\ out \in Seq(Seq(Nat)) /\ split \in Seq(Seq(Nat)) /\ n \in Nat /\ p \in Nat
      /\ lo \in [0 .. n -> Nat] /\ hi \in [0 .. n -> Nat]
      /\ lo2 \in [0 .. p -> Nat] /\ hi2 \in [0 .. p -> Nat]
      /\ lo[0] = a /\ hi[0] = a /\ lo[n] = l /\ hi[n] = b
      /\ lo2[0] = b /\ hi2[0] = b /\ lo2[p] = m /\ hi2[p] = c
    <2>1. /\ out \in Seq(Seq(Nat)) /\ n \in Nat /\ lo \in [0 .. n -> Nat] /\ hi \in [0 .. n -> Nat]
          /\ lo[0] = a /\ hi[0] = a /\ lo[n] = l /\ hi[n] = b
        BY <1>1 DEF Laid
    <2>2. /\ split \in Seq(Seq(Nat)) /\ p \in Nat /\ lo2 \in [0 .. p -> Nat] /\ hi2 \in [0 .. p -> Nat]
          /\ lo2[0] = b /\ hi2[0] = b /\ lo2[p] = m /\ hi2[p] = c
        BY <1>2 DEF Laid
    <2>3. QED
        BY <2>1, <2>2
<1>4. /\ all \in Seq(Seq(Nat)) /\ Len(all) = n + p
      /\ \A j \in 1 .. n : all[j] = out[j]
      /\ \A j \in 1 .. p : all[n + j] = split[j]
    BY <1>3
<1> HIDE DEF n, p
<1>5. /\ from \in [0 .. n + p -> Nat] /\ upto \in [0 .. n + p -> Nat]
      /\ \A j \in 0 .. n : from[j] = lo[j] /\ upto[j] = hi[j]
      /\ \A j \in 1 .. p : from[n + j] = lo2[j] /\ upto[n + j] = hi2[j]
    <2>1. \A j \in 0 .. n + p : j \in 0 .. n \/ (~(j <= n) /\ j - n \in 0 .. p)
        BY <1>3
    <2>2. from \in [0 .. n + p -> Nat] /\ upto \in [0 .. n + p -> Nat]
        BY <1>3, <2>1
    <2>3. \A j \in 0 .. n : from[j] = lo[j] /\ upto[j] = hi[j]
        BY <1>3
    <2>4. \A j \in 1 .. p : n + j \in 0 .. n + p /\ ~(n + j <= n) /\ (n + j) - n = j
        BY <1>3
    <2>5. \A j \in 1 .. p : from[n + j] = lo2[j] /\ upto[n + j] = hi2[j]
        BY <2>4
    <2>6. QED
        BY <2>2, <2>3, <2>5
<1> HIDE DEF from, upto, all
<1>6. from[0] = a /\ upto[0] = a /\ from[n] = l /\ upto[n] = b
    BY <1>3, <1>5
<1>7. upto[n + p] = c
    <2>1. CASE p = 0
        BY <1>3, <1>6, <2>1
    <2>2. CASE p # 0
        <3>1. p \in 1 .. p
            BY <1>3, <2>2
        <3>2. QED
            BY <1>3, <1>5, <3>1
    <2>3. QED
        BY <2>1, <2>2
<1>8. ASSUME NEW j \in 1 .. n + p
      PROVE  Follows(all[j], from[j - 1], upto[j - 1], from[j], upto[j], s)
    <2>1. CASE j \in 1 .. n
        <3>1. j \in 0 .. n /\ j - 1 \in 0 .. n
            BY <1>3, <2>1
        <3>2. Follows(out[j], lo[j - 1], hi[j - 1], lo[j], hi[j], s)
            BY <1>1, <2>1 DEF Laid, n
        <3>3. from[j] = lo[j] /\ from[j - 1] = lo[j - 1] /\ upto[j] = hi[j] /\ upto[j - 1] = hi[j - 1]
            BY <1>5, <3>1
        <3>4. all[j] = out[j]
            BY <1>4, <2>1
        <3>5. QED
            BY <3>2, <3>3, <3>4
    <2>2. CASE j = n + 1
        <3>1. 1 \in 1 .. p /\ j - 1 = n
            BY <1>3, <2>2
        <3>2. Follows(split[1], lo2[1 - 1], hi2[1 - 1], lo2[1], hi2[1], s)
            BY <1>2, <3>1 DEF Laid, p
        <3>3. Follows(split[1], b, b, lo2[1], hi2[1], s)
            BY <1>3, <3>2
        <3>4. from[j] = lo2[1] /\ upto[j] = hi2[1] /\ from[j - 1] = l /\ upto[j - 1] = b /\ all[j] = split[1]
            BY <1>4, <1>5, <1>6, <2>2, <3>1
        <3>5. l <= b /\ l \in Nat /\ b \in Nat
            BY ChunkedBounds
        <3>6. lo2[1] \in Nat
            BY <1>3, <3>1
        <3>7. QED
            BY <3>3, <3>4, <3>5, <3>6 DEF Follows
    <2>3. CASE j \in n + 2 .. n + p
        <3> DEFINE i == j - n
        <3>1. i \in 1 .. p /\ i - 1 \in 1 .. p /\ j = n + i /\ j - 1 = n + (i - 1)
            BY <1>3, <2>3
        <3> HIDE DEF i
        <3>2. Follows(split[i], lo2[i - 1], hi2[i - 1], lo2[i], hi2[i], s)
            BY <1>2, <3>1 DEF Laid, p
        <3>3. from[n + i] = lo2[i] /\ upto[n + i] = hi2[i] /\ all[n + i] = split[i]
            BY <1>4, <1>5, <3>1
        <3>4. from[n + (i - 1)] = lo2[i - 1] /\ upto[n + (i - 1)] = hi2[i - 1]
            BY <1>5, <3>1
        <3>5. QED
            BY <3>1, <3>2, <3>3, <3>4
    <2>4. j \in 1 .. n \/ j = n + 1 \/ j \in n + 2 .. n + p
        BY <1>3
    <2>5. QED
        BY <2>1, <2>2, <2>3, <2>4, Zenon
<1>9. Laid(all, from, upto, a, k, c, s)
    BY <1>4, <1>5, <1>6, <1>7, <1>8 DEF Laid
<1>10. QED
    BY <1>9 DEF Chunked, all

\* They go on with one that repeats the end of the last of them.
LEMMA ChunkedAppend ==
    ASSUME NEW out, NEW chunk, NEW a, NEW l, NEW b, NEW k, NEW c, NEW s,
           Chunked(out, a, l, b, s), Follows(chunk, l, b, k, c, s)
    PROVE  Chunked(Append(out, chunk), a, k, c, s)
<1>1. PICK lo, hi : Laid(out, lo, hi, a, l, b, s)
    BY DEF Chunked
<1> DEFINE n == Len(out)
           from == [j \in 0 .. n + 1 |-> IF j <= n THEN lo[j] ELSE k]
           upto == [j \in 0 .. n + 1 |-> IF j <= n THEN hi[j] ELSE c]
           all == Append(out, chunk)
<1>2. k \in Nat /\ c \in Nat /\ chunk \in Seq(Nat)
    BY DEF Follows, Holds
<1>3. /\ out \in Seq(Seq(Nat)) /\ n \in Nat
      /\ lo \in [0 .. n -> Nat] /\ hi \in [0 .. n -> Nat]
      /\ lo[0] = a /\ hi[0] = a /\ lo[n] = l /\ hi[n] = b
    BY <1>1 DEF Laid
<1>4. /\ all \in Seq(Seq(Nat)) /\ Len(all) = n + 1 /\ all[n + 1] = chunk
      /\ \A j \in 1 .. n : all[j] = out[j]
    BY <1>2, <1>3
<1> HIDE DEF n, all
<1>5. /\ from \in [0 .. n + 1 -> Nat] /\ upto \in [0 .. n + 1 -> Nat]
      /\ \A j \in 0 .. n : from[j] = lo[j] /\ upto[j] = hi[j]
      /\ from[n + 1] = k /\ upto[n + 1] = c
    BY <1>2, <1>3
<1> HIDE DEF from, upto
<1>6. from[0] = a /\ upto[0] = a /\ from[n] = l /\ upto[n] = b
    BY <1>3, <1>5
<1>7. ASSUME NEW j \in 1 .. n + 1
      PROVE  Follows(all[j], from[j - 1], upto[j - 1], from[j], upto[j], s)
    <2>1. CASE j \in 1 .. n
        <3>1. j \in 0 .. n /\ j - 1 \in 0 .. n
            BY <1>3, <2>1
        <3>2. Follows(out[j], lo[j - 1], hi[j - 1], lo[j], hi[j], s)
            BY <1>1, <2>1 DEF Laid, n
        <3>3. from[j] = lo[j] /\ from[j - 1] = lo[j - 1] /\ upto[j] = hi[j] /\ upto[j - 1] = hi[j - 1]
            BY <1>5, <3>1
        <3>4. all[j] = out[j]
            BY <1>4, <2>1
        <3>5. QED
            BY <3>2, <3>3, <3>4
    <2>2. CASE j = n + 1
        <3>1. j - 1 = n
            BY <1>3, <2>2
        <3>2. QED
            BY <1>4, <1>5, <1>6, <2>2, <3>1
    <2>3. QED
        BY <1>3, <2>1, <2>2
<1>8. Laid(all, from, upto, a, k, c, s)
    BY <1>4, <1>5, <1>6, <1>7 DEF Laid
<1>9. QED
    BY <1>8 DEF Chunked, all

-----------------------------------------------------------------------------
(* Windows, and the end of a chunk that is repeated, are parts of a run of words. *)

LEMMA RunPart ==
    ASSUME NEW a \in Nat, NEW b \in Nat, a <= b, NEW i \in Nat, NEW j \in Nat,
           i <= j, j <= b - a
    PROVE  SubSeq(Run(a, b), i + 1, j) = Run(a + i, a + j)
<1> DEFINE r == Run(a, b)
           part == SubSeq(r, i + 1, j)
<1>1. r \in Seq(Nat) /\ Len(r) = b - a /\ \A m \in 1 .. b - a : r[m] = a + m
    BY RunType
<1> HIDE DEF r
<1>2. part \in Seq(Nat) /\ Len(part) = j - i /\ \A m \in 1 .. j - i : part[m] = r[i + m]
    BY <1>1
<1> HIDE DEF part
<1>3. \A m \in 1 .. j - i : part[m] = (a + i) + m
    <2> SUFFICES ASSUME NEW m \in 1 .. j - i PROVE part[m] = (a + i) + m
        OBVIOUS
    <2>1. i + m \in 1 .. b - a
        OBVIOUS
    <2>2. QED
        BY <1>1, <1>2, <2>1
<1>4. a + i \in Nat /\ a + j \in Nat /\ a + i <= a + j /\ (a + j) - (a + i) = j - i
    OBVIOUS
<1>5. QED
    BY <1>2, <1>3, <1>4, RunIs DEF part, r

LEMMA SeedIs ==
    ASSUME NEW out, NEW a, NEW l, NEW b, NEW s, Chunked(out, a, l, b, s), IsStrategy(s)
    PROVE  \E h \in Nat : /\ Holds(Seed(out, s), h, b) /\ l <= h /\ h <= b
                          /\ b - h <= SeedWords(s) /\ Len(Seed(out, s)) = b - h
<1>1. /\ l \in Nat /\ b \in Nat /\ l <= b
      /\ out = << >> => l = a /\ b = a
      /\ out # << >> => Last(out) \in Seq(Nat) /\ Holds(Last(out), l, b)
    BY ChunkedBounds
<1>2. SeedWords(s) \in Nat
    BY SeedBounds
<1>3. CASE out = << >>
    <2>1. Seed(out, s) = << >> /\ Len(Seed(out, s)) = 0
        BY <1>3 DEF Seed
    <2>2. Holds(Seed(out, s), b, b)
        BY <1>1, <2>1, HoldsNothing
    <2>3. QED
        BY <1>1, <1>2, <1>3, <2>1, <2>2
<1>4. CASE out # << >>
    <2> DEFINE i == Greatest((b - l) - SeedWords(s), 0)
    <2>1. i \in Nat /\ i <= b - l /\ (b - l) - i <= SeedWords(s)
        BY <1>1, <1>2 DEF Greatest
    <2>2. Words(Last(out)) = Run(l, b) /\ Len(Run(l, b)) = b - l
        BY <1>1, <1>4, RunType DEF Holds
    <2>3. Seed(out, s) = SubSeq(Run(l, b), i + 1, b - l)
        BY <1>4, <2>2 DEF Seed
    <2> HIDE DEF i
    <2>4. Seed(out, s) = Run(l + i, b)
        <3> DEFINE k == b - l
        <3>1. l \in Nat /\ b \in Nat /\ l <= b /\ i \in Nat /\ k \in Nat /\ i <= k /\ k <= b - l
            BY <1>1, <2>1
        <3>2. l + k = b
            BY <1>1
        <3> HIDE DEF k
        <3>3. SubSeq(Run(l, b), i + 1, k) = Run(l + i, l + k)
            BY <3>1, RunPart
        <3>4. QED
            BY <2>3, <3>2, <3>3 DEF k
    <2>5. l + i \in Nat /\ l <= l + i /\ l + i <= b /\ b - (l + i) <= SeedWords(s)
        BY <1>1, <1>2, <2>1
    <2>6. Holds(Seed(out, s), l + i, b) /\ Len(Seed(out, s)) = b - (l + i)
        BY <1>1, <2>4, <2>5, HoldsRun, RunType
    <2>7. QED
        BY <2>5, <2>6
<1>5. QED
    BY <1>3, <1>4

-----------------------------------------------------------------------------
(* The packing loop: what it has pushed ends behind word c, the open chunk holds what lies
   from word h to word b, so that it repeats c - h words, and its token count is one. *)

OpenAt(acc, a, b, s, l, c, h) ==
    /\ Chunked(acc.out, a, l, c, s) /\ Holds(acc.current, h, b)
    /\ l <= h /\ h <= c /\ c <= b /\ c - h <= WordsFor(s.overlap)
    /\ acc.tokens >= Tokens(acc.current) /\ acc.tokens <= Limit(s)
    /\ acc.current = << >> => acc.tokens = 0
    /\ acc.current # << >> => Says(s, h, b)

Open(acc, a, b, s) ==
    /\ acc \in [out : Seq(Seq(Nat)), current : Seq(Nat), tokens : Nat]
    /\ \E l, c, h : OpenAt(acc, a, b, s, l, c, h)

LEMMA OpenReopened ==
    ASSUME NEW out, NEW a, NEW l, NEW b, NEW s, Chunked(out, a, l, b, s), IsStrategy(s)
    PROVE  Open(Reopen(out, s), a, b, s) /\ Reopen(out, s).tokens <= ApproxTokens(SeedWords(s))
<1> DEFINE tail == Seed(out, s)
           acc == Reopen(out, s)
<1>1. PICK h \in Nat : /\ Holds(tail, h, b) /\ l <= h /\ h <= b
                       /\ b - h <= SeedWords(s) /\ Len(tail) = b - h
    BY SeedIs
<1>2. acc.out = out /\ acc.current = tail /\ acc.tokens = ApproxTokens(Len(tail))
    BY DEF Reopen
<1>3. /\ SeedWords(s) \in Nat /\ SeedWords(s) <= WordsFor(s.overlap)
      /\ ApproxTokens(SeedWords(s)) \in Nat /\ ApproxTokens(SeedWords(s)) <= Limit(s)
      /\ Limit(s) \in Nat
    <2>1. s.max_tokens \in Nat
        BY DEF IsStrategy
    <2>2. QED
        BY <2>1, SeedBounds
<1>4. /\ out \in Seq(Seq(Nat)) /\ l \in Nat /\ b \in Nat /\ tail \in Seq(Nat)
    BY <1>1, ChunkedBounds DEF Holds
<1>5. b - h \in Nat
    BY <1>1, <1>4
<1>6. ApproxTokens(b - h) \in Nat /\ ApproxTokens(b - h) <= ApproxTokens(SeedWords(s))
    BY <1>1, <1>3, <1>5, Rounding
<1>7. Tokens(tail) = ApproxTokens(b - h)
    BY <1>1, HoldsMany
<1>8. tail = << >> => ApproxTokens(Len(tail)) = 0
    BY Rounding
<1>9. acc \in [out : Seq(Seq(Nat)), current : Seq(Nat), tokens : Nat]
    <2>1. acc = [out |-> out, current |-> tail, tokens |-> ApproxTokens(Len(tail))]
        BY DEF Reopen
    <2>2. ApproxTokens(Len(tail)) \in Nat
        BY <1>1, <1>6
    <2> HIDE DEF acc, tail
    <2>3. QED
        BY <1>4, <2>1, <2>2
<1> HIDE DEF acc, tail
<1>10. b - h <= WordsFor(s.overlap)
    <2>1. WordsFor(s.overlap) \in Nat
        BY Rounding DEF IsStrategy
    <2>2. QED
        BY <1>1, <1>3, <1>5, <2>1
<1>11. ApproxTokens(b - h) <= Limit(s)
    BY <1>3, <1>6
<1>12. OpenAt(acc, a, b, s, l, b, h)
    <2>1. tail # << >> => Says(s, h, b)
        BY <1>1, <1>4, <1>5 DEF Says
    <2>2. QED
        BY <1>1, <1>2, <1>4, <1>6, <1>7, <1>8, <1>10, <1>11, <2>1 DEF OpenAt
<1>13. acc.tokens <= ApproxTokens(SeedWords(s))
    BY <1>1, <1>2, <1>6
<1>14. QED
    BY <1>9, <1>12, <1>13 DEF Open, acc

LEMMA OpenClosed ==
    ASSUME NEW acc, NEW a, NEW b, NEW s, Open(acc, a, b, s), IsStrategy(s)
    PROVE  \E l : Chunked(Closed(acc), a, l, b, s)
<1>1. PICK l, c, h : OpenAt(acc, a, b, s, l, c, h)
    BY DEF Open
<1>2. acc.out \in Seq(Seq(Nat)) /\ a \in Nat /\ l \in Nat /\ c \in Nat
    BY <1>1, ChunkedBounds DEF OpenAt
<1>3. acc.current \in Seq(Nat) /\ h \in Nat /\ b \in Nat /\ h <= b
    BY <1>1 DEF OpenAt, Holds
<1>4. CASE acc.current = << >>
    <2>1. b = h
        BY <1>1, <1>3, <1>4, HoldsNothing DEF OpenAt
    <2>2. c = b
        BY <1>1, <1>2, <1>3, <2>1 DEF OpenAt
    <2>3. Chunked(Closed(acc), a, l, b, s)
        BY <1>1, <1>4, <2>2 DEF Closed, OpenAt
    <2>4. QED
        BY <2>3
<1>5. CASE acc.current # << >>
    <2>1. Tokens(acc.current) <= Limit(s)
        <3>1. Tokens(acc.current) = ApproxTokens(b - h)
            BY <1>1, HoldsMany DEF OpenAt
        <3>2. b - h \in Nat
            BY <1>3
        <3>3. ApproxTokens(b - h) \in Nat
            BY <3>2, Rounding
        <3>4. acc.tokens >= Tokens(acc.current) /\ acc.tokens <= Limit(s) /\ acc.tokens \in Nat
            BY <1>1 DEF OpenAt, Open
        <3>5. Limit(s) \in Nat
            BY SeedBounds
        <3>6. QED
            BY <3>1, <3>3, <3>4, <3>5
    <2>2. Follows(acc.current, l, c, h, b, s)
        BY <1>1, <1>5, <2>1 DEF Follows, OpenAt
    <2>3. Chunked(acc.out, a, l, c, s)
        BY <1>1 DEF OpenAt
    <2>4. Chunked(Append(acc.out, acc.current), a, h, b, s)
        BY <2>2, <2>3, ChunkedAppend
    <2>5. Chunked(Closed(acc), a, h, b, s)
        BY <1>5, <2>4 DEF Closed
    <2>6. QED
        BY <2>5
<1>6. QED
    BY <1>4, <1>5

LEMMA OpenExtended ==
    ASSUME NEW acc, NEW text, NEW a, NEW b, NEW d, NEW s, Open(acc, a, b, s), IsStrategy(s),
           Holds(text, b, d), text # << >>, Says(s, b, d),
           acc.tokens + Tokens(text) <= Limit(s)
    PROVE  Open(Extend(acc, text), a, d, s)
<1>1. PICK l, c, h : OpenAt(acc, a, b, s, l, c, h)
    BY DEF Open
<1> DEFINE new == Extend(acc, text)
           current == acc.current \o text
<1>2. acc.out \in Seq(Seq(Nat)) /\ acc.current \in Seq(Nat) /\ acc.tokens \in Nat
    BY DEF Open
<1>3. l \in Nat /\ c \in Nat /\ h \in Nat /\ b \in Nat /\ d \in Nat /\ h <= b /\ b <= d /\ text \in Seq(Nat)
    BY <1>1, ChunkedBounds DEF OpenAt, Holds
<1>4. Tokens(text) = ApproxTokens(d - b) /\ Tokens(acc.current) = ApproxTokens(b - h)
    BY <1>1, HoldsMany DEF OpenAt
<1>5. /\ ApproxTokens(d - b) \in Nat /\ ApproxTokens(b - h) \in Nat /\ ApproxTokens(d - h) \in Nat
      /\ ApproxTokens(d - h) <= ApproxTokens(b - h) + ApproxTokens(d - b)
    <2>1. d - b \in Nat /\ b - h \in Nat /\ d - h \in Nat /\ d - h = (b - h) + (d - b)
        BY <1>3
    <2>2. QED
        BY <2>1, Rounding
<1>6. Holds(current, h, d)
    BY <1>1, HoldsConcat DEF OpenAt
<1>7. Tokens(current) = ApproxTokens(d - h)
    BY <1>6, HoldsMany
<1>8. current \in Seq(Nat) /\ current # << >>
    BY <1>2, <1>3
<1>9. new = [out |-> acc.out, current |-> current, tokens |-> acc.tokens + Tokens(text)]
    BY DEF Extend
<1> HIDE DEF new, current
<1>10. new \in [out : Seq(Seq(Nat)), current : Seq(Nat), tokens : Nat]
    BY <1>2, <1>4, <1>5, <1>8, <1>9
<1>11. acc.tokens >= Tokens(acc.current)
    BY <1>1 DEF OpenAt
<1>12. acc.tokens + Tokens(text) >= Tokens(current)
    BY <1>2, <1>4, <1>5, <1>7, <1>11
<1>13. c <= b /\ l <= h /\ h <= c /\ c - h <= WordsFor(s.overlap) /\ Chunked(acc.out, a, l, c, s)
    BY <1>1 DEF OpenAt
<1>14. c <= d
    BY <1>3, <1>13
<1>15. OpenAt(new, a, d, s, l, c, h)
    <2>1. Says(s, h, d)
        BY <1>3 DEF Says
    <2>2. QED
        BY <1>6, <1>8, <1>9, <1>12, <1>13, <1>14, <2>1 DEF OpenAt
<1>16. QED
    BY <1>10, <1>15 DEF Open, new

LEMMA PackedPiece ==
    ASSUME NEW acc, NEW text, NEW split, NEW a, NEW b, NEW d, NEW s,
           Open(acc, a, b, s), IsStrategy(s), Holds(text, b, d), text # << >> => Says(s, b, d),
           \E m : Chunked(split, b, m, d, s)
    PROVE  Open(PackPiece(acc, text, split, s), a, d, s)
<1> DEFINE seed == ApproxTokens(SeedWords(s))
<1>1. /\ s.max_tokens \in Nat /\ seed \in Nat /\ Limit(s) \in Nat
      /\ s.max_tokens + seed <= Limit(s)
    BY SeedBounds DEF IsStrategy
<1>2. Tokens(text) \in Nat /\ b \in Nat
    <2>1. Tokens(text) = ApproxTokens(d - b) /\ d - b \in Nat
        BY HoldsMany DEF Holds
    <2>2. QED
        BY <2>1, Rounding DEF Holds
<1>3. PICK l : Chunked(Closed(acc), a, l, b, s)
    BY OpenClosed
<1>4. CASE text = << >>
    <2>1. d = b
        BY <1>2, <1>4, HoldsNothing
    <2>2. PackPiece(acc, text, split, s) = acc
        BY <1>4 DEF PackPiece
    <2>3. QED
        BY <2>1, <2>2
<1>5. CASE text # << >> /\ Tokens(text) > s.max_tokens
    <2>1. PICK k : Chunked(Closed(acc) \o split, a, k, d, s)
        BY <1>3, ChunkedConcat
    <2>2. PackPiece(acc, text, split, s) = Reopen(Closed(acc) \o split, s)
        BY <1>5 DEF PackPiece
    <2>3. QED
        BY <2>1, <2>2, OpenReopened
<1>6. CASE /\ text # << >> /\ ~(Tokens(text) > s.max_tokens)
           /\ acc.tokens + Tokens(text) > s.max_tokens /\ acc.current # << >>
    <2> DEFINE open == Reopen(Closed(acc), s)
    <2>1. Open(open, a, b, s) /\ open.tokens <= seed
        BY <1>3, OpenReopened
    <2>2. PackPiece(acc, text, split, s) = Extend(open, text)
        BY <1>6 DEF PackPiece
    <2> HIDE DEF open
    <2>3. open.tokens \in Nat
        BY <2>1 DEF Open
    <2> HIDE DEF seed
    <2>4. open.tokens + Tokens(text) <= Limit(s)
        BY <1>1, <1>2, <1>6, <2>1, <2>3
    <2>5. QED
        BY <1>6, <2>1, <2>2, <2>4, OpenExtended
<1>7. CASE /\ text # << >> /\ ~(Tokens(text) > s.max_tokens)
           /\ ~(acc.tokens + Tokens(text) > s.max_tokens /\ acc.current # << >>)
    <2>1. PackPiece(acc, text, split, s) = Extend(acc, text)
        BY <1>7 DEF PackPiece
    <2>2. acc.tokens \in Nat /\ (acc.current = << >> => acc.tokens = 0)
        BY DEF Open, OpenAt
    <2> HIDE DEF seed
    <2>3. acc.tokens + Tokens(text) <= s.max_tokens
        BY <1>1, <1>2, <1>7, <2>2
    <2>4. acc.tokens + Tokens(text) <= Limit(s)
        BY <1>1, <1>2, <2>2, <2>3
    <2>5. QED
        BY <1>7, <2>1, <2>4, OpenExtended
<1>8. QED
    BY <1>4, <1>5, <1>6, <1>7

PackRow(P, texts, splits, s) ==
    P = [i \in 0 .. Len(texts) |->
            IF i = 0 THEN [out |-> << >>, current |-> << >>, tokens |-> 0]
            ELSE PackPiece(P[i - 1], texts[i], splits[i], s)]

LEMMA PackRowExists ==
    ASSUME NEW texts, Len(texts) \in Nat, NEW splits, NEW s
    PROVE  \E P : PackRow(P, texts, splits, s)
<1> DEFINE start == [out |-> << >>, current |-> << >>, tokens |-> 0]
           Row(P, n) == P = [i \in 0 .. n |-> IF i = 0 THEN start
                                              ELSE PackPiece(P[i - 1], texts[i], splits[i], s)]
           S == {n \in Nat : \E P : Row(P, n)}
<1> HIDE DEF start
<1>1. 0 \in S
    <2> DEFINE P == [i \in 0 .. 0 |-> start]
    <2>1. Row(P, 0)
        OBVIOUS
    <2>2. QED
        BY <2>1
<1>2. ASSUME NEW n \in Nat, n \in S PROVE n + 1 \in S
    <2>1. PICK P : Row(P, n)
        BY <1>2
    <2> DEFINE last == PackPiece(P[n], texts[n + 1], splits[n + 1], s)
               Q == [i \in 0 .. n + 1 |-> IF i <= n THEN P[i] ELSE last]
    <2> HIDE DEF last
    <2>2. /\ \A i \in 0 .. n : Q[i] = P[i]
          /\ Q[n + 1] = last
        OBVIOUS
    <2>3. Q = [i \in 0 .. n + 1 |-> Q[i]]
        OBVIOUS
    <2> HIDE DEF Q
    <2>4. ASSUME NEW i \in 0 .. n + 1
          PROVE  Q[i] = IF i = 0 THEN start ELSE PackPiece(Q[i - 1], texts[i], splits[i], s)
        <3>1. CASE i = 0
            BY <2>1, <2>2, <3>1
        <3>2. CASE i # 0 /\ i <= n
            <4>1. i \in 0 .. n /\ i - 1 \in 0 .. n
                BY <3>2
            <4>2. P[i] = PackPiece(P[i - 1], texts[i], splits[i], s)
                BY <2>1, <3>2, <4>1
            <4>3. QED
                BY <2>2, <3>2, <4>1, <4>2
        <3>3. CASE i = n + 1
            <4>1. i - 1 = n /\ i # 0 /\ n \in 0 .. n
                BY <3>3
            <4>2. Q[i - 1] = P[n]
                BY <2>2, <4>1
            <4>3. QED
                BY <2>2, <3>3, <4>1, <4>2 DEF last
        <3>4. QED
            BY <3>1, <3>2, <3>3
    <2>5. Row(Q, n + 1)
        BY <2>3, <2>4
    <2> HIDE DEF Row
    <2>6. QED
        BY <2>5
<1> HIDE DEF S
<1>3. Len(texts) \in S
    BY <1>1, <1>2, SetInduction
<1>4. QED
    BY <1>3 DEF S, PackRow, start

LEMMA PackRowOf ==
    ASSUME NEW texts, Len(texts) \in Nat, NEW splits, NEW s
    PROVE  \E P : /\ PackRow(P, texts, splits, s)
                  /\ Pack(texts, splits, s) = Closed(P[Len(texts)])
<1> DEFINE P == CHOOSE P : PackRow(P, texts, splits, s)
<1>1. PackRow(P, texts, splits, s)
    BY PackRowExists
<1>2. Pack(texts, splits, s) = Closed(P[Len(texts)])
    BY Zenon DEF Pack, PackRow
<1>3. QED
    BY <1>1, <1>2

\* Packing covers the text behind all pieces, if what a piece is split into covers it.
LEMMA Packed ==
    ASSUME NEW texts \in Seq(Seq(Nat)), NEW splits, NEW s, IsStrategy(s),
           NEW a, NEW b, NEW e, Parted(texts, e, a, b),
           \A i \in 1 .. Len(texts) : texts[i] # << >> => Says(s, e[i - 1], e[i]),
           \A i \in 1 .. Len(texts) : \E m : Chunked(splits[i], e[i - 1], m, e[i], s)
    PROVE  \E l : Chunked(Pack(texts, splits, s), a, l, b, s)
<1> DEFINE n == Len(texts)
<1>0. n \in Nat /\ e \in [0 .. n -> Nat] /\ e[0] = a /\ e[n] = b
    BY DEF Parted
<1>1. PICK P : /\ PackRow(P, texts, splits, s)
               /\ Pack(texts, splits, s) = Closed(P[n])
    BY <1>0, PackRowOf
<1> DEFINE S == {i \in Nat : i <= n => Open(P[i], a, e[i], s)}
<1>2. 0 \in S
    <2>1. P[0] = [out |-> << >>, current |-> << >>, tokens |-> 0]
        BY <1>0, <1>1 DEF PackRow
    <2>2. a \in Nat
        BY <1>0
    <2>3. Chunked(<< >>, a, a, a, s) /\ Holds(<< >>, a, a)
        BY <2>2, NothingChunked, HoldsNothing
    <2>4. /\ Tokens(<< >>) = 0
          /\ Limit(s) \in Nat /\ WordsFor(s.overlap) \in Nat
        BY WordsOfNothing, Rounding, SeedBounds DEF Tokens, IsStrategy
    <2>5. P[0] \in [out : Seq(Seq(Nat)), current : Seq(Nat), tokens : Nat]
        BY <2>1
    <2>6. a - a = 0 /\ a <= a
        BY <2>2
    <2>7. OpenAt(P[0], a, a, s, a, a, a)
        BY <2>1, <2>3, <2>4, <2>6 DEF OpenAt
    <2>8. Open(P[0], a, a, s)
        BY <2>5, <2>7 DEF Open
    <2>9. QED
        BY <1>0, <2>8
<1>3. ASSUME NEW i \in Nat, i \in S PROVE i + 1 \in S
    <2> SUFFICES ASSUME i + 1 <= n PROVE Open(P[i + 1], a, e[i + 1], s)
        OBVIOUS
    <2>1. i + 1 \in 1 .. n /\ i + 1 \in 0 .. n /\ i + 1 # 0 /\ (i + 1) - 1 = i /\ i <= n
        BY <1>0
    <2>2. Open(P[i], a, e[i], s)
        BY <1>3, <2>1
    <2>3. P[i + 1] = PackPiece(P[i], texts[i + 1], splits[i + 1], s)
        BY <1>1, <2>1 DEF PackRow
    <2>4. Holds(texts[i + 1], e[i], e[i + 1])
        BY <2>1 DEF Parted
    <2>5. /\ texts[i + 1] # << >> => Says(s, e[i], e[i + 1])
          /\ \E m : Chunked(splits[i + 1], e[i], m, e[i + 1], s)
        BY <2>1
    <2>6. QED
        BY <2>2, <2>3, <2>4, <2>5, PackedPiece
<1> HIDE DEF S
<1>4. \A i \in Nat : i \in S
    BY <1>2, <1>3, SetInduction
<1>5. Open(P[n], a, b, s)
    <2>1. n \in S /\ n <= n
        BY <1>0, <1>4
    <2> HIDE DEF n
    <2>2. QED
        BY <1>0, <2>1 DEF S
<1>6. QED
    BY <1>1, <1>5, OpenClosed

-----------------------------------------------------------------------------
(* Windows. *)

LEMMA CeilTimes ==
    ASSUME NEW m \in Nat, NEW k \in Nat, k >= 1
    PROVE  LET q == (m + k - 1) \div k IN q \in Nat /\ q * k >= m /\ q * k <= m + k - 1
<1> DEFINE q == (m + k - 1) \div k
<1>1. q \in Int /\ q * k <= m + k - 1 /\ m + k - 1 < q * k + k
    BY Z3
<1>2. q >= 0
    BY Z3
<1>3. QED
    BY <1>1, <1>2, Z3

LEMMA TimesGrows ==
    ASSUME NEW i \in Nat, NEW q \in Nat, NEW k \in Nat, i <= q
    PROVE  i * k \in Nat /\ i * k <= q * k /\ (i + 1) * k = i * k + k
BY Z3

\* With count windows of this width, each stride behind the one before, the last and only
\* the last reaches the end.
LEMMA WindowsReach ==
    ASSUME NEW many \in Nat, many >= 1, NEW width \in Nat, NEW stride \in Nat,
           stride >= 1, stride <= width
    PROVE  LET q == (Greatest(many - width, 0) + stride - 1) \div stride
           IN  /\ q \in Nat
               /\ q * stride + width >= many
               /\ \A i \in 0 .. q : i * stride \in Nat /\ i * stride < many
<1> DEFINE m == Greatest(many - width, 0)
           q == (m + stride - 1) \div stride
<1>1. m \in Nat /\ m >= many - width /\ (m = many - width \/ m = 0)
    BY DEF Greatest
<1> HIDE DEF m
<1>2. q \in Nat /\ q * stride >= m /\ q * stride <= m + stride - 1
    BY <1>1, CeilTimes
<1> HIDE DEF q
<1>3. q * stride \in Nat
    BY <1>2, TimesGrows
<1>4. q * stride + width >= many
    BY <1>1, <1>2, <1>3
<1>5. ASSUME NEW i \in 0 .. q PROVE i * stride \in Nat /\ i * stride < many
    <2>1. i \in Nat /\ i <= q
        BY <1>2
    <2>2. i * stride \in Nat /\ i * stride <= q * stride
        BY <1>2, <2>1, TimesGrows
    <2>3. CASE m = many - width
        BY <1>1, <1>2, <1>3, <2>2, <2>3
    <2>4. CASE m = 0
        <3>1. q * stride < stride
            BY <1>2, <1>3, <2>4
        <3>2. q = 0
            <4>1. q >= 1 => 1 * stride <= q * stride
                BY <1>2, TimesGrows
            <4>2. QED
                BY <1>2, <1>3, <3>1, <4>1
        <3>3. i = 0
            BY <2>1, <3>2
        <3>4. QED
            BY <3>3
    <2>5. QED
        BY <1>1, <2>3, <2>4
<1>6. QED
    BY <1>2, <1>4, <1>5 DEF q, m

LEMMA FixedChunked ==
    ASSUME NEW text, NEW a, NEW b, NEW s, Holds(text, a, b), IsStrategy(s)
    PROVE  \E l : Chunked(FixedChunks(text, s), a, l, b, s)
<1> DEFINE width == MaxWords(s)
           stride == width - Least(WordsFor(s.overlap), width - 1)
           many == b - a
           q == (Greatest(many - width, 0) + stride - 1) \div stride
           out == FixedChunks(text, s)
<1>1. /\ a \in Nat /\ b \in Nat /\ a <= b /\ many \in Nat
      /\ Words(text) = Run(a, b) /\ Run(a, b) \in Seq(Nat) /\ Len(Run(a, b)) = many
    <2>1. a \in Nat /\ b \in Nat /\ a <= b /\ many \in Nat /\ Words(text) = Run(a, b)
        BY DEF Holds
    <2>2. Run(a, b) \in Seq(Nat) /\ Len(Run(a, b)) = many
        BY <2>1, RunType
    <2>3. QED
        BY <2>1, <2>2
<1>2. /\ width \in Nat /\ width >= 1 /\ ApproxTokens(width) <= Limit(s) /\ Limit(s) \in Nat
      /\ WordsFor(s.overlap) \in Nat
    BY SeedBounds, Rounding DEF IsStrategy
<1>3. /\ stride \in Nat /\ stride >= 1 /\ stride <= width
      /\ width - stride <= WordsFor(s.overlap)
    BY <1>2 DEF Least
<1>4. CASE many = 0
    <2>1. Words(text) = << >>
        BY <1>1, <1>4, EmptySeq
    <2>2. out = [j \in 1 .. 0 |-> SubSeq(Words(text), (j - 1) * stride + 1,
                                        Least((j - 1) * stride + width, Len(Words(text))))]
        BY <2>1, Zenon DEF FixedChunks
    <2>3. out = << >>
        BY <2>2
    <2>4. b = a
        BY <1>1, <1>4
    <2>5. Chunked(out, a, a, b, s)
        BY <1>1, <2>3, <2>4, NothingChunked
    <2>6. QED
        BY <2>5
<1>5. CASE many # 0
    <2> DEFINE n == q + 1
               lo == [j \in 0 .. n |-> IF j = 0 THEN a ELSE a + (j - 1) * stride]
               hi == [j \in 0 .. n |-> IF j = 0 THEN a ELSE a + Least((j - 1) * stride + width, many)]
    <2>1. /\ q \in Nat /\ q * stride + width >= many
          /\ \A i \in 0 .. q : i * stride \in Nat /\ i * stride < many
        <3> HIDE DEF many, width, stride
        <3>1. many >= 1
            BY <1>1, <1>5
        <3>2. QED
            BY <1>1, <1>2, <1>3, <3>1, WindowsReach
    <2>2. out = [j \in 1 .. n |-> SubSeq(Run(a, b), (j - 1) * stride + 1,
                                         Least((j - 1) * stride + width, many))]
        <3>1. Words(text) # << >>
            BY <1>1, <1>5
        <3>2. n = 1 + q
            BY <2>1
        <3> HIDE DEF n
        <3>3. out = [j \in 1 .. 1 + q |-> SubSeq(Words(text), (j - 1) * stride + 1,
                                         Least((j - 1) * stride + width, Len(Words(text))))]
            BY <1>1, <3>1, Zenon DEF FixedChunks
        <3>4. QED
            BY <1>1, <3>2, <3>3, Zenon
    <2> HIDE DEF width, stride, q
    <2>3. n \in Nat
        BY <2>1
    <2>4. ASSUME NEW j \in 1 .. n
          PROVE  /\ (j - 1) * stride \in Nat /\ (j - 1) * stride < many
                 /\ Least((j - 1) * stride + width, many) \in Nat
                 /\ (j - 1) * stride < Least((j - 1) * stride + width, many)
                 /\ Least((j - 1) * stride + width, many) <= many
                 /\ Least((j - 1) * stride + width, many) - (j - 1) * stride <= width
        <3> DEFINE i == (j - 1) * stride
        <3>1. j - 1 \in 0 .. q
            BY <2>1
        <3>2. i \in Nat /\ i < many
            BY <2>1, <3>1
        <3> HIDE DEF i
        <3>3. /\ Least(i + width, many) \in Nat /\ i < Least(i + width, many)
              /\ Least(i + width, many) <= many /\ Least(i + width, many) - i <= width
            BY <1>1, <1>2, <3>2 DEF Least
        <3>4. QED
            BY <3>2, <3>3 DEF i
    <2>5. ASSUME NEW j \in 1 .. n
          PROVE  /\ lo[j] = a + (j - 1) * stride /\ hi[j] = a + Least((j - 1) * stride + width, many)
                 /\ lo[j] \in Nat /\ hi[j] \in Nat
        <3>1. j \in 0 .. n /\ j # 0
            BY <2>3
        <3>2. lo[j] = a + (j - 1) * stride /\ hi[j] = a + Least((j - 1) * stride + width, many)
            BY <3>1
        <3>3. QED
            BY <1>1, <2>4, <3>2
    <2>6. lo[0] = a /\ hi[0] = a /\ 0 \in 0 .. n
        BY <2>3
    <2>7. lo \in [0 .. n -> Nat] /\ hi \in [0 .. n -> Nat]
        <3>1. \A j \in 0 .. n : j = 0 \/ j \in 1 .. n
            BY <2>3
        <3>2. \A j \in 0 .. n : lo[j] \in Nat /\ hi[j] \in Nat
            BY <1>1, <2>5, <2>6, <3>1
        <3>3. lo = [j \in 0 .. n |-> lo[j]] /\ hi = [j \in 0 .. n |-> hi[j]]
            OBVIOUS
        <3> HIDE DEF lo, hi, n
        <3>4. QED
            BY <3>2, <3>3
    <2>8. hi[n] = b
        <3>1. n \in 1 .. n /\ n - 1 = q
            BY <2>1
        <3>2. hi[n] = a + Least(q * stride + width, many)
            BY <2>5, <3>1
        <3>3. q * stride \in Nat
            BY <2>1
        <3> DEFINE i == q * stride
        <3> HIDE DEF i
        <3>4. Least(i + width, many) = many
            BY <1>1, <1>2, <2>1, <3>3 DEF Least, i
        <3>5. a + many = b
            BY <1>1
        <3>6. QED
            BY <3>2, <3>4, <3>5 DEF i
    <2> HIDE DEF lo, hi
    <2>9. ASSUME NEW j \in 1 .. n PROVE Holds(out[j], lo[j], hi[j]) /\ out[j] # << >>
                                        /\ Tokens(out[j]) <= Limit(s) /\ out[j] \in Seq(Nat)
                                        /\ Says(s, lo[j], hi[j])
        <3> DEFINE i == (j - 1) * stride
                   k == Least(i + width, many)
        <3>1. out[j] = SubSeq(Run(a, b), i + 1, k)
            BY <2>2
        <3>2. i \in Nat /\ k \in Nat /\ i < k /\ k <= many /\ k - i <= width
            BY <2>4
        <3>3. lo[j] = a + i /\ hi[j] = a + k
            BY <2>5
        <3> HIDE DEF i, k, out
        <3>4. out[j] = Run(lo[j], hi[j])
            <4>1. a \in Nat /\ b \in Nat /\ a <= b /\ i \in Nat /\ k \in Nat /\ i <= k /\ k <= b - a
                BY <1>1, <3>2
            <4>2. SubSeq(Run(a, b), i + 1, k) = Run(a + i, a + k)
                BY <4>1, RunPart
            <4>3. QED
                BY <3>1, <3>3, <4>2
        <3>5. lo[j] \in Nat /\ hi[j] \in Nat /\ lo[j] <= hi[j] /\ hi[j] - lo[j] = k - i /\ k - i \in Nat
            BY <1>1, <3>2, <3>3
        <3>6. Holds(out[j], lo[j], hi[j])
            BY <3>4, <3>5, HoldsRun
        <3>7. Len(out[j]) = k - i /\ k - i # 0 /\ out[j] \in Seq(Nat)
            <4>1. Run(lo[j], hi[j]) \in Seq(Nat) /\ Len(Run(lo[j], hi[j])) = hi[j] - lo[j]
                BY <3>5, RunType
            <4>2. QED
                BY <3>2, <3>4, <3>5, <4>1
        <3>8. Tokens(out[j]) = ApproxTokens(k - i)
            BY <3>5, <3>6, HoldsMany
        <3>9. ApproxTokens(k - i) <= ApproxTokens(width) /\ ApproxTokens(k - i) \in Nat
              /\ ApproxTokens(width) \in Nat
            BY <1>2, <3>2, <3>5, Rounding
        <3>10. out[j] # << >> /\ Says(s, lo[j], hi[j])
            BY <1>1, <3>2, <3>3, <3>7 DEF Says
        <3>11. QED
            BY <1>2, <3>6, <3>7, <3>8, <3>9, <3>10
    <2>10. out \in Seq(Seq(Nat)) /\ Len(out) = n
        <3>1. DOMAIN out = 1 .. n /\ out = [j \in 1 .. n |-> out[j]]
            BY <2>2
        <3> HIDE DEF out, n
        <3>2. out \in [1 .. n -> Seq(Nat)]
            BY <2>9, <3>1
        <3>3. QED
            BY <2>3, <3>2, FunctionSeq
    <2>11. ASSUME NEW j \in 1 .. n PROVE Follows(out[j], lo[j - 1], hi[j - 1], lo[j], hi[j], s)
        <3>1. CASE j = 1
            <4>1. j - 1 = 0
                BY <3>1
            <4>2. lo[j] = a
                <5>1. 0 * stride = 0
                    BY <1>3
                <5>2. QED
                    BY <1>1, <2>5, <4>1, <5>1
            <4>3. hi[j] \in Nat /\ a <= hi[j]
                BY <1>1, <2>4, <2>5
            <4>4. a - a = 0 /\ a <= a
                BY <1>1
            <4>5. QED
                BY <1>2, <2>6, <2>9, <4>1, <4>2, <4>3, <4>4 DEF Follows
        <3>2. CASE j # 1
            <4> DEFINE i == (j - 2) * stride
            <4>1. j - 1 \in 1 .. n /\ (j - 1) - 1 = j - 2 /\ j - 2 \in Nat
                BY <2>3, <3>2
            <4>2. (j - 1) * stride = i + stride
                <5>1. (j - 2) + 1 = j - 1
                    BY <4>1
                <5>2. ((j - 2) + 1) * stride = (j - 2) * stride + stride
                    BY <1>3, <4>1, TimesGrows
                <5>3. QED
                    BY <5>1, <5>2
            <4>3. i \in Nat
                BY <2>4, <4>1
            <4>4. lo[j - 1] = a + i /\ hi[j - 1] = a + Least(i + width, many)
                BY <2>5, <4>1
            <4>5. lo[j] = a + (i + stride) /\ hi[j] = a + Least((i + stride) + width, many)
                BY <2>5, <4>2
            <4>6. i + stride < many
                BY <2>4, <4>2
            <4> HIDE DEF i
            <4>7. /\ Least(i + width, many) \in Nat /\ i + stride <= Least(i + width, many)
                  /\ Least(i + width, many) <= Least((i + stride) + width, many)
                  /\ Least(i + width, many) <= i + width
                  /\ Least((i + stride) + width, many) \in Nat
                BY <1>1, <1>2, <1>3, <4>3, <4>6 DEF Least
            <4>8. /\ lo[j - 1] <= lo[j] /\ lo[j] <= hi[j - 1] /\ hi[j - 1] <= hi[j]
                  /\ hi[j - 1] - lo[j] <= WordsFor(s.overlap)
                <5> DEFINE k == Least(i + width, many)
                           m == Least((i + stride) + width, many)
                           overlap == WordsFor(s.overlap)
                <5>1. lo[j - 1] = a + i /\ hi[j - 1] = a + k /\ lo[j] = a + (i + stride) /\ hi[j] = a + m
                    BY <4>4, <4>5
                <5>2. /\ k \in Nat /\ m \in Nat /\ i + stride <= k /\ k <= m /\ k <= i + width
                      /\ overlap \in Nat /\ width - stride <= overlap
                    BY <1>2, <1>3, <4>7
                <5> HIDE DEF k, m, overlap
                <5>3. a + i <= a + (i + stride) /\ a + (i + stride) <= a + k /\ a + k <= a + m
                    BY <1>1, <1>2, <1>3, <4>3, <5>2
                <5>4. (a + k) - (a + (i + stride)) <= overlap
                    BY <1>1, <1>2, <1>3, <4>3, <5>2
                <5>5. QED
                    BY <5>1, <5>3, <5>4 DEF overlap
            <4>9. QED
                BY <2>9, <4>8 DEF Follows
        <3>3. QED
            BY <3>1, <3>2
    <2>12. Laid(out, lo, hi, a, lo[n], b, s)
        BY <2>6, <2>7, <2>8, <2>10, <2>11 DEF Laid
    <2>13. Chunked(out, a, lo[n], b, s)
        BY <2>12 DEF Chunked
    <2>14. QED
        BY <2>13
<1>6. QED
    BY <1>4, <1>5

-----------------------------------------------------------------------------
(* The three modes. *)

\* A sentence more is kept behind the others or left out.
LEMMA SentencesAppend ==
    ASSUME NEW t \in Seq(Seq(Nat)), NEW x \in Seq(Nat)
    PROVE  /\ UnicodeSentences(t) \in Seq(Seq(Nat))
           /\ UnicodeSentences(Append(t, x)) =
                 IF Words(x) = << >> THEN UnicodeSentences(t) ELSE Append(UnicodeSentences(t), x)
<1> DEFINE Kept(y) == IF Words(y) = << >> THEN << >> ELSE <<y>>
           u == Append(t, x)
           e == [i \in DOMAIN t |-> Kept(t[i])]
           f == [i \in DOMAIN u |-> Kept(u[i])]
           k == Kept(x)
<1>1. \A y \in Seq(Nat) : Kept(y) \in Seq(Seq(Nat))
    OBVIOUS
<1>2. /\ Len(t) \in Nat /\ DOMAIN t = 1 .. Len(t) /\ DOMAIN u = 1 .. Len(t) + 1
      /\ u[Len(t) + 1] = x /\ \A i \in 1 .. Len(t) : u[i] = t[i] /\ t[i] \in Seq(Nat)
    OBVIOUS
<1> HIDE DEF Kept, u
<1>3. \A i \in 1 .. Len(t) : e[i] = Kept(t[i])
    BY <1>2
<1>4. e \in Seq(Seq(Seq(Nat))) /\ Len(e) = Len(t) /\ k \in Seq(Seq(Nat))
    <2>1. e \in [1 .. Len(t) -> Seq(Seq(Nat))]
        BY <1>1, <1>2
    <2> HIDE DEF e
    <2>2. QED
        BY <1>1, <1>2, <2>1, FunctionSeq
<1>5. f = Append(e, k)
    <2> DEFINE a == Append(e, k)
    <2> HIDE DEF e, k
    <2>1. /\ a \in Seq(Seq(Seq(Nat))) /\ DOMAIN a = 1 .. Len(t) + 1 /\ a[Len(t) + 1] = k
          /\ \A i \in 1 .. Len(t) : a[i] = e[i]
        BY <1>2, <1>4
    <2> HIDE DEF a
    <2>2. a = [i \in 1 .. Len(t) + 1 |-> a[i]]
        BY <2>1
    <2>3. \A i \in 1 .. Len(t) + 1 : i \in 1 .. Len(t) \/ i = Len(t) + 1
        BY <1>2
    <2>4. \A i \in 1 .. Len(t) + 1 : Kept(u[i]) = a[i]
        BY <1>2, <1>3, <2>1, <2>3, Zenon DEF k
    <2>5. f = a
        BY <1>2, <2>2, <2>4
    <2>6. QED
        BY <2>5 DEF a
<1>6. UnicodeSentences(t) = FlattenSeq(e) /\ UnicodeSentences(u) = FlattenSeq(f)
    BY DEF UnicodeSentences, Kept
<1> HIDE DEF e, f, k
<1>7. UnicodeSentences(t) \in Seq(Seq(Nat))
    BY <1>4, <1>6, FlattenType
<1>8. UnicodeSentences(u) = UnicodeSentences(t) \o k
    BY <1>4, <1>5, <1>6, FlattenAppend
<1>9. CASE Words(x) = << >>
    BY <1>7, <1>8, <1>9 DEF u, k, Kept
<1>10. CASE Words(x) # << >>
    BY <1>7, <1>8, <1>10 DEF u, k, Kept
<1>11. QED
    BY <1>7, <1>9, <1>10

\* The sentences that are kept have all the words, and each of them has one.
LEMMA SentencesKeepWords ==
    \A t \in Seq(Seq(Nat)) :
        /\ Words(FlattenSeq(UnicodeSentences(t))) = Words(FlattenSeq(t))
        /\ \A i \in 1 .. Len(UnicodeSentences(t)) : Words(UnicodeSentences(t)[i]) # << >>
<1> DEFINE Same(t) == Words(FlattenSeq(UnicodeSentences(t))) = Words(FlattenSeq(t))
           Each(t) == \A i \in 1 .. Len(UnicodeSentences(t)) : Words(UnicodeSentences(t)[i]) # << >>
           S == {t \in Seq(Seq(Nat)) : Same(t) /\ Each(t)}
<1>1. << >> \in S
    <2>1. << >> \in Seq(Seq(Nat)) /\ Len(<< >>) = 0
        OBVIOUS
    <2>2. UnicodeSentences(<< >>) = FlattenSeq(<< >>)
        <3> DEFINE e == [i \in DOMAIN << >> |->
                           IF Words(<< >>[i]) = << >> THEN << >> ELSE <<<< >>[i]>>]
        <3>1. e = << >>
            BY EmptySeq
        <3>2. QED
            BY <3>1 DEF UnicodeSentences
    <2>3. UnicodeSentences(<< >>) = << >>
        BY <2>2, FlattenNothing
    <2>4. QED
        BY <2>1, <2>3
<1>2. ASSUME NEW t \in Seq(Seq(Nat)), NEW x \in Seq(Nat), t \in S PROVE Append(t, x) \in S
    <2> DEFINE kept == UnicodeSentences(t)
               text == FlattenSeq(kept)
    <2>1. /\ Append(t, x) \in Seq(Seq(Nat)) /\ kept \in Seq(Seq(Nat))
          /\ Words(text) = Words(FlattenSeq(t)) /\ Each(t)
        BY <1>2, SentencesAppend
    <2>2. FlattenSeq(Append(t, x)) = FlattenSeq(t) \o x /\ FlattenSeq(t) \in Seq(Nat)
        BY FlattenAppend, FlattenType
    <2>3. Words(FlattenSeq(Append(t, x))) = Words(FlattenSeq(t)) \o Words(x)
        BY <2>2, WordsConcat
    <2>4. CASE Words(x) = << >>
        <3>1. UnicodeSentences(Append(t, x)) = kept
            BY <2>4, SentencesAppend
        <3>2. Words(FlattenSeq(t)) \o << >> = Words(FlattenSeq(t))
            BY <2>2, WordsAreWords
        <3>3. QED
            BY <2>1, <2>3, <2>4, <3>1, <3>2
    <2>5. CASE Words(x) # << >>
        <3> DEFINE more == Append(kept, x)
        <3>1. UnicodeSentences(Append(t, x)) = more
            BY <2>5, SentencesAppend
        <3>2. Words(FlattenSeq(more)) = Words(text) \o Words(x)
            <4>1. FlattenSeq(more) = text \o x /\ text \in Seq(Nat)
                BY <2>1, FlattenAppend, FlattenType
            <4>2. QED
                BY <4>1, WordsConcat
        <3>3. ASSUME NEW i \in 1 .. Len(more) PROVE Words(more[i]) # << >>
            <4> HIDE DEF kept
            <4>1. (i \in 1 .. Len(kept) /\ more[i] = kept[i]) \/ more[i] = x
                BY <2>1
            <4>2. QED
                BY <2>1, <2>5, <4>1 DEF kept
        <3> HIDE DEF more, kept
        <3>4. Same(Append(t, x)) /\ Each(Append(t, x))
            BY <2>1, <2>3, <3>1, <3>2, <3>3
        <3>5. QED
            BY <2>1, <3>4
    <2>6. QED
        BY <2>4, <2>5
<1> HIDE DEF S
<1>3. \A t \in Seq(Seq(Nat)) : t \in S
    BY <1>1, <1>2, SeqInduction
<1>4. QED
    BY <1>3 DEF S

LEMMA SentencesChunked ==
    ASSUME NEW sentences \in Seq(Seq(Nat)), NEW a, NEW b, NEW s, IsStrategy(s),
           Holds(FlattenSeq(sentences), a, b)
    PROVE  \E l : Chunked(SentenceChunks(sentences, s), a, l, b, s)
<1> DEFINE kept == UnicodeSentences(sentences)
           splits == [i \in DOMAIN kept |-> FixedChunks(kept[i], s)]
<1>1. kept \in Seq(Seq(Nat)) /\ \A i \in 1 .. Len(kept) : Words(kept[i]) # << >>
    <2>1. << >> \in Seq(Nat)
        OBVIOUS
    <2>2. QED
        BY <2>1, SentencesAppend, SentencesKeepWords
<1>2. SentenceChunks(sentences, s) = Pack(kept, splits, s)
    BY DEF SentenceChunks
<1>3. Holds(FlattenSeq(kept), a, b)
    <2>1. FlattenSeq(kept) \in Seq(Nat)
        BY <1>1, FlattenType
    <2>2. Words(FlattenSeq(kept)) = Words(FlattenSeq(sentences))
        BY SentencesKeepWords
    <2>3. QED
        BY <2>1, <2>2 DEF Holds
<1> HIDE DEF kept
<1>4. PICK e : Parted(kept, e, a, b)
    BY <1>1, <1>3, PartsOfText DEF Holds
<1>5. ASSUME NEW i \in 1 .. Len(kept)
      PROVE  Says(s, e[i - 1], e[i]) /\ \E m : Chunked(splits[i], e[i - 1], m, e[i], s)
    <2>1. Holds(kept[i], e[i - 1], e[i])
        BY <1>4 DEF Parted
    <2>2. splits[i] = FixedChunks(kept[i], s)
        BY <1>1
    <2>3. e[i - 1] < e[i]
        <3>1. Words(kept[i]) \in Seq(Nat) /\ Words(kept[i]) # << >>
            BY <1>1, <2>1, WordsAreWords DEF Holds
        <3>2. Len(Words(kept[i])) = e[i] - e[i - 1] /\ e[i - 1] \in Nat /\ e[i] \in Nat
            BY <2>1, HoldsMany DEF Holds
        <3>3. QED
            BY <2>1, <3>1, <3>2 DEF Holds
    <2>4. QED
        BY <2>1, <2>2, <2>3, FixedChunked DEF Says
<1> HIDE DEF splits
<1>6. QED
    BY <1>1, <1>2, <1>4, <1>5, Packed

LEMMA ParagraphsChunked ==
    ASSUME NEW d \in Seq(Seq(Seq(Nat))), NEW a, NEW b, NEW s, IsStrategy(s),
           s.mode = "Recursive", Holds(FlattenSeq(FlattenSeq(d)), a, b)
    PROVE  \E l : Chunked(RecursiveChunks(d, s), a, l, b, s)
<1> DEFINE texts == [i \in DOMAIN d |-> FlattenSeq(d[i])]
           splits == [i \in DOMAIN d |-> SentenceChunks(d[i], s)]
<1>1. FlattenSeq(texts) = FlattenSeq(FlattenSeq(d))
    BY FlattenTwice
<1>2. DOMAIN d = 1 .. Len(d) /\ Len(d) \in Nat /\ \A i \in 1 .. Len(d) : d[i] \in Seq(Seq(Nat))
    OBVIOUS
<1>3. \A i \in 1 .. Len(d) : texts[i] = FlattenSeq(d[i]) /\ splits[i] = SentenceChunks(d[i], s)
    BY <1>2
<1>4. texts \in Seq(Seq(Nat)) /\ Len(texts) = Len(d)
    <2>1. \A i \in 1 .. Len(d) : FlattenSeq(d[i]) \in Seq(Nat)
        BY <1>2, FlattenType
    <2>2. texts \in [1 .. Len(d) -> Seq(Nat)]
        BY <1>2, <2>1
    <2> HIDE DEF texts
    <2>3. QED
        BY <1>2, <2>2, FunctionSeq
<1>5. RecursiveChunks(d, s) = Pack(texts, splits, s)
    BY DEF RecursiveChunks
<1> HIDE DEF texts, splits
<1>6. PICK e : Parted(texts, e, a, b)
    <2>1. Holds(FlattenSeq(texts), a, b) /\ a \in Nat
        BY <1>1 DEF Holds
    <2>2. QED
        BY <1>4, <2>1, PartsOfText
<1>7. ASSUME NEW i \in 1 .. Len(texts) PROVE \E m : Chunked(splits[i], e[i - 1], m, e[i], s)
    <2>1. Holds(texts[i], e[i - 1], e[i])
        BY <1>6 DEF Parted
    <2>2. i \in 1 .. Len(d)
        BY <1>4
    <2>3. Holds(FlattenSeq(d[i]), e[i - 1], e[i])
        BY <1>3, <2>1, <2>2
    <2>4. d[i] \in Seq(Seq(Nat))
        BY <1>2, <2>2
    <2>5. \E m : Chunked(SentenceChunks(d[i], s), e[i - 1], m, e[i], s)
        BY <2>3, <2>4, SentencesChunked
    <2>6. QED
        BY <1>3, <2>2, <2>5
<1>8. \A i \in 1 .. Len(texts) : Says(s, e[i - 1], e[i])
    BY DEF Says
<1>9. QED
    BY <1>4, <1>5, <1>6, <1>7, <1>8, Packed

LEMMA DocumentsNumbered ==
    ASSUME NEW d \in Documents
    PROVE  /\ d \in Seq(Seq(Seq(Nat)))
           /\ Holds(FlattenSeq(FlattenSeq(d)), 0, Len(Words(FlattenSeq(FlattenSeq(d)))))
<1> DEFINE text == FlattenSeq(FlattenSeq(d))
           words == Words(text)
           n == Len(words)
<1>1. d \in Seq(Seq(Seq(Nat)))
    BY ChunkingAssumption
<1>2. text \in Seq(Nat)
    <2>1. FlattenSeq(d) \in Seq(Seq(Nat))
        BY <1>1, FlattenType
    <2>2. QED
        BY <2>1, FlattenType
<1>3. \A i \in DOMAIN words : words[i] = i
    BY NumberingAssumption
<1> HIDE DEF text
<1>4. words \in Seq(Nat) /\ n \in Nat
    BY <1>2, WordsAreWords
<1> HIDE DEF words
<1>5. words = Run(0, n)
    <2>1. \A i \in 1 .. n - 0 : words[i] = 0 + i
        BY <1>3, <1>4
    <2>2. 0 <= n /\ Len(words) = n - 0
        BY <1>4
    <2>3. QED
        BY <1>4, <2>1, <2>2, RunIs
<1>6. Holds(text, 0, n)
    BY <1>2, <1>4, <1>5 DEF Holds, words
<1>7. QED
    BY <1>1, <1>6 DEF text, words

LEMMA ModelChunked ==
    ASSUME NEW d \in Documents, NEW s, IsStrategy(s), s.mode \in Modes, s.max_tokens # 0
    PROVE  \E l : Chunked(ChunkForModel(d, s), 0, l, Len(Words(FlattenSeq(FlattenSeq(d)))), s)
<1> DEFINE n == Len(Words(FlattenSeq(FlattenSeq(d))))
<1>1. d \in Seq(Seq(Seq(Nat))) /\ Holds(FlattenSeq(FlattenSeq(d)), 0, n)
    BY DocumentsNumbered
<1> HIDE DEF n
<1>2. CASE d = << >>
    <2>1. n = 0
        BY <1>1, <1>2, FlattenNothing, HoldsNothing
    <2>2. ChunkForModel(d, s) = << >>
        BY <1>2 DEF ChunkForModel
    <2>3. Chunked(ChunkForModel(d, s), 0, 0, n, s)
        BY <2>1, <2>2, NothingChunked
    <2>4. QED
        BY <2>3 DEF n
<1>3. CASE d # << >>
    <2>1. FlattenSeq(d) \in Seq(Seq(Nat))
        BY <1>1, FlattenType
    <2>2. CASE s.mode = "FixedTokens"
        <3>1. ChunkForModel(d, s) = FixedChunks(FlattenSeq(FlattenSeq(d)), s)
            BY <1>3, <2>2 DEF ChunkForModel
        <3>2. QED
            BY <1>1, <3>1, FixedChunked DEF n
    <2>3. CASE s.mode = "SentenceBounded"
        <3>1. ChunkForModel(d, s) = SentenceChunks(FlattenSeq(d), s)
            BY <1>3, <2>3 DEF ChunkForModel
        <3>2. QED
            BY <1>1, <2>1, <3>1, SentencesChunked DEF n
    <2>4. CASE s.mode = "Recursive"
        <3>1. ChunkForModel(d, s) = RecursiveChunks(d, s)
            BY <1>3, <2>4 DEF ChunkForModel
        <3>2. QED
            BY <1>1, <2>4, <3>1, ParagraphsChunked DEF n
    <2>5. QED
        BY <2>2, <2>3, <2>4 DEF Modes
<1>4. QED
    BY <1>2, <1>3

-----------------------------------------------------------------------------
(* What the chunks say of the words. *)

\* Chunk j, among chunks that lie where lo and hi say.
Step(lo, hi, j) ==
    /\ j \in 0 .. Len(chunks) /\ j - 1 \in 0 .. Len(chunks)
    /\ lo[j] \in Nat /\ hi[j] \in Nat /\ hi[j - 1] \in Nat
    /\ Words(chunks[j]) = Run(lo[j], hi[j]) /\ lo[j] <= hi[j]
    /\ lo[j] <= hi[j - 1] /\ hi[j - 1] <= hi[j]
    /\ hi[j - 1] - lo[j] <= WordsFor(strategy.overlap)
    /\ (j \in Worded <=> lo[j] < hi[j])
    /\ j \in Worded => FirstWord(j) = lo[j] + 1 /\ LastWord(j) = hi[j]

LEMMA LaidSteps ==
    ASSUME NEW l, NEW n \in Nat, NEW lo, NEW hi, Laid(chunks, lo, hi, 0, l, n, strategy)
    PROVE  /\ chunks \in Seq(Seq(Nat)) /\ Len(chunks) \in Nat
           /\ lo \in [0 .. Len(chunks) -> Nat] /\ hi \in [0 .. Len(chunks) -> Nat]
           /\ hi[0] = 0 /\ hi[Len(chunks)] = n
           /\ \A j \in 1 .. Len(chunks) : Step(lo, hi, j)
<1> DEFINE m == Len(chunks)
<1>1. /\ chunks \in Seq(Seq(Nat)) /\ m \in Nat /\ DOMAIN chunks = 1 .. m
      /\ lo \in [0 .. m -> Nat] /\ hi \in [0 .. m -> Nat]
      /\ hi[0] = 0 /\ hi[m] = n
    BY DEF Laid
<1>2. ASSUME NEW j \in 1 .. m
      PROVE  Step(lo, hi, j)
    <2>1. Follows(chunks[j], lo[j - 1], hi[j - 1], lo[j], hi[j], strategy)
        BY DEF Laid
    <2>2. j \in 0 .. m /\ j - 1 \in 0 .. m
        BY <1>1
    <2>3. lo[j] \in Nat /\ hi[j] \in Nat /\ hi[j - 1] \in Nat
        BY <1>1, <2>2
    <2>4. /\ Words(chunks[j]) = Run(lo[j], hi[j]) /\ lo[j] <= hi[j]
          /\ lo[j] <= hi[j - 1] /\ hi[j - 1] <= hi[j]
          /\ hi[j - 1] - lo[j] <= WordsFor(strategy.overlap)
        BY <2>1 DEF Follows, Holds
    <2> DEFINE r == Run(lo[j], hi[j])
    <2>5. /\ r \in Seq(Nat) /\ Len(r) = hi[j] - lo[j]
          /\ \A i \in 1 .. hi[j] - lo[j] : r[i] = lo[j] + i
        BY <2>3, <2>4, RunType
    <2>6. j \in Worded <=> r # << >>
        BY <1>1, <2>4 DEF Worded
    <2> HIDE DEF r
    <2>7. r # << >> <=> lo[j] < hi[j]
        BY <2>3, <2>4, <2>5
    <2>8. ASSUME lo[j] < hi[j] PROVE FirstWord(j) = lo[j] + 1 /\ LastWord(j) = hi[j]
        <3>1. 1 \in 1 .. hi[j] - lo[j] /\ hi[j] - lo[j] \in 1 .. hi[j] - lo[j]
            BY <2>3, <2>8
        <3>2. r[1] = lo[j] + 1 /\ r[Len(r)] = hi[j]
            BY <2>3, <2>5, <3>1
        <3>3. QED
            BY <2>4, <3>2 DEF FirstWord, LastWord, Last, r
    <2>9. QED
        BY <2>2, <2>3, <2>4, <2>6, <2>7, <2>8 DEF Step
<1>3. QED
    BY <1>1, <1>2

\* Chunks without words do not advance.
LEMMA BlanksStay ==
    ASSUME NEW l, NEW n \in Nat, NEW lo, NEW hi, Laid(chunks, lo, hi, 0, l, n, strategy),
           NEW j \in 0 .. Len(chunks), NEW k \in 0 .. Len(chunks), j <= k,
           \A m \in j + 1 .. k : m \notin Worded
    PROVE  hi[k] = hi[j]
<1> DEFINE S == {i \in Nat : j + i <= k => hi[j + i] = hi[j]}
<1>0. Len(chunks) \in Nat
    BY LaidSteps
<1>1. 0 \in S
    BY <1>0
<1>2. ASSUME NEW i \in Nat, i \in S PROVE i + 1 \in S
    <2> SUFFICES ASSUME j + (i + 1) <= k PROVE hi[j + (i + 1)] = hi[j]
        OBVIOUS
    <2> DEFINE m == j + (i + 1)
    <2>1. m \in 1 .. Len(chunks) /\ m \in j + 1 .. k /\ m - 1 = j + i /\ j + i <= k
        BY <1>0
    <2>2. hi[m - 1] = hi[j]
        BY <1>2, <2>1
    <2> HIDE DEF m
    <2>3. /\ lo[m] \in Nat /\ hi[m] \in Nat /\ hi[m - 1] \in Nat /\ lo[m] <= hi[m]
          /\ lo[m] <= hi[m - 1] /\ hi[m - 1] <= hi[m] /\ ~(lo[m] < hi[m])
        <3>1. Step(lo, hi, m)
            BY <2>1, LaidSteps
        <3>2. QED
            BY <2>1, <3>1 DEF Step
    <2>4. hi[m] = hi[j]
        BY <2>2, <2>3
    <2>5. QED
        BY <2>4 DEF m
<1> HIDE DEF S
<1>3. \A i \in Nat : i \in S
    BY <1>1, <1>2, SetInduction
<1>4. k - j \in Nat /\ j + (k - j) = k /\ k <= k
    BY <1>0
<1>5. QED
    BY <1>3, <1>4 DEF S

LEMMA EndsGrow ==
    ASSUME NEW l, NEW n \in Nat, NEW lo, NEW hi, Laid(chunks, lo, hi, 0, l, n, strategy),
           NEW j \in 0 .. Len(chunks)
    PROVE  hi[j] <= n
<1> DEFINE S == {i \in Nat : j + i <= Len(chunks) => hi[j] <= hi[j + i]}
<1>0. Len(chunks) \in Nat /\ hi \in [0 .. Len(chunks) -> Nat] /\ hi[Len(chunks)] = n
    BY DEF Laid
<1>1. 0 \in S
    BY <1>0
<1>2. ASSUME NEW i \in Nat, i \in S PROVE i + 1 \in S
    <2> SUFFICES ASSUME j + (i + 1) <= Len(chunks) PROVE hi[j] <= hi[j + (i + 1)]
        OBVIOUS
    <2> DEFINE m == j + (i + 1)
    <2>1. m \in 1 .. Len(chunks) /\ m - 1 = j + i /\ j + i <= Len(chunks)
        BY <1>0
    <2>2. hi[j] <= hi[m - 1] /\ hi[j] \in Nat
        BY <1>0, <1>2, <2>1
    <2> HIDE DEF m
    <2>3. hi[m] \in Nat /\ hi[m - 1] \in Nat /\ hi[m - 1] <= hi[m]
        BY <2>1, LaidSteps DEF Step
    <2>4. hi[j] <= hi[m]
        BY <2>2, <2>3
    <2>5. QED
        BY <2>4 DEF m
<1> HIDE DEF S
<1>3. \A i \in Nat : i \in S
    BY <1>1, <1>2, SetInduction
<1>4. Len(chunks) - j \in Nat /\ j + (Len(chunks) - j) = Len(chunks) /\ Len(chunks) <= Len(chunks)
    BY <1>0
<1>5. QED
    BY <1>0, <1>3, <1>4 DEF S

LEMMA ChunkedCovers ==
    ASSUME NEW l, Chunked(chunks, 0, l, Len(DocWords), strategy),
           Holds(FlattenSeq(FlattenSeq(doc)), 0, Len(DocWords))
    PROVE  Covers
<1> DEFINE n == Len(DocWords)
           m == Len(chunks)
<1>1. n \in Nat /\ DocWords = Run(0, n)
    BY DEF Holds, DocWords
<1>2. /\ DocWords \in Seq(Nat) /\ (n = 0 <=> DocWords = << >>)
      /\ n > 0 => DocWords[1] = 1 /\ Last(DocWords) = n
    <2>1. DocWords \in Seq(Nat) /\ \A i \in 1 .. n - 0 : DocWords[i] = 0 + i
        <3> HIDE DEF n
        <3>1. 0 \in Nat /\ n \in Nat /\ 0 <= n
            BY <1>1
        <3>2. Run(0, n) \in Seq(Nat) /\ \A i \in 1 .. n - 0 : Run(0, n)[i] = 0 + i
            BY <3>1, RunType
        <3>3. QED
            BY <1>1, <3>2
    <2>2. n = 0 <=> DocWords = << >>
        BY <2>1
    <2>3. ASSUME n > 0 PROVE DocWords[1] = 1 /\ DocWords[n] = n
        BY <1>1, <2>1, <2>3
    <2>4. QED
        BY <2>1, <2>2, <2>3 DEF Last
<1> HIDE DEF n
<1>3. PICK lo, hi : Laid(chunks, lo, hi, 0, l, n, strategy)
    BY DEF Chunked, n
<1>4. /\ m \in Nat /\ DOMAIN chunks = 1 .. m /\ hi \in [0 .. m -> Nat] /\ hi[0] = 0 /\ hi[m] = n
    BY <1>3 DEF Laid
<1>5. \A j \in Worded : j \in 1 .. m
    BY <1>4 DEF Worded
<1>6. ASSUME NEW j \in Worded
      PROVE  /\ j \in 1 .. m /\ j \in 0 .. m /\ j - 1 \in 0 .. m
             /\ lo[j] \in Nat /\ hi[j] \in Nat /\ hi[j - 1] \in Nat
             /\ Words(chunks[j]) = Run(lo[j], hi[j])
             /\ lo[j] < hi[j] /\ lo[j] <= hi[j - 1] /\ hi[j - 1] <= hi[j]
             /\ hi[j - 1] - lo[j] <= WordsFor(strategy.overlap)
             /\ FirstWord(j) = lo[j] + 1 /\ LastWord(j) = hi[j]
    <2>1. j \in 1 .. m
        BY <1>5
    <2>2. Step(lo, hi, j)
        BY <1>1, <1>3, <2>1, LaidSteps
    <2>3. QED
        BY <2>1, <2>2 DEF Step
<1>7. ASSUME NEW j \in Worded, NEW i \in 1 .. Len(Words(chunks[j])) - 1
      PROVE  Words(chunks[j])[i + 1] = Words(chunks[j])[i] + 1
    <2>1. lo[j] \in Nat /\ hi[j] \in Nat /\ lo[j] <= hi[j] /\ Words(chunks[j]) = Run(lo[j], hi[j])
        BY <1>6
    <2> DEFINE r == Run(lo[j], hi[j])
    <2>2. Len(r) = hi[j] - lo[j] /\ \A k \in 1 .. hi[j] - lo[j] : r[k] = lo[j] + k
        BY <2>1, RunType
    <2> HIDE DEF r
    <2>3. i \in 1 .. hi[j] - lo[j] /\ i + 1 \in 1 .. hi[j] - lo[j]
        BY <2>1, <2>2 DEF r
    <2>4. r[i + 1] = r[i] + 1
        <3>1. r[i] = lo[j] + i /\ r[i + 1] = lo[j] + (i + 1) /\ i \in Int
            BY <2>2, <2>3
        <3>2. QED
            BY <2>1, <3>1
    <2>5. QED
        BY <2>1, <2>4 DEF r
<1>8. ASSUME NEW j \in Worded, NEW k \in Worded, j < k, \A i \in j + 1 .. k - 1 : i \notin Worded
      PROVE  /\ FirstWord(k) <= LastWord(j) + 1
             /\ LastWord(j) + 1 - FirstWord(k) <= WordsFor(strategy.overlap)
             /\ LastWord(j) <= LastWord(k)
    <2>1. /\ j \in 0 .. m /\ k - 1 \in 0 .. m /\ j <= k - 1
        BY <1>4, <1>6, <1>8
    <2>2. hi[k - 1] = hi[j]
        BY <1>1, <1>3, <1>8, <2>1, BlanksStay
    <2>3. /\ lo[k] \in Nat /\ hi[k] \in Nat /\ hi[j] \in Nat
          /\ lo[k] <= hi[k - 1] /\ hi[k - 1] <= hi[k]
          /\ hi[k - 1] - lo[k] <= WordsFor(strategy.overlap)
          /\ FirstWord(k) = lo[k] + 1 /\ LastWord(k) = hi[k] /\ LastWord(j) = hi[j]
        BY <1>6
    <2>4. LastWord(j) + 1 - FirstWord(k) = hi[k - 1] - lo[k]
        BY <2>2, <2>3
    <2>5. QED
        BY <2>2, <2>3, <2>4
<1>9. Worded = {} <=> DocWords = << >>
    <2>1. ASSUME Worded = {} PROVE n = 0
        <3>1. 0 \in 0 .. m /\ m \in 0 .. m /\ 0 <= m
            BY <1>4
        <3>2. \A i \in 0 + 1 .. m : i \notin Worded
            BY <2>1
        <3>3. hi[m] = hi[0]
            BY <1>1, <1>3, <3>1, <3>2, BlanksStay
        <3>4. QED
            BY <1>4, <3>3
    <2>2. ASSUME n = 0, NEW j \in Worded PROVE FALSE
        <3>1. j \in 0 .. m /\ lo[j] \in Nat /\ hi[j] \in Nat /\ lo[j] < hi[j]
            BY <1>6
        <3>2. hi[j] <= n
            BY <1>1, <1>3, <3>1, EndsGrow
        <3>3. QED
            BY <2>2, <3>1, <3>2
    <2>3. QED
        BY <1>2, <2>1, <2>2
<1>10. ASSUME NEW j \in Worded
       PROVE  /\ (\A k \in Worded : j <= k) => FirstWord(j) = DocWords[1]
              /\ (\A k \in Worded : k <= j) => LastWord(j) = Last(DocWords)
    <2>1. /\ j \in 1 .. m /\ j \in 0 .. m /\ j - 1 \in 0 .. m
          /\ lo[j] \in Nat /\ hi[j] \in Nat /\ lo[j] < hi[j] /\ lo[j] <= hi[j - 1]
          /\ FirstWord(j) = lo[j] + 1 /\ LastWord(j) = hi[j]
        BY <1>6
    <2>2. hi[j] <= n
        BY <1>1, <1>3, <2>1, EndsGrow
    <2>3. n > 0
        BY <1>1, <2>1, <2>2
    <2>4. ASSUME \A k \in Worded : j <= k PROVE FirstWord(j) = DocWords[1]
        <3>1. \A i \in 0 + 1 .. j - 1 : i \notin Worded
            BY <1>4, <2>1, <2>4
        <3>2. 0 \in 0 .. m /\ 0 <= j - 1
            BY <1>4, <2>1
        <3>3. hi[j - 1] = hi[0]
            <4> DEFINE k == j - 1
            <4>1. k \in 0 .. m /\ 0 <= k /\ \A i \in 0 + 1 .. k : i \notin Worded
                BY <2>1, <3>1, <3>2
            <4> HIDE DEF k
            <4>2. hi[k] = hi[0]
                BY <1>1, <1>3, <3>2, <4>1, BlanksStay
            <4>3. QED
                BY <4>2 DEF k
        <3>4. lo[j] = 0
            BY <1>4, <2>1, <3>3
        <3>5. QED
            BY <1>2, <2>1, <2>3, <3>4
    <2>5. ASSUME \A k \in Worded : k <= j PROVE LastWord(j) = Last(DocWords)
        <3>1. \A i \in j + 1 .. m : i \notin Worded
            BY <1>4, <2>1, <2>5
        <3>2. m \in 0 .. m /\ j <= m /\ j \in 0 .. m
            BY <1>4, <2>1
        <3>3. hi[m] = hi[j]
            <4> DEFINE k == m
            <4>1. k \in 0 .. m /\ j \in 0 .. m /\ j <= k /\ \A i \in j + 1 .. k : i \notin Worded
                BY <3>1, <3>2
            <4> HIDE DEF k
            <4>2. hi[k] = hi[j]
                BY <1>1, <1>3, <4>1, BlanksStay
            <4>3. QED
                BY <4>2 DEF k
        <3>4. QED
            BY <1>2, <1>4, <2>1, <2>3, <3>3
    <2>6. QED
        BY <2>4, <2>5
<1>11. QED
    BY <1>7, <1>8, <1>9, <1>10 DEF Covers

LEMMA ChunkedKeepsCap ==
    ASSUME NEW l, NEW n \in Nat, Chunked(chunks, 0, l, n, strategy)
    PROVE  ChunksKeepCap /\ NoEmptyChunk
<1>1. PICK lo, hi : Laid(chunks, lo, hi, 0, l, n, strategy)
    BY DEF Chunked
<1>2. ASSUME NEW j \in DOMAIN chunks
      PROVE  /\ Tokens(chunks[j]) <= Limit(strategy) /\ chunks[j] # << >>
             /\ strategy.mode = "Recursive" \/ j \in Worded
    <2>1. chunks \in Seq(Seq(Nat))
        BY <1>1 DEF Laid
    <2>2. j \in 1 .. Len(chunks)
        BY <2>1
    <2>3. Follows(chunks[j], lo[j - 1], hi[j - 1], lo[j], hi[j], strategy)
        BY <1>1, <2>2 DEF Laid
    <2>4. j \in Worded <=> lo[j] < hi[j]
        BY <1>1, <2>2, LaidSteps DEF Step
    <2>5. QED
        BY <2>3, <2>4 DEF Follows, Says
<1>3. QED
    BY <1>2 DEF ChunksKeepCap, NoEmptyChunk, Limit, SeedWords

-----------------------------------------------------------------------------
CTypeOK ==
    /\ doc \in Documents
    /\ strategy \in [max_tokens : MaxTokens, overlap : Overlaps, mode : Modes]
    /\ done \in BOOLEAN

(* The inductive invariant: what the caller gets are the chunks of its own document under
   its own strategy. *)
ChunksOfDoc == chunks = IF done THEN ChunkForModel(doc, strategy) ELSE << >>

CInv == CTypeOK /\ ChunksOfDoc

THEOREM CInvStart == Init => CInv
BY DEF Init, CInv, CTypeOK, ChunksOfDoc

THEOREM CInvKept == CInv /\ [Chunk]_vars => CInv'
<1> SUFFICES ASSUME CInv, [Chunk]_vars PROVE CInv'
    OBVIOUS
<1>1. CASE Chunk
    BY <1>1 DEF CInv, CTypeOK, ChunksOfDoc, Chunk
<1>2. CASE UNCHANGED vars
    BY <1>2 DEF CInv, CTypeOK, ChunksOfDoc, vars
<1>3. QED
    BY <1>1, <1>2

LEMMA CInvSays == CInv => ChunksCover /\ ChunksKeepCap
<1> SUFFICES ASSUME CInv PROVE ChunksCover /\ ChunksKeepCap
    OBVIOUS
<1>1. /\ IsStrategy(strategy) /\ strategy.mode \in Modes /\ doc \in Documents /\ done \in BOOLEAN
      /\ strategy.max_tokens \in Nat
    BY ChunkingAssumption DEF CInv, CTypeOK, IsStrategy
<1>2. CASE ~done \/ strategy.max_tokens = 0
    <2>1. chunks = << >>
        BY <1>1, <1>2 DEF CInv, ChunksOfDoc, ChunkForModel
    <2>2. NoEmptyChunk /\ ChunksKeepCap
        BY <2>1 DEF NoEmptyChunk, ChunksKeepCap
    <2>3. ~(done /\ strategy.max_tokens > 0)
        BY <1>1, <1>2
    <2>4. Covers
        BY <2>3 DEF Covers
    <2>5. QED
        BY <2>2, <2>4 DEF ChunksCover
<1>3. CASE done /\ strategy.max_tokens # 0
    <2>1. PICK l : Chunked(chunks, 0, l, Len(DocWords), strategy)
        <3>1. \E l : Chunked(ChunkForModel(doc, strategy), 0, l,
                             Len(Words(FlattenSeq(FlattenSeq(doc)))), strategy)
            BY <1>1, <1>3, ModelChunked
        <3>2. QED
            BY <1>3, <3>1 DEF CInv, ChunksOfDoc, DocWords
    <2>2. Holds(FlattenSeq(FlattenSeq(doc)), 0, Len(DocWords))
        BY <1>1, DocumentsNumbered DEF DocWords
    <2>3. Len(DocWords) \in Nat
        BY <2>2 DEF Holds
    <2>4. QED
        BY <2>1, <2>2, <2>3, ChunkedCovers, ChunkedKeepsCap DEF ChunksCover
<1>4. QED
    BY <1>1, <1>2, <1>3

(* For every document, cap and overlap, and in each of the three modes: no word of the
   document is lost, moved or repeated beyond the overlap, whichever of the fallbacks from
   paragraph to sentence to window its chunks came from; no chunk is empty, and where
   paragraphs are not packed whole none is without a word. *)
THEOREM NoWordIsLost == Spec => []ChunksCover
<1>1. CInv => ChunksCover
    BY CInvSays
<1>2. QED
    BY CInvStart, CInvKept, <1>1, PTL DEF Spec

(* A chunk exceeds the cap by at most the tokens of the words it repeats. *)
THEOREM CapUpToSeed == Spec => []ChunksKeepCap
<1>1. CInv => ChunksKeepCap
    BY CInvSays
<1>2. QED
    BY CInvStart, CInvKept, <1>1, PTL DEF Spec
=============================================================================
