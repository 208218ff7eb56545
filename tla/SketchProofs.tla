---------------------------- MODULE SketchProofs ----------------------------
(***************************************************************************)
(* Sketches and stored hashes.  MinHash: the sketch is the slotwise        *)
(* minimum, for any tokens, any signature width, any word size and any     *)
(* hash function.  SimHash: the signs of the exact sums, for any documents,*)
(* weightings, hashes and IDF tables.  A stored SimHash loads as what was  *)
(* stored, for words of any size.  A TLSH can be compared, for any texts   *)
(* and strings.  MurmurHash3 takes in every byte of keys of any length.    *)
(* Fingerprinters share a config_hash exactly if they are alike, for any   *)
(* canonicalizers, tokenizers, seeds, slot counts and models.              *)
(***************************************************************************)
EXTENDS MinHash, SimHash, SimHash64, Tlsh, Murmur3, ConfigHash, FiniteSetTheorems,
        SequenceTheorems, WellFoundedInduction, NaturalsInduction, TLAPS

(* Division with remainder has one answer. *)
LEMMA RemainderUnique ==
    ASSUME NEW n \in Nat \ {0}, NEW x \in Nat, NEW k \in Nat, NEW y \in 0 .. n - 1,
           x = n * k + y
    PROVE  x % n = y
BY Z3

(* Reducing before an addition or after it is the same. *)
LEMMA ModAdd ==
    ASSUME NEW n \in Nat \ {0}, NEW a \in Nat, NEW b \in 0 .. n - 1
    PROVE  (a + b) % n = IF (a % n) + b < n THEN (a % n) + b ELSE (a % n) + b - n
<1>1. PICK q \in Nat, r \in 0 .. n - 1 : a = n * q + r /\ r = a % n
    <2>1. a \div n \in Nat /\ a % n \in 0 .. n - 1 /\ a = n * (a \div n) + (a % n)
        OBVIOUS
    <2> QED  BY <2>1, Zenon
<1>2. CASE r + b < n
    <2>1. a + b \in Nat /\ r + b \in 0 .. n - 1 /\ a + b = n * q + (r + b)
        BY <1>1, <1>2
    <2>2. (a + b) % n = r + b
        BY <2>1, RemainderUnique, Zenon
    <2> QED  BY <1>1, <1>2, <2>2
<1>3. CASE ~(r + b < n)
    <2>1. n * (q + 1) = n * q + n
        BY <1>1
    <2>2. a + b \in Nat /\ q + 1 \in Nat /\ r + b - n \in 0 .. n - 1
        BY <1>1, <1>3
    <2>3. a + b = n * (q + 1) + (r + b - n)
        BY <1>1, <2>1
    <2>4. (a + b) % n = r + b - n
        BY <2>2, <2>3, RemainderUnique, Zenon
    <2> QED  BY <1>1, <1>3, <2>4
<1> QED  BY <1>2, <1>3

-----------------------------------------------------------------------------
(* One wrapping addition leads from a slot's hash function to the next. *)
LEMMA NextHash ==
    ASSUME NEW t \in Tokens, NEW s \in Nat
    PROVE  /\ SlotHash(t, s) \in Words
           /\ WrappingAdd(SlotHash(t, s), Hi[t]) = SlotHash(t, s + 1)
<1> DEFINE a == Lo[t] + s * Hi[t]
<1>1. /\ W \in Nat \ {0}
      /\ Lo[t] \in 0 .. W - 1
      /\ Hi[t] \in 0 .. W - 1
    BY SketchAssumption
<1>2. s * Hi[t] \in Nat /\ (s + 1) * Hi[t] = s * Hi[t] + Hi[t]
    BY <1>1
<1>3. a \in Nat /\ Lo[t] + (s + 1) * Hi[t] = a + Hi[t]
    BY <1>1, <1>2
<1> HIDE DEF a
<1>4. a % W \in Words
    BY <1>1, <1>3 DEF Words
<1>5. (a + Hi[t]) % W = WrappingAdd(a % W, Hi[t])
    BY <1>1, <1>3, ModAdd DEF WrappingAdd
<1> QED  BY <1>3, <1>4, <1>5 DEF SlotHash, a

(* Tokens of a document are tokens, and its length is a number. *)
LEMMA DocTokens ==
    ASSUME doc \in Docs
    PROVE  /\ Len(doc) \in Nat /\ DOMAIN doc = 1 .. Len(doc)
           /\ \A p \in 1 .. Len(doc) : doc[p] \in Tokens
BY SketchAssumption

(* Between tokens the chain rests past the last slot, and a result is returned
   once every token has been taken. *)
Progress ==
    outcome # "none" =>
        /\ slot = H /\ taken = Len(doc)
        /\ outcome = "ok" <=> taken > 0

IInv == TypeOK /\ WalkIsChain /\ SlotsAreMinima /\ Progress

LEMMA InitIInv == Init => IInv
<1> SUFFICES ASSUME Init PROVE IInv
    OBVIOUS
<1> USE DEF Init
<1>1. TypeOK
    BY SketchAssumption, DocTokens DEF TypeOK, Words
<1>2. WalkIsChain /\ Progress
    BY SketchAssumption DEF WalkIsChain, Progress
<1>3. ASSUME NEW s \in Slots
      PROVE  IsLeast(hashes[s], {W - 1} \cup {SlotHash(doc[p], s) : p \in Passed(s)})
    <2>1. Passed(s) = {}
        BY SketchAssumption DEF Passed, Slots
    <2> QED  BY <2>1, SketchAssumption DEF IsLeast
<1> QED  BY <1>1, <1>2, <1>3 DEF IInv, SlotsAreMinima

LEMMA NextIInv == IInv /\ [Next]_vars => IInv'
<1> SUFFICES ASSUME IInv, [Next]_vars PROVE IInv'
    OBVIOUS
<1>a. /\ TypeOK /\ WalkIsChain /\ SlotsAreMinima /\ Progress
      /\ H \in Nat /\ W \in Nat \ {0}
    BY SketchAssumption DEF IInv
<1>b. /\ Len(doc) \in Nat
      /\ \A p \in 1 .. Len(doc) : doc[p] \in Tokens
    BY <1>a, DocTokens DEF TypeOK
<1>1. CASE Take
    <2> USE <1>1 DEF Take
    <2>1. taken + 1 \in 1 .. Len(doc) /\ doc[taken + 1] \in Tokens
        BY <1>a, <1>b DEF TypeOK
    <2>2. Lo[doc[taken + 1]] \in Words /\ Hi[doc[taken + 1]] \in Words
        BY <2>1, SketchAssumption DEF Words
    <2>3. TypeOK'
        BY <1>a, <1>b, <2>1, <2>2 DEF TypeOK
    <2>4. Lo[doc[taken + 1]] = SlotHash(doc[taken + 1], 0)
        <3>1. 0 * Hi[doc[taken + 1]] = 0
            BY <2>2 DEF Words
        <3>2. Lo[doc[taken + 1]] % W = Lo[doc[taken + 1]]
            BY <1>a, <2>2 DEF Words
        <3> QED  BY <2>2, <3>1, <3>2 DEF SlotHash, Words
    <2>5. WalkIsChain' /\ Progress'
        BY <1>a, <1>b, <2>4 DEF WalkIsChain, Progress, TypeOK
    <2>6. ASSUME NEW s \in Slots
          PROVE  IsLeast(hashes[s], {W - 1} \cup {SlotHash(doc[p], s) : p \in Passed(s)})'
        <3>1. Passed(s)' = Passed(s)
            BY <1>a DEF Passed, Slots, TypeOK
        <3> QED  BY <1>a, <3>1 DEF SlotsAreMinima, IsLeast, SlotHash
    <2> QED  BY <2>3, <2>5, <2>6 DEF IInv, SlotsAreMinima
<1>2. CASE Lower
    <2> USE <1>2 DEF Lower
    <2>1. /\ slot \in Slots /\ slot \in Nat /\ slot + 1 \in 0 .. H
          /\ taken \in 1 .. Len(doc) /\ doc[taken] \in Tokens
        BY <1>a, <1>b DEF TypeOK, WalkIsChain, Slots
    <2>2. h = SlotHash(doc[taken], slot) /\ h \in Words
        BY <1>a, <2>1 DEF WalkIsChain, TypeOK
    <2>3. h' = SlotHash(doc[taken], slot + 1) /\ h' \in Words
        <3>1. /\ WrappingAdd(SlotHash(doc[taken], slot), Hi[doc[taken]])
                     = SlotHash(doc[taken], slot + 1)
            BY <2>1, NextHash, Zenon
        <3>2. slot + 1 \in Nat
            BY <2>1
        <3>3. SlotHash(doc[taken], slot + 1) \in Words
            BY <2>1, <3>2, NextHash, Zenon
        <3> QED  BY <2>2, <3>1, <3>3
    <2>4. TypeOK'
        BY <1>a, <2>1, <2>3 DEF TypeOK
    <2>5. WalkIsChain' /\ Progress'
        BY <1>a, <2>1, <2>3 DEF WalkIsChain, Progress, SlotHash
    <2>6. ASSUME NEW s \in Slots
          PROVE  IsLeast(hashes[s], {W - 1} \cup {SlotHash(doc[p], s) : p \in Passed(s)})'
        <3>1. CASE s # slot
            <4>1. Passed(s)' = Passed(s) /\ hashes'[s] = hashes[s]
                BY <1>a, <2>1, <2>6, <3>1 DEF Passed, Slots, TypeOK
            <4> QED  BY <1>a, <4>1 DEF SlotsAreMinima, IsLeast, SlotHash
        <3>2. CASE s = slot
            <4> DEFINE Seen == {W - 1} \cup {SlotHash(doc[p], s) : p \in 1 .. taken - 1}
            <4>1. /\ Passed(s) = 1 .. taken - 1
                  /\ Passed(s)' = 1 .. taken
                  /\ 1 .. taken = (1 .. taken - 1) \cup {taken}
                BY <2>1, <3>2 DEF Passed
            <4>2. ({W - 1} \cup {SlotHash(doc[p], s) : p \in Passed(s)})' = Seen \cup {h}
                BY <2>2, <3>2, <4>1 DEF SlotHash
            <4>3. IsLeast(hashes[s], Seen)
                BY <1>a, <4>1 DEF SlotsAreMinima
            <4>4. hashes[s] \in Words /\ hashes'[s] = IF h < hashes[s] THEN h ELSE hashes[s]
                BY <1>a, <2>1, <3>2 DEF TypeOK
            <4>5. \A x \in Seen : x \in Int
                <5>1. ASSUME NEW p \in 1 .. taken - 1 PROVE SlotHash(doc[p], s) \in Int
                    <6>1. doc[p] \in Tokens /\ s \in Nat
                        BY <1>b, <2>1, <3>2
                    <6>2. SlotHash(doc[p], s) \in Words
                        BY <6>1, NextHash
                    <6> QED  BY <1>a, <6>2 DEF Words
                <5> QED  BY <1>a, <5>1
            <4> HIDE DEF Seen
            <4>6. IsLeast(hashes'[s], Seen \cup {h})
                BY <1>a, <2>2, <4>3, <4>4, <4>5 DEF IsLeast, Words
            <4> QED  BY <4>2, <4>6 DEF IsLeast
        <3> QED  BY <3>1, <3>2
    <2> QED  BY <2>4, <2>5, <2>6 DEF IInv, SlotsAreMinima
<1>3. CASE Finish
    <2> USE <1>3 DEF Finish
    <2>1. TypeOK' /\ WalkIsChain' /\ Progress'
        BY <1>a DEF TypeOK, WalkIsChain, Progress, SlotHash
    <2>2. ASSUME NEW s \in Slots
          PROVE  IsLeast(hashes[s], {W - 1} \cup {SlotHash(doc[p], s) : p \in Passed(s)})'
        BY <1>a DEF SlotsAreMinima, IsLeast, Passed, SlotHash
    <2> QED  BY <2>1, <2>2 DEF IInv, SlotsAreMinima
<1>4. CASE UNCHANGED vars
    BY <1>4 DEF vars, IInv, TypeOK, WalkIsChain, SlotsAreMinima, Progress, Passed, SlotHash
<1> QED  BY <1>1, <1>2, <1>3, <1>4 DEF Next

(* Every slot of a sketch is, at every moment, the least value of its own hash
   function over the tokens that have passed it, and the words stay in range. *)
THEOREM Minima == Spec => [](TypeOK /\ SlotsAreMinima)
<1>1. IInv => TypeOK /\ SlotsAreMinima
    BY DEF IInv
<1> QED  BY InitIInv, NextIInv, <1>1, PTL DEF Spec

(* The walk by wrapping additions visits lo + i * hi at slot i. *)
THEOREM Chain == Spec => []WalkIsChain
<1>1. IInv => WalkIsChain
    BY DEF IInv
<1> QED  BY InitIInv, NextIInv, <1>1, PTL DEF Spec

(* The signature that is returned is that of the set of the document's tokens, and
   none is returned exactly for a document without tokens. *)
THEOREM OrderDoesNotMatter == Spec => []SetOnly
<1>1. ASSUME IInv PROVE SetOnly
    <2>a. TypeOK /\ SlotsAreMinima /\ Progress /\ H \in Nat
        BY <1>1, SketchAssumption DEF IInv
    <2>b. Len(doc) \in Nat /\ DOMAIN doc = 1 .. Len(doc) /\ (Len(doc) = 0 => doc = << >>)
        BY <2>a, SketchAssumption DEF TypeOK
    <2>1. CASE outcome = "ok"
        <3>1. slot = H /\ taken = Len(doc) /\ taken > 0
            BY <2>1, <2>a DEF Progress
        <3>2. \A s \in Slots : Passed(s) = DOMAIN doc
            BY <2>a, <2>b, <3>1 DEF Passed, Slots
        <3>3. ASSUME NEW s \in Slots
              PROVE  IsLeast(hashes[s],
                       {W - 1} \cup {SlotHash(t, s) : t \in {doc[p] : p \in DOMAIN doc}})
            <4>1. {SlotHash(t, s) : t \in {doc[p] : p \in DOMAIN doc}}
                      = {SlotHash(doc[p], s) : p \in Passed(s)}
                BY <3>2
            <4> QED  BY <2>a, <4>1 DEF SlotsAreMinima
        <3>4. doc # << >>
            BY <2>b, <3>1
        <3> QED  BY <2>1, <3>3, <3>4 DEF SetOnly, IsSketchOf
    <2>2. CASE outcome = "error"
        BY <2>2, <2>a, <2>b DEF Progress, SetOnly, TypeOK
    <2> QED  BY <2>1, <2>2 DEF SetOnly
<1> QED  BY InitIInv, NextIInv, <1>1, PTL DEF Spec

-----------------------------------------------------------------------------
(* Induction, for a set in place of a predicate. *)
LEMMA SetInduction ==
    ASSUME NEW S, 0 \in S, \A n \in Nat : n \in S => n + 1 \in S
    PROVE  \A n \in Nat : n \in S
<1> DEFINE Missing == {n \in Nat : n \notin S}
           Less == OpToRel(<, Nat)
<1> SUFFICES ASSUME Missing # {} PROVE FALSE
    OBVIOUS
<1>1. IsWellFoundedOn(Less, Nat)
    BY NatLessThanWellFounded
<1>2. \A m, n \in Nat : m < n => <<m, n>> \in Less
    BY DEF OpToRel
<1> HIDE DEF Less
<1>3. PICK n \in Missing : \A m \in Missing : <<m, n>> \notin Less
    <2> Missing \subseteq Nat
        OBVIOUS
    <2> HIDE DEF Missing
    <2> QED
        BY <1>1, WFMin
<1>4. n \in Nat /\ n - 1 \in Nat /\ n - 1 \in Missing
    BY <1>3
<1>5. <<n - 1, n>> \in Less
    BY <1>2, <1>4
<1>6. QED
    BY <1>3, <1>4, <1>5

-----------------------------------------------------------------------------
(* A collection of sets that has a finite set as soon as it has all that lack one
   element of it has every subset. *)
LEMMA SubsetInduction ==
    ASSUME NEW S, IsFiniteSet(S), NEW C, {} \in C,
           \A T \in SUBSET S : T # {} /\ (\A t \in T : T \ {t} \in C) => T \in C
    PROVE  \A T \in SUBSET S : T \in C
<1> DEFINE N == {n \in Nat : \A T \in SUBSET S : Cardinality(T) <= n => T \in C}
<1>1. \A T \in SUBSET S : IsFiniteSet(T) /\ Cardinality(T) \in Nat
    BY FS_Subset, FS_CardinalityType
<1>2. 0 \in N
    <2>1. ASSUME NEW T \in SUBSET S, Cardinality(T) <= 0 PROVE T \in C
        <3>1. T = {}
            BY <1>1, <2>1, FS_EmptySet
        <3>2. QED
            BY <3>1
    <2>2. QED
        BY <2>1
<1>3. ASSUME NEW n \in Nat, n \in N PROVE n + 1 \in N
    <2>1. ASSUME NEW T \in SUBSET S, Cardinality(T) <= n + 1 PROVE T \in C
        <3>1. ASSUME NEW t \in T PROVE T \ {t} \in C
            <4>1. T \ {t} \in SUBSET S /\ Cardinality(T \ {t}) <= n
                BY <1>1, <2>1, FS_RemoveElement
            <4>2. QED
                BY <1>3, <4>1
        <3>2. QED
            BY <3>1
    <2>2. QED
        BY <2>1
<1> HIDE DEF N
<1>4. \A n \in Nat : n \in N
    BY <1>2, <1>3, SetInduction
<1>5. ASSUME NEW T \in SUBSET S PROVE T \in C
    <2>1. Cardinality(T) \in N /\ Cardinality(T) <= Cardinality(T)
        BY <1>1, <1>4
    <2>2. QED
        BY <2>1 DEF N
<1>6. QED
    BY <1>5

-----------------------------------------------------------------------------
(* Sums. *)

\* The sums of a function over the subsets of its domain, taken one element at a time.
IsSums(F, f) ==
    F = [T \in SUBSET DOMAIN f |->
            IF T = {} THEN 0
            ELSE LET one == CHOOSE t \in T : TRUE IN f[one] + F[T \ {one}]]

\* The sums exist: for sets of up to n elements, by induction over n.
LEMMA SumsExist ==
    ASSUME NEW f, IsFiniteSet(DOMAIN f)
    PROVE  \E F : IsSums(F, f)
<1> DEFINE S == DOMAIN f
           Level(n) == {T \in SUBSET S : Cardinality(T) <= n}
           OneBy(F, T) == IF T = {} THEN 0
                          ELSE LET one == CHOOSE t \in T : TRUE IN f[one] + F[T \ {one}]
           N == {n \in Nat : \E F : F = [T \in Level(n) |-> OneBy(F, T)]}
<1>1. \A T \in SUBSET S : IsFiniteSet(T) /\ Cardinality(T) \in Nat
    BY FS_Subset, FS_CardinalityType
<1>2. 0 \in N
    <2> DEFINE F == [T \in Level(0) |-> 0]
    <2>1. \A T \in Level(0) : T = {}
        BY <1>1, FS_EmptySet
    <2>2. F = [T \in Level(0) |-> OneBy(F, T)]
        BY <2>1
    <2>3. QED
        BY <2>2
<1>3. ASSUME NEW n \in Nat, n \in N PROVE n + 1 \in N
    <2>1. PICK F : F = [T \in Level(n) |-> OneBy(F, T)]
        BY <1>3
    <2> DEFINE G == [T \in Level(n + 1) |-> OneBy(F, T)]
    <2>2. ASSUME NEW T \in Level(n + 1), NEW t \in T
          PROVE  T \ {t} \in Level(n) /\ T \ {t} \in Level(n + 1)
        <3>1. T \ {t} \in SUBSET S /\ Cardinality(T \ {t}) <= n
            BY <1>1, FS_RemoveElement
        <3>2. Cardinality(T \ {t}) \in Nat
            BY <3>1, <1>1
        <3>3. QED
            BY <3>1, <3>2
    <2>3. ASSUME NEW T \in Level(n + 1), T # {}
          PROVE  G[T \ {CHOOSE t \in T : TRUE}] = F[T \ {CHOOSE t \in T : TRUE}]
        <3> DEFINE U == T \ {CHOOSE t \in T : TRUE}
        <3>1. U \in Level(n) /\ U \in Level(n + 1)
            BY <2>2, <2>3
        <3> HIDE DEF U
        <3>2. G[U] = OneBy(F, U) /\ F[U] = OneBy(F, U)
            <4> HIDE DEF OneBy, Level
            <4> QED  BY <2>1, <3>1
        <3>3. QED
            BY <3>2 DEF U
    <2>4. \A T \in Level(n + 1) : OneBy(F, T) = OneBy(G, T)
        <3> HIDE DEF G
        <3> QED  BY <2>3
    <2>5. G = [T \in Level(n + 1) |-> OneBy(G, T)]
        <3> HIDE DEF OneBy, Level
        <3> QED  BY <2>4
    <2>6. QED
        <3> HIDE DEF G, OneBy
        <3> QED  BY <2>5
<1> HIDE DEF N
<1>4. \A n \in Nat : n \in N
    BY <1>2, <1>3, SetInduction
<1>5. Cardinality(S) \in Nat
    BY <1>1
<1>6. PICK F : F = [T \in Level(Cardinality(S)) |-> OneBy(F, T)]
    BY <1>4, <1>5 DEF N
<1>7. Level(Cardinality(S)) = SUBSET S
    BY <1>1, FS_Subset
<1>8. F = [T \in SUBSET S |-> OneBy(F, T)]
    <2> HIDE DEF OneBy, Level
    <2> QED  BY <1>6, <1>7
<1>9. QED
    BY <1>8 DEF IsSums

LEMMA SumIsSums ==
    ASSUME NEW f, IsFiniteSet(DOMAIN f)
    PROVE  \E F : IsSums(F, f) /\ SumOf(f) = F[DOMAIN f]
<1> DEFINE F == CHOOSE F : IsSums(F, f)
<1>1. IsSums(F, f)
    BY SumsExist
<1>2. SumOf(f) = F[DOMAIN f]
    BY DEF SumOf, IsSums
<1>3. QED
    BY <1>1, <1>2

\* The sum over a set is that over the set without one of its elements, whichever it
\* is, and the element's value.
LEMMA SumStep ==
    ASSUME NEW f, IsFiniteSet(DOMAIN f), \A t \in DOMAIN f : f[t] \in Int, NEW F, IsSums(F, f)
    PROVE  /\ F[{}] = 0
           /\ \A T \in SUBSET DOMAIN f : F[T] \in Int /\ \A t \in T : F[T] = f[t] + F[T \ {t}]
<1> DEFINE S == DOMAIN f
           I == {T \in SUBSET S : F[T] \in Int}
           C == {T \in SUBSET S : \A t \in T : F[T] = f[t] + F[T \ {t}]}
<1>1. F[{}] = 0
    BY DEF IsSums
<1>2. ASSUME NEW T \in SUBSET S, T # {} PROVE \E one \in T : F[T] = f[one] + F[T \ {one}]
    <2>1. F[T] = LET one == CHOOSE t \in T : TRUE IN f[one] + F[T \ {one}]
        BY <1>2 DEF IsSums
    <2>2. (CHOOSE t \in T : TRUE) \in T
        BY <1>2
    <2>3. QED
        BY <2>1, <2>2
<1>3. ASSUME NEW T \in SUBSET S, T # {}, \A t \in T : T \ {t} \in I PROVE T \in I
    <2>1. PICK one \in T : F[T] = f[one] + F[T \ {one}]
        BY <1>2, <1>3
    <2>2. QED
        BY <1>3, <2>1
<1>4. \A T \in SUBSET S : T \in I
    <2>1. {} \in I
        BY <1>1
    <2> HIDE DEF I
    <2>2. QED
        BY <1>3, <2>1, SubsetInduction
<1>5. ASSUME NEW T \in SUBSET S, T # {}, \A t \in T : T \ {t} \in C PROVE T \in C
    <2>1. PICK one \in T : F[T] = f[one] + F[T \ {one}]
        BY <1>2, <1>5
    <2>2. ASSUME NEW t \in T, t # one PROVE F[T] = f[t] + F[T \ {t}]
        <3> DEFINE x == F[(T \ {one}) \ {t}]
                   y == F[T \ {t}]
                   z == F[T \ {one}]
        <3>1. z = f[t] + x
            BY <1>5, <2>2
        <3>2. y = f[one] + x
            <4>1. y = f[one] + F[(T \ {t}) \ {one}]
                BY <1>5, <2>2
            <4>2. (T \ {one}) \ {t} = (T \ {t}) \ {one}
                OBVIOUS
            <4>3. QED
                BY <4>1, <4>2
        <3>3. F[T] = f[one] + z
            BY <2>1
        <3>4. x \in Int /\ y \in Int /\ z \in Int /\ f[t] \in Int /\ f[one] \in Int
            BY <1>4
        <3> HIDE DEF x, z
        <3>5. QED
            BY <3>1, <3>2, <3>3, <3>4
    <2>3. QED
        BY <2>1, <2>2
<1>6. \A T \in SUBSET S : T \in C
    <2> HIDE DEF C
    <2>1. {} \in C
        BY DEF C
    <2>2. QED
        BY <1>5, <2>1, SubsetInduction
<1>7. QED
    BY <1>1, <1>4, <1>6

Additive(F, f, S) ==
    /\ F[{}] = 0
    /\ \A T \in SUBSET S : F[T] \in Int
    /\ \A T \in SUBSET S : \A t \in T : F[T] = f[t] + F[T \ {t}]

LEMMA SumLaws ==
    ASSUME NEW S, IsFiniteSet(S), NEW f \in [S -> Int], NEW F, IsSums(F, f)
    PROVE  Additive(F, f, S)
<1>1. DOMAIN f = S /\ \A t \in S : f[t] \in Int
    OBVIOUS
<1>2. IsFiniteSet(DOMAIN f) /\ \A t \in DOMAIN f : f[t] \in Int
    BY <1>1
<1>3. /\ F[{}] = 0
      /\ \A T \in SUBSET DOMAIN f : F[T] \in Int /\ \A t \in T : F[T] = f[t] + F[T \ {t}]
    BY <1>2, SumStep
<1>4. QED
    BY <1>1, <1>3 DEF Additive

\* Functions that agree on a set have the same sum over it.
LEMMA SumsAgree ==
    ASSUME NEW S, IsFiniteSet(S), NEW f \in [S -> Int], NEW g \in [S -> Int],
           NEW F, IsSums(F, f), NEW G, IsSums(G, g),
           NEW U \in SUBSET S, \A t \in U : f[t] = g[t]
    PROVE  F[U] = G[U]
<1> DEFINE C == {T \in SUBSET S : T \subseteq U => F[T] = G[T]}
<1>a. Additive(F, f, S) /\ Additive(G, g, S)
    BY SumLaws
<1>1. {} \in C
    BY <1>a DEF Additive
<1>2. ASSUME NEW T \in SUBSET S, T # {}, \A t \in T : T \ {t} \in C PROVE T \in C
    <2> SUFFICES ASSUME T \subseteq U PROVE F[T] = G[T]
        OBVIOUS
    <2>1. PICK t \in T : TRUE
        BY <1>2
    <2>2. F[T \ {t}] = G[T \ {t}] /\ f[t] = g[t]
        BY <1>2
    <2>3. QED
        BY <1>a, <2>2 DEF Additive
<1> HIDE DEF C
<1>3. \A T \in SUBSET S : T \in C
    BY <1>1, <1>2, SubsetInduction
<1>4. QED
    BY <1>3 DEF C

\* The sum follows a change of one value.
LEMMA SumOfChanged ==
    ASSUME NEW S, IsFiniteSet(S), NEW f \in [S -> Int], NEW g \in [S -> Int],
           NEW t \in S, \A u \in S \ {t} : f[u] = g[u]
    PROVE  /\ SumOf(f) \in Int /\ SumOf(g) \in Int
           /\ SumOf(f) - f[t] = SumOf(g) - g[t]
<1>1. PICK F : IsSums(F, f) /\ SumOf(f) = F[S]
    BY SumIsSums
<1>2. PICK G : IsSums(G, g) /\ SumOf(g) = G[S]
    BY SumIsSums
<1>b. IsSums(F, f)
    BY <1>1
<1>c. IsSums(G, g)
    BY <1>2
<1>3. /\ F[S] = f[t] + F[S \ {t}] /\ F[S] \in Int /\ F[S \ {t}] \in Int
      /\ G[S] = g[t] + G[S \ {t}] /\ G[S] \in Int /\ G[S \ {t}] \in Int
    <2>1. S \in SUBSET S /\ S \ {t} \in SUBSET S
        OBVIOUS
    <2>2. Additive(F, f, S)
        BY <1>b, SumLaws
    <2>3. Additive(G, g, S)
        BY <1>c, SumLaws
    <2>4. QED
        BY <1>1, <1>2, <2>1, <2>2, <2>3 DEF Additive
<1>4. F[S \ {t}] = G[S \ {t}]
    BY <1>1, <1>2, SumsAgree
<1>5. QED
    BY <1>1, <1>2, <1>3, <1>4

LEMMA SumOfInt ==
    ASSUME NEW S, IsFiniteSet(S), NEW f \in [S -> Int]
    PROVE  SumOf(f) \in Int
<1>1. PICK F : IsSums(F, f) /\ SumOf(f) = F[S]
    BY SumIsSums
<1>2. IsSums(F, f)
    BY <1>1
<1>3. Additive(F, f, S) /\ S \in SUBSET S
    BY <1>2, SumLaws
<1>4. QED
    BY <1>1, <1>3 DEF Additive

LEMMA SumOfZeros ==
    ASSUME NEW S, IsFiniteSet(S), NEW f \in [S -> Int], \A t \in S : f[t] = 0
    PROVE  SumOf(f) = 0
<1>1. PICK F : IsSums(F, f) /\ SumOf(f) = F[S]
    BY SumIsSums
<1>b. IsSums(F, f)
    BY <1>1
<1> DEFINE C == {T \in SUBSET S : F[T] = 0}
<1>a. Additive(F, f, S)
    BY <1>b, SumLaws
<1>2. {} \in C
    BY <1>a DEF Additive
<1>3. ASSUME NEW T \in SUBSET S, T # {}, \A t \in T : T \ {t} \in C PROVE T \in C
    <2>1. PICK t \in T : TRUE
        BY <1>3
    <2>2. F[T] = f[t] + F[T \ {t}] /\ F[T \ {t}] = 0 /\ f[t] = 0
        BY <1>3, <1>a DEF Additive
    <2>3. QED
        BY <2>2
<1> HIDE DEF C
<1>4. \A T \in SUBSET S : T \in C
    BY <1>2, <1>3, SubsetInduction
<1>5. QED
    BY <1>1, <1>4 DEF C

\* A sum of numbers that are not negative is none either.
LEMMA SumOfNaturals ==
    ASSUME NEW S, IsFiniteSet(S), NEW f \in [S -> Int], \A t \in S : f[t] >= 0
    PROVE  SumOf(f) \in Nat /\ \A t \in S : f[t] <= SumOf(f)
<1>1. PICK F : IsSums(F, f) /\ SumOf(f) = F[S]
    BY SumIsSums
<1>b. IsSums(F, f)
    BY <1>1
<1> DEFINE C == {T \in SUBSET S : F[T] >= 0}
<1>a. Additive(F, f, S)
    BY <1>b, SumLaws
<1>2. {} \in C
    BY <1>a DEF Additive
<1>3. ASSUME NEW T \in SUBSET S, T # {}, \A t \in T : T \ {t} \in C PROVE T \in C
    <2>1. PICK t \in T : TRUE
        BY <1>3
    <2>2. F[T] = f[t] + F[T \ {t}] /\ F[T \ {t}] \in Int /\ F[T \ {t}] >= 0 /\ f[t] \in Int /\ f[t] >= 0
        BY <1>3, <1>a DEF Additive
    <2>3. QED
        BY <2>2
<1> HIDE DEF C
<1>4. \A T \in SUBSET S : T \in C
    BY <1>2, <1>3, SubsetInduction
<1>5. F[S] \in Int /\ F[S] >= 0
    BY <1>4, <1>a DEF C, Additive
<1>6. ASSUME NEW t \in S PROVE f[t] <= F[S]
    <2>1. F[S] = f[t] + F[S \ {t}] /\ F[S \ {t}] \in Int /\ F[S \ {t}] >= 0
        BY <1>4, <1>a DEF C, Additive
    <2>2. QED
        BY <2>1
<1>7. QED
    BY <1>1, <1>5, <1>6

-----------------------------------------------------------------------------
(* Weights. *)

\* The tables of a list of pairs, after every one of them.
IsTables(T, ps) ==
    T = [i \in 0 .. Len(ps) |->
            IF i = 0 THEN << >>
            ELSE [t \in DOMAIN T[i - 1] \cup {ps[i][1]} |->
                     IF t = ps[i][1] THEN ps[i][2] ELSE T[i - 1][t]]]

\* The tables exist, and the last is what is looked up in.
LEMMA TablesExist ==
    ASSUME NEW ps, Len(ps) \in Nat
    PROVE  \E T : IsTables(T, ps) /\ FromPairs(ps) = T[Len(ps)]
<1> DEFINE Entry(T, i) ==
               IF i = 0 THEN << >>
               ELSE [t \in DOMAIN T[i - 1] \cup {ps[i][1]} |->
                        IF t = ps[i][1] THEN ps[i][2] ELSE T[i - 1][t]]
           N == {n \in Nat : \E T : T = [i \in 0 .. n |-> Entry(T, i)]}
<1>1. 0 \in N
    <2> DEFINE T == [i \in 0 .. 0 |-> << >>]
    <2>1. T = [i \in 0 .. 0 |-> Entry(T, i)]
        OBVIOUS
    <2>2. QED
        BY <2>1
<1>2. ASSUME NEW n \in Nat, n \in N PROVE n + 1 \in N
    <2>1. PICK T : T = [i \in 0 .. n |-> Entry(T, i)]
        BY <1>2
    <2> DEFINE U == [i \in 0 .. n + 1 |-> Entry(T, i)]
    <2>2. ASSUME NEW i \in 0 .. n PROVE U[i] = T[i]
        <3> HIDE DEF Entry
        <3>1. U[i] = Entry(T, i) /\ T[i] = Entry(T, i)
            BY <2>1
        <3>2. QED
            BY <3>1
    <2>3. ASSUME NEW i \in 0 .. n + 1 PROVE Entry(T, i) = Entry(U, i)
        <3>1. CASE i = 0
            BY <3>1
        <3>2. CASE i # 0
            <4>1. U[i - 1] = T[i - 1]
                <5>1. i - 1 \in 0 .. n
                    BY <3>2
                <5>2. QED
                    BY <2>2, <5>1
            <4> HIDE DEF U
            <4>2. QED
                BY <4>1
        <3>3. QED
            BY <3>1, <3>2
    <2>4. U = [i \in 0 .. n + 1 |-> Entry(U, i)]
        <3> HIDE DEF Entry
        <3>1. QED
            BY <2>3
    <2>5. QED
        <3> HIDE DEF U, Entry
        <3>1. QED
            BY <2>4
<1> HIDE DEF N
<1>3. Len(ps) \in N
    BY <1>1, <1>2, SetInduction
<1>4. \E T : IsTables(T, ps)
    BY <1>3 DEF N, IsTables
<1> DEFINE T == CHOOSE T : IsTables(T, ps)
<1>5. IsTables(T, ps)
    BY <1>4
<1>6. FromPairs(ps) = T[Len(ps)]
    BY DEF FromPairs, IsTables
<1>7. QED
    BY <1>5, <1>6

\* The last pair of a token is the one that counts.
LEMMA LastPairCounts ==
    ASSUME NEW t, Len(pairs) \in Nat, DOMAIN pairs = 1 .. Len(pairs)
    PROVE  IdfGet(FromPairs(pairs), t) = IdfOf(t)
<1>1. PICK T : IsTables(T, pairs) /\ FromPairs(pairs) = T[Len(pairs)]
    BY TablesExist
<1> DEFINE LastIn(m, n) == m \in 1 .. n /\ pairs[m][1] = t /\ \A j \in m + 1 .. n : pairs[j][1] # t
           Absent(n) == \A j \in 1 .. n : pairs[j][1] # t
           N == {n \in Nat : n <= Len(pairs) =>
                    \/ Absent(n) /\ t \notin DOMAIN T[n]
                    \/ \E m \in 1 .. n : LastIn(m, n) /\ t \in DOMAIN T[n] /\ T[n][t] = pairs[m][2]}
<1>2. 0 \in N
    BY <1>1 DEF IsTables
<1>3. ASSUME NEW n \in Nat, n \in N PROVE n + 1 \in N
    <2> SUFFICES ASSUME n + 1 <= Len(pairs)
                 PROVE  \/ Absent(n + 1) /\ t \notin DOMAIN T[n + 1]
                        \/ \E m \in 1 .. n + 1 :
                               LastIn(m, n + 1) /\ t \in DOMAIN T[n + 1] /\ T[n + 1][t] = pairs[m][2]
        OBVIOUS
    <2>1. T[n + 1] = [u \in DOMAIN T[n] \cup {pairs[n + 1][1]} |->
                         IF u = pairs[n + 1][1] THEN pairs[n + 1][2] ELSE T[n][u]]
        <3>1. n + 1 \in 0 .. Len(pairs) /\ n + 1 # 0 /\ (n + 1) - 1 = n
            OBVIOUS
        <3>2. T[n + 1] = IF n + 1 = 0 THEN << >>
                         ELSE [u \in DOMAIN T[(n + 1) - 1] \cup {pairs[n + 1][1]} |->
                                  IF u = pairs[n + 1][1] THEN pairs[n + 1][2] ELSE T[(n + 1) - 1][u]]
            BY <1>1, <3>1, Zenon DEF IsTables
        <3>3. QED
            BY <3>1, <3>2
    <2>2. CASE pairs[n + 1][1] = t
        <3>1. LastIn(n + 1, n + 1)
            BY <2>2
        <3>2. t \in DOMAIN T[n + 1] /\ T[n + 1][t] = pairs[n + 1][2]
            BY <2>1, <2>2
        <3> HIDE DEF LastIn
        <3>3. QED
            BY <3>1, <3>2
    <2>3. CASE pairs[n + 1][1] # t
        <3>1. (t \in DOMAIN T[n + 1] <=> t \in DOMAIN T[n])
              /\ (t \in DOMAIN T[n] => T[n + 1][t] = T[n][t])
            BY <2>1, <2>3
        <3>2. CASE Absent(n) /\ t \notin DOMAIN T[n]
            BY <2>3, <3>1, <3>2
        <3>3. CASE \E m \in 1 .. n : LastIn(m, n) /\ t \in DOMAIN T[n] /\ T[n][t] = pairs[m][2]
            <4>1. PICK m \in 1 .. n : LastIn(m, n) /\ t \in DOMAIN T[n] /\ T[n][t] = pairs[m][2]
                BY <3>3
            <4>2. LastIn(m, n + 1)
                BY <2>3, <4>1
            <4>3. m \in 1 .. n + 1
                BY <4>1
            <4> HIDE DEF LastIn
            <4>4. QED
                BY <3>1, <4>1, <4>2, <4>3
        <3>4. QED
            BY <1>3, <3>2, <3>3
    <2>4. QED
        BY <2>2, <2>3
<1> HIDE DEF N
<1>4. Len(pairs) \in N
    BY <1>2, <1>3, SetInduction
<1> DEFINE n == Len(pairs)
           places == {i \in DOMAIN pairs : pairs[i][1] = t}
<1>5. CASE Absent(n) /\ t \notin DOMAIN T[n]
    BY <1>1, <1>5 DEF IdfGet, IdfOf
<1>6. CASE \E m \in 1 .. n : LastIn(m, n) /\ t \in DOMAIN T[n] /\ T[n][t] = pairs[m][2]
    <2>1. PICK m \in 1 .. n : LastIn(m, n) /\ t \in DOMAIN T[n] /\ T[n][t] = pairs[m][2]
        BY <1>6
    <2> DEFINE Greatest(x) == x \in places /\ \A y \in places : x >= y
    <2>2. Greatest(m)
        BY <2>1
    <2>3. \A x : Greatest(x) => x = m
        BY <2>1
    <2>4. Max(places) = CHOOSE x \in places : \A y \in places : x >= y
        BY DEF Max
    <2>5. Max(places) = m
        BY <2>2, <2>3, <2>4
    <2>6. places # {}
        BY <2>2
    <2> HIDE DEF places
    <2>7. IdfOf(t) = pairs[m][2]
        BY <2>5, <2>6 DEF IdfOf, places
    <2>8. QED
        BY <1>1, <2>1, <2>7 DEF IdfGet
<1>7. QED
    BY <1>4, <1>5, <1>6 DEF N

\* Some place is the greatest.
LEMMA GreatestPlace ==
    ASSUME NEW n \in Nat, NEW places \in SUBSET (1 .. n), places # {}
    PROVE  Max(places) \in places
<1> DEFINE N == {m \in Nat : (\E p \in places : p <= m) =>
                     \E p \in places : p <= m /\ \A q \in places : q <= m => p >= q}
<1>1. 0 \in N
    OBVIOUS
<1>2. ASSUME NEW m \in Nat, m \in N PROVE m + 1 \in N
    <2>1. CASE m + 1 \in places
        BY <2>1
    <2>2. CASE m + 1 \notin places
        <3>1. \A p \in places : p <= m + 1 <=> p <= m
            BY <2>2
        <3>2. QED
            BY <1>2, <3>1
    <2>3. QED
        BY <2>1, <2>2
<1> HIDE DEF N
<1>3. n \in N
    BY <1>1, <1>2, SetInduction
<1>4. \E p \in places : \A q \in places : p >= q
    <2>1. \A p \in places : p <= n
        OBVIOUS
    <2>2. \E p \in places : p <= n /\ \A q \in places : q <= n => p >= q
        BY <1>3, <2>1 DEF N
    <2>3. QED
        BY <2>1, <2>2
<1>5. QED
    BY <1>4 DEF Max

LEMMA TimesGrows ==
    ASSUME NEW x \in Nat, NEW y \in Nat, NEW z \in Nat, x <= y
    PROVE  x * z <= y * z /\ x * z \in Nat
<1>1. PICK more \in Nat : y = x + more
    <2>1. y - x \in Nat /\ y = x + (y - x)
        OBVIOUS
    <2>2. QED
        BY <2>1, Zenon
<1>2. y * z = x * z + more * z /\ more * z >= 0 /\ x * z \in Nat /\ more * z \in Nat
    BY <1>1
<1>3. QED
    BY <1>2

\* Truncation with the clamp is the integer part.
LEMMA ClampedTruncation ==
    ASSUME NEW p \in Int
    PROVE  /\ Between(-MaxWeight, Truncate(p), MaxWeight) = IntegerPart(p)
           /\ IntegerPart(p) \in -MaxWeight .. MaxWeight
<1> DEFINE Part(w) == /\ Abs(w) * One <= Abs(p)
                      /\ Abs(w) = MaxWeight \/ Abs(p) < (Abs(w) + 1) * One
                      /\ w # 0 => (w < 0 <=> p < 0)
           value == Between(-MaxWeight, Truncate(p), MaxWeight)
<1>a. One \in Nat \ {0} /\ MaxWeight \in Nat \ {0}
    BY SimHashAssumption
<1>b. \A w \in -MaxWeight .. MaxWeight : Abs(w) \in 0 .. MaxWeight /\ w \in Int
    BY <1>a DEF Abs
<1>c. Abs(p) \in Nat
    BY DEF Abs
<1>1. \A v, w \in -MaxWeight .. MaxWeight : Part(v) /\ Part(w) => ~(Abs(v) < Abs(w))
    <2> SUFFICES ASSUME NEW v \in -MaxWeight .. MaxWeight, NEW w \in -MaxWeight .. MaxWeight,
                        Part(v), Part(w), Abs(v) < Abs(w)
                 PROVE  FALSE
        OBVIOUS
    <2>1. Abs(v) + 1 <= Abs(w) /\ Abs(v) # MaxWeight /\ Abs(v) + 1 \in Nat /\ Abs(w) \in Nat
        BY <1>a, <1>b
    <2>2. (Abs(v) + 1) * One <= Abs(w) * One
        BY <1>a, <2>1, TimesGrows
    <2>3. Abs(w) * One <= Abs(p) /\ Abs(p) < (Abs(v) + 1) * One
        BY <2>1
    <2>4. (Abs(v) + 1) * One \in Int /\ Abs(w) * One \in Int
        BY <1>a, <2>1
    <2>5. QED
        BY <1>c, <2>2, <2>3, <2>4
<1>2. \A v, w \in -MaxWeight .. MaxWeight : Part(v) /\ Part(w) => v = w
    <2> SUFFICES ASSUME NEW v \in -MaxWeight .. MaxWeight, NEW w \in -MaxWeight .. MaxWeight,
                        Part(v), Part(w)
                 PROVE  v = w
        OBVIOUS
    <2>1. Abs(v) = Abs(w)
        <3>1. ~(Abs(v) < Abs(w)) /\ ~(Abs(w) < Abs(v))
            BY <1>1
        <3>2. QED
            BY <1>b, <3>1
    <2>2. (v # 0 => (v < 0 <=> p < 0)) /\ (w # 0 => (w < 0 <=> p < 0))
        OBVIOUS
    <2>3. QED
        BY <1>b, <2>1, <2>2 DEF Abs
<1>3. value \in -MaxWeight .. MaxWeight /\ Part(value)
    <2> DEFINE q == Abs(p) \div One
    <2>1. q \in Nat /\ q * One <= Abs(p) /\ Abs(p) < (q + 1) * One
        BY <1>a, <1>c
    <2>2. Truncate(p) = IF p >= 0 THEN q ELSE -q
        BY DEF Truncate, Abs
    <2>3. q = 0 => Truncate(p) = 0
        BY <2>2
    <2> HIDE DEF q
    <2>4. CASE q <= MaxWeight
        <3>1. value = IF p >= 0 THEN q ELSE -q
            BY <1>a, <2>1, <2>2, <2>4 DEF Between
        <3>2. Abs(value) = q /\ value \in -MaxWeight .. MaxWeight
            BY <1>a, <2>1, <2>4, <3>1 DEF Abs
        <3>3. value # 0 => (value < 0 <=> p < 0)
            BY <2>1, <3>1
        <3>4. QED
            BY <2>1, <3>2, <3>3
    <2>5. CASE q > MaxWeight
        <3>1. value = IF p >= 0 THEN MaxWeight ELSE -MaxWeight
            BY <1>a, <2>1, <2>2, <2>5 DEF Between
        <3>2. Abs(value) = MaxWeight /\ value \in -MaxWeight .. MaxWeight
            BY <1>a, <3>1 DEF Abs
        <3>3. value # 0 => (value < 0 <=> p < 0)
            BY <1>a, <3>1
        <3>4. MaxWeight * One <= q * One /\ MaxWeight * One \in Nat /\ q * One \in Int
            BY <1>a, <2>1, <2>5, TimesGrows
        <3>5. MaxWeight * One <= Abs(p)
            BY <1>c, <2>1, <3>4
        <3>6. QED
            BY <3>2, <3>3, <3>5
    <2>6. QED
        BY <1>a, <2>1, <2>4, <2>5
<1> HIDE DEF Part
<1>4. IntegerPart(p) = CHOOSE w \in -MaxWeight .. MaxWeight : Part(w)
    BY DEF IntegerPart, Part
<1>5. IntegerPart(p) \in -MaxWeight .. MaxWeight /\ Part(IntegerPart(p))
    BY <1>3, <1>4
<1>6. QED
    BY <1>2, <1>3, <1>5

-----------------------------------------------------------------------------
(* The sketch of SimHash. *)

\* What the tokens of the document still have to add.
Rest ==
    [t \in Range(simDoc) |->
        IF weighting = "Tf" THEN Cardinality({i \in simTaken + 1 .. Len(simDoc) : simDoc[i] = t})
        ELSE IF simTaken < Len(simDoc) \/ t \in todo THEN WeightInDoc(t)
        ELSE 0]

\* The counts are those of the tokens taken; nothing is added before all are counted;
\* a sketch is returned when there is nothing left to add.
Counted ==
    /\ todo \subseteq DOMAIN counts
    /\ weighting = "Tf" => counts = << >>
    /\ weighting # "Tf" =>
          /\ DOMAIN counts = {simDoc[i] : i \in 1 .. simTaken}
          /\ \A t \in DOMAIN counts : counts[t] = Cardinality({i \in 1 .. simTaken : simDoc[i] = t})
          /\ simTaken < Len(simDoc) => todo = DOMAIN counts /\ \A b \in Bits : acc[b] = 0
    /\ simOutcome # "none" =>
          /\ simTaken = Len(simDoc) /\ todo = {}
          /\ simOutcome = "ok" <=> simTaken > 0

\* What is in an accumulator and what is still to come make up the exact sum, and no
\* order of the rest can saturate it.
Balanced(sums, rest, b) ==
    /\ sums[b] + SumOf(For(rest, b)) = SumOf(For(DocWeights, b))
    /\ Abs(sums[b]) + SumOf(Magnitudes(rest)) <= SumOf(Magnitudes(DocWeights))

\* Where no token weighs against a bit its accumulator is not negative, and positive
\* unless all that weigh for it are still to come; and the other way round.
Leaning(sums, rest, b) ==
    LET for == For(DocWeights, b)
    IN  /\ (\A t \in Range(simDoc) : for[t] >= 0) =>
               /\ sums[b] >= 0
               /\ sums[b] > 0 \/ \A t \in Range(simDoc) : for[t] > 0 => rest[t] = DocWeights[t]
        /\ (\A t \in Range(simDoc) : for[t] <= 0) => sums[b] <= 0

SimInv ==
    /\ SimTypeOK
    /\ Counted
    /\ Fits => \A b \in Bits : Balanced(acc, Rest, b)
    /\ \A b \in Bits : Leaning(acc, Rest, b)

\* What every action needs of the document and the weights.
LEMMA DocFacts ==
    ASSUME simDoc \in SimDocs, pairs \in PairLists,
           weighting \in {"Uniform", "Tf", "IdfWeighted"}
    PROVE  /\ Len(simDoc) \in Nat /\ DOMAIN simDoc = 1 .. Len(simDoc)
           /\ Range(simDoc) = {simDoc[i] : i \in 1 .. Len(simDoc)}
           /\ Range(simDoc) \subseteq SimTokens /\ IsFiniteSet(Range(simDoc))
           /\ DocWeights \in [Range(simDoc) -> Int]
           /\ \A t \in Range(simDoc) : DocWeights[t] = WeightInDoc(t)
           /\ weighting = "Tf" => \A t \in Range(simDoc) : WeightInDoc(t) = Cardinality(Occurrences(t))
           /\ weighting # "Tf" => \A t : WeightInDoc(t) = TokenWeight(t, Cardinality(Occurrences(t)))
<1>1. Len(simDoc) \in Nat /\ DOMAIN simDoc = 1 .. Len(simDoc) /\ simDoc \in Seq(SimTokens)
    BY SimHashAssumption
<1>2. Range(simDoc) = {simDoc[i] : i \in 1 .. Len(simDoc)} /\ Range(simDoc) \subseteq SimTokens
    BY <1>1 DEF Range
<1>3. IsFiniteSet(Range(simDoc))
    <2>1. IsFiniteSet(1 .. Len(simDoc))
        BY <1>1, FS_Interval
    <2>2. simDoc \in Surjection(1 .. Len(simDoc), Range(simDoc))
        BY <1>1, <1>2 DEF Surjection
    <2>3. QED
        BY <2>1, <2>2, FS_Surjection
<1>4. ASSUME NEW t PROVE IsFiniteSet(Occurrences(t)) /\ Cardinality(Occurrences(t)) \in Nat
    <2>1. IsFiniteSet(1 .. Len(simDoc)) /\ Occurrences(t) \in SUBSET (1 .. Len(simDoc))
        BY <1>1, FS_Interval DEF Occurrences
    <2>2. QED
        BY <2>1, FS_Subset, FS_CardinalityType
<1>5. pairs \in Seq(SimTokens \X Int) /\ Len(pairs) \in Nat /\ DOMAIN pairs = 1 .. Len(pairs)
    BY SimHashAssumption
<1>6. ASSUME NEW t PROVE IdfGet(FromPairs(pairs), t) = IdfOf(t)
    BY <1>5, LastPairCounts
<1>7. ASSUME NEW t PROVE IdfOf(t) \in Int
    <2> DEFINE places == {i \in DOMAIN pairs : pairs[i][1] = t}
    <2>1. CASE places = {}
        BY <2>1, SimHashAssumption DEF IdfOf
    <2>2. CASE places # {}
        <3>1. Max(places) \in places
            <4>1. places \in SUBSET (1 .. Len(pairs))
                BY <1>5
            <4> HIDE DEF places
            <4>2. QED
                BY <2>2, <1>5, <4>1, GreatestPlace
        <3>2. \A i \in DOMAIN pairs : pairs[i][2] \in Int
            BY <1>5
        <3>3. QED
            BY <2>2, <3>1, <3>2 DEF IdfOf
    <2>3. QED
        BY <2>1, <2>2
<1>8. ASSUME NEW t PROVE WeightInDoc(t) \in Int
    <2> DEFINE tf == Cardinality(Occurrences(t))
    <2>1. tf \in Nat /\ IdfOf(t) \in Int /\ tf * IdfOf(t) \in Int
        BY <1>4, <1>7
    <2>2. IntegerPart(tf * IdfOf(t)) \in Int
        <3>1. IntegerPart(tf * IdfOf(t)) \in -MaxWeight .. MaxWeight
            BY <2>1, ClampedTruncation
        <3>2. QED
            BY <3>1
    <2>3. QED
        BY <2>1, <2>2 DEF WeightInDoc
<1>9. weighting # "Tf" => \A t : WeightInDoc(t) = TokenWeight(t, Cardinality(Occurrences(t)))
    <2> SUFFICES ASSUME weighting # "Tf", NEW t
                 PROVE  WeightInDoc(t) = TokenWeight(t, Cardinality(Occurrences(t)))
        OBVIOUS
    <2> DEFINE tf == Cardinality(Occurrences(t))
    <2>1. tf \in Nat /\ IdfOf(t) \in Int /\ tf * IdfOf(t) \in Int
        BY <1>4, <1>7
    <2>2. Between(-MaxWeight, Truncate(tf * IdfOf(t)), MaxWeight) = IntegerPart(tf * IdfOf(t))
        BY <2>1, ClampedTruncation
    <2>3. QED
        BY <1>6, <2>2 DEF WeightInDoc, TokenWeight, Weight
<1>10. DocWeights \in [Range(simDoc) -> Int] /\ \A t \in Range(simDoc) : DocWeights[t] = WeightInDoc(t)
    BY <1>8 DEF DocWeights
<1>11. weighting = "Tf" => \A t \in Range(simDoc) : WeightInDoc(t) = Cardinality(Occurrences(t))
    BY DEF WeightInDoc
<1>12. QED
    BY <1>1, <1>2, <1>3, <1>9, <1>10, <1>11

\* One addition, for a token that has its weight still to add, or a part of it.
LEMMA AddBalanced ==
    ASSUME NEW S, S = Range(simDoc), IsFiniteSet(S), S \subseteq SimTokens,
           DocWeights \in [S -> Int], acc \in [Bits -> Integer], Fits,
           NEW rest \in [S -> Int], NEW next \in [S -> Int], NEW t \in S, NEW w \in Int,
           next[t] = rest[t] - w, \A u \in S \ {t} : next[u] = rest[u],
           Abs(next[t]) = Abs(rest[t]) - Abs(w),
           NEW b \in Bits, Balanced(acc, rest, b)
    PROVE  Balanced(AccumulateBits(t, w), next, b)
<1> DEFINE f == For(rest, b)
           g == For(next, b)
           m == Magnitudes(rest)
           k == Magnitudes(next)
           total == SumOf(Magnitudes(DocWeights))
           s == IF b \in HashBits[t] THEN w ELSE -w
<1>1. f \in [S -> Int] /\ g \in [S -> Int]
    BY DEF For
<1>2. m \in [S -> Int] /\ k \in [S -> Int] /\ \A u \in S : k[u] >= 0
    BY DEF Magnitudes, Abs
<1>3. /\ \A u \in S \ {t} : f[u] = g[u]
      /\ f[t] - g[t] = s /\ f[t] \in Int /\ g[t] \in Int
    BY DEF For
<1>4. /\ \A u \in S \ {t} : m[u] = k[u]
      /\ m[t] - k[t] = Abs(w) /\ m[t] \in Int /\ k[t] \in Int
    BY DEF Magnitudes, Abs
<1>5. /\ acc[b] + SumOf(f) = SumOf(For(DocWeights, b))
      /\ Abs(acc[b]) + SumOf(m) <= total
      /\ acc[b] \in Int /\ total <= MaxSum /\ MaxSum \in Nat
    BY SimHashAssumption DEF Balanced, Fits, Integer
<1>6. total \in Int
    <2>1. Magnitudes(DocWeights) \in [S -> Int] /\ \A u \in S : Magnitudes(DocWeights)[u] >= 0
        BY DEF Magnitudes, Abs
    <2> HIDE DEF total
    <2>2. SumOf(Magnitudes(DocWeights)) \in Nat
        BY <2>1, SumOfNaturals
    <2>3. QED
        BY <2>2 DEF total
<1>7. AccumulateBits(t, w)[b] = Add(acc[b], s)
    BY DEF AccumulateBits
<1>8. Abs(s) = Abs(w) /\ s \in Int
    BY DEF Abs
<1> HIDE DEF f, g, m, k, total, s
<1>9. SumOf(f) \in Int /\ SumOf(g) \in Int /\ SumOf(f) - f[t] = SumOf(g) - g[t]
    BY <1>1, <1>3, SumOfChanged
<1>10. SumOf(m) \in Int /\ SumOf(k) \in Int /\ SumOf(m) - m[t] = SumOf(k) - k[t]
    BY <1>2, <1>4, SumOfChanged
<1>11. SumOf(k) \in Nat
    BY <1>2, SumOfNaturals
<1>12. Abs(acc[b] + s) + SumOf(k) <= total /\ Add(acc[b], s) = acc[b] + s
    BY <1>4, <1>5, <1>6, <1>8, <1>10, <1>11 DEF Add, Between, Abs
<1>13. (acc[b] + s) + SumOf(g) = SumOf(For(DocWeights, b))
    BY <1>3, <1>5, <1>8, <1>9
<1>14. QED
    BY <1>7, <1>12, <1>13 DEF Balanced, g, k, total

\* The same of the leaning: a saturated sum keeps its sign.
LEMMA AddLeaning ==
    ASSUME NEW S, S = Range(simDoc), S \subseteq SimTokens,
           DocWeights \in [S -> Int], acc \in [Bits -> Integer],
           NEW rest \in [S -> Int], NEW next \in [S -> Int], NEW t \in S, NEW w \in Int,
           \A u \in S \ {t} : next[u] = rest[u],
           DocWeights[t] = 0 => w = 0, DocWeights[t] > 0 => w > 0, DocWeights[t] < 0 => w < 0,
           NEW b \in Bits, Leaning(acc, rest, b)
    PROVE  Leaning(AccumulateBits(t, w), next, b)
<1> DEFINE for == For(DocWeights, b)
           s == IF b \in HashBits[t] THEN w ELSE -w
<1>1. \A u \in S : for[u] \in Int
    BY DEF For
<1>2. (for[t] = 0 => s = 0) /\ (for[t] > 0 => s > 0) /\ (for[t] < 0 => s < 0) /\ s \in Int
    BY DEF For
<1>3. AccumulateBits(t, w)[b] = Add(acc[b], s)
    BY DEF AccumulateBits
<1>4. acc[b] \in Int /\ acc[b] <= MaxSum /\ MaxSum \in Nat \ {0}
    BY SimHashAssumption DEF Integer
<1>5. /\ (\A u \in S : for[u] >= 0) =>
             /\ acc[b] >= 0
             /\ acc[b] > 0 \/ \A u \in S : for[u] > 0 => rest[u] = DocWeights[u]
      /\ (\A u \in S : for[u] <= 0) => acc[b] <= 0
    BY DEF Leaning
<1> HIDE DEF for, s
<1>6. ASSUME \A u \in S : for[u] >= 0
      PROVE  /\ Add(acc[b], s) >= 0
             /\ Add(acc[b], s) > 0 \/ \A u \in S : for[u] > 0 => next[u] = DocWeights[u]
    <2>1. CASE for[t] > 0
        <3>1. s > 0 /\ acc[b] >= 0
            BY <1>2, <1>5, <1>6, <2>1
        <3>2. Add(acc[b], s) > 0
            BY <1>2, <1>4, <3>1 DEF Add, Between
        <3>3. QED
            BY <3>2, <1>2, <1>4, <3>1 DEF Add, Between
    <2>2. CASE for[t] = 0
        <3>1. Add(acc[b], s) = acc[b]
            BY <1>2, <1>4, <1>5, <1>6, <2>2 DEF Add, Between
        <3>2. \A u \in S : for[u] > 0 => next[u] = rest[u]
            BY <2>2
        <3>3. QED
            BY <1>5, <1>6, <3>1, <3>2
    <2>3. QED
        BY <1>1, <1>6, <2>1, <2>2
<1>7. ASSUME \A u \in S : for[u] <= 0 PROVE Add(acc[b], s) <= 0
    <2>1. for[t] <= 0 /\ for[t] \in Int /\ acc[b] <= 0
        BY <1>1, <1>5, <1>7
    <2>2. s <= 0
        BY <1>2, <2>1
    <2>3. QED
        BY <1>2, <1>4, <2>1, <2>2 DEF Add, Between
<1>8. QED
    BY <1>3, <1>6, <1>7 DEF Leaning, for

LEMMA SimInitInv == SimInit => SimInv
<1> SUFFICES ASSUME SimInit PROVE SimInv
    OBVIOUS
<1> USE DEF SimInit
<1> DEFINE S == Range(simDoc)
<1>a. /\ Len(simDoc) \in Nat /\ DOMAIN simDoc = 1 .. Len(simDoc)
      /\ S = {simDoc[i] : i \in 1 .. Len(simDoc)}
      /\ IsFiniteSet(S) /\ DocWeights \in [S -> Int]
      /\ \A t \in S : DocWeights[t] = WeightInDoc(t)
      /\ weighting = "Tf" => \A t \in S : WeightInDoc(t) = Cardinality(Occurrences(t))
    BY DocFacts
<1>b. MaxSum \in Nat
    BY SimHashAssumption
<1>1. SimTypeOK
    BY <1>a, <1>b DEF SimTypeOK, Integer
<1>2. Counted
    BY <1>a DEF Counted
<1>3. Rest = DocWeights
    <2>1. ASSUME NEW t \in S PROVE Rest[t] = DocWeights[t]
        <3>1. CASE weighting = "Tf"
            <4>1. {i \in simTaken + 1 .. Len(simDoc) : simDoc[i] = t} = Occurrences(t)
                BY <1>a DEF Occurrences
            <4>2. QED
                BY <1>a, <3>1, <4>1 DEF Rest
        <3>2. CASE weighting # "Tf"
            <4>1. simTaken < Len(simDoc)
                BY <1>a
            <4>2. QED
                BY <1>a, <3>2, <4>1 DEF Rest
        <3>3. QED
            BY <3>1, <3>2
    <2>2. Rest = [t \in S |-> Rest[t]]
        BY DEF Rest
    <2>3. DocWeights = [t \in S |-> DocWeights[t]]
        BY <1>a
    <2> HIDE DEF S
    <2>4. QED
        BY <2>1, <2>2, <2>3
<1>4. ASSUME NEW b \in Bits PROVE Balanced(acc, Rest, b) /\ Leaning(acc, Rest, b)
    <2>1. acc[b] = 0
        OBVIOUS
    <2>2. For(DocWeights, b) \in [S -> Int] /\ Magnitudes(DocWeights) \in [S -> Int]
        BY <1>a DEF For, Magnitudes, Abs
    <2>3. SumOf(For(DocWeights, b)) \in Int /\ SumOf(Magnitudes(DocWeights)) \in Int
        BY <1>a, <2>2, SumOfInt
    <2>4. Balanced(acc, Rest, b)
        BY <1>3, <2>1, <2>3 DEF Balanced, Abs
    <2>5. Leaning(acc, Rest, b)
        BY <1>3, <2>1 DEF Leaning
    <2>6. QED
        BY <2>4, <2>5
<1>5. QED
    BY <1>1, <1>2, <1>4 DEF SimInv

LEMMA UptoSize ==
    ASSUME NEW n \in Nat
    PROVE  IsFiniteSet(1 .. n) /\ Cardinality(1 .. n) = n
<1>1. IsFiniteSet(1 .. n) /\ Cardinality(1 .. n) = IF 1 > n THEN 0 ELSE n - 1 + 1
    BY FS_Interval
<1>2. QED
    BY <1>1

\* One more of a token is taken.
LEMMA OneMore ==
    ASSUME simDoc \in SimDocs, pairs \in PairLists,
           weighting \in {"Uniform", "Tf", "IdfWeighted"},
           simTaken \in 0 .. Len(simDoc), simTaken < Len(simDoc), NEW t
    PROVE  LET n == simTaken + 1
               Before == {i \in 1 .. simTaken : simDoc[i] = t}
               Upto == {i \in 1 .. n : simDoc[i] = t}
               From == {i \in simTaken + 1 .. Len(simDoc) : simDoc[i] = t}
               After == {i \in n + 1 .. Len(simDoc) : simDoc[i] = t}
           IN  /\ Cardinality(Before) \in Nat /\ Cardinality(After) \in Nat
               /\ Cardinality(Upto) = Cardinality(Before) + (IF simDoc[n] = t THEN 1 ELSE 0)
               /\ Cardinality(From) = Cardinality(After) + (IF simDoc[n] = t THEN 1 ELSE 0)
<1> DEFINE n == simTaken + 1
           Before == {i \in 1 .. simTaken : simDoc[i] = t}
           Upto == {i \in 1 .. n : simDoc[i] = t}
           From == {i \in simTaken + 1 .. Len(simDoc) : simDoc[i] = t}
           After == {i \in n + 1 .. Len(simDoc) : simDoc[i] = t}
<1>1. Len(simDoc) \in Nat /\ n \in 1 .. Len(simDoc)
    BY DocFacts
<1>2. IsFiniteSet(Before) /\ IsFiniteSet(After)
    <2>1. IsFiniteSet(1 .. simTaken) /\ IsFiniteSet(n + 1 .. Len(simDoc))
        BY <1>1, FS_Interval
    <2>2. Before \in SUBSET (1 .. simTaken) /\ After \in SUBSET (n + 1 .. Len(simDoc))
        OBVIOUS
    <2> HIDE DEF Before, After
    <2>3. QED
        BY <2>1, <2>2, FS_Subset
<1>3. n \notin Before /\ n \notin After
    BY <1>1
<1>4. CASE simDoc[n] = t
    <2>1. Upto = Before \cup {n} /\ From = After \cup {n}
        BY <1>1, <1>4
    <2> HIDE DEF Before, After, Upto, From
    <2>2. Cardinality(Upto) = Cardinality(Before) + 1 /\ Cardinality(From) = Cardinality(After) + 1
        BY <1>2, <1>3, <2>1, FS_AddElement
    <2>3. Cardinality(Before) \in Nat /\ Cardinality(After) \in Nat
        BY <1>2, FS_CardinalityType
    <2>4. QED
        BY <1>4, <2>2, <2>3 DEF Before, After, Upto, From
<1>5. CASE simDoc[n] # t
    <2>1. Upto = Before /\ From = After
        BY <1>1, <1>5
    <2> HIDE DEF Before, After, Upto, From
    <2>3. Cardinality(Before) \in Nat /\ Cardinality(After) \in Nat
        BY <1>2, FS_CardinalityType
    <2>4. Cardinality(Upto) = Cardinality(Before) + 0 /\ Cardinality(From) = Cardinality(After) + 0
        BY <2>1, <2>3
    <2>5. QED
        BY <1>5, <2>3, <2>4 DEF Before, After, Upto, From
<1>6. QED
    BY <1>4, <1>5

\* The weights are those of the document, which does not change.
LEMMA SameWeights ==
    ASSUME UNCHANGED <<weighting, pairs, simDoc>>
    PROVE  /\ Range(simDoc)' = Range(simDoc) /\ DocWeights' = DocWeights /\ Fits' = Fits
           /\ \A t : WeightInDoc(t)' = WeightInDoc(t)
           /\ \A b : /\ Balanced(acc, Rest, b)' <=> Balanced(acc', Rest', b)
                     /\ Leaning(acc, Rest, b)' <=> Leaning(acc', Rest', b)
<1>1. Range(simDoc)' = Range(simDoc)
    OBVIOUS
<1>2. ASSUME NEW t PROVE WeightInDoc(t)' = WeightInDoc(t)
    BY DEF WeightInDoc, Occurrences, IdfOf
<1>3. DocWeights' = DocWeights
    BY <1>1, <1>2 DEF DocWeights
<1>4. Fits' = Fits
    BY <1>3 DEF Fits
<1>5. ASSUME NEW b PROVE Balanced(acc, Rest, b)' <=> Balanced(acc', Rest', b)
    BY <1>3 DEF Balanced
<1>6. ASSUME NEW b PROVE Leaning(acc, Rest, b)' <=> Leaning(acc', Rest', b)
    BY <1>1, <1>3 DEF Leaning
<1>7. QED
    BY <1>1, <1>2, <1>3, <1>4, <1>5, <1>6

\* One addition keeps the balance and the leaning of every bit.
LEMMA AddKeeps ==
    ASSUME SimInv, UNCHANGED <<weighting, pairs, simDoc>>,
           NEW t \in Range(simDoc), NEW w \in Int, acc' = AccumulateBits(t, w),
           Rest \in [Range(simDoc) -> Int], Rest' \in [Range(simDoc) -> Int],
           Rest'[t] = Rest[t] - w, \A u \in Range(simDoc) \ {t} : Rest'[u] = Rest[u],
           Abs(Rest'[t]) = Abs(Rest[t]) - Abs(w),
           DocWeights[t] = 0 => w = 0, DocWeights[t] > 0 => w > 0, DocWeights[t] < 0 => w < 0
    PROVE  /\ Fits' => \A b \in Bits : Balanced(acc, Rest, b)'
           /\ \A b \in Bits : Leaning(acc, Rest, b)'
           /\ acc' \in [Bits -> Integer]
<1>1. /\ simDoc \in SimDocs /\ pairs \in PairLists /\ weighting \in {"Uniform", "Tf", "IdfWeighted"}
      /\ acc \in [Bits -> Integer]
    BY DEF SimInv, SimTypeOK
<1>2. /\ Range(simDoc) \subseteq SimTokens /\ IsFiniteSet(Range(simDoc))
      /\ DocWeights \in [Range(simDoc) -> Int]
    BY <1>1, DocFacts
<1>3. ASSUME NEW b \in Bits, Fits PROVE Balanced(acc', Rest', b)
    <2>1. Balanced(acc, Rest, b)
        BY <1>3 DEF SimInv
    <2>2. Balanced(AccumulateBits(t, w), Rest', b)
        BY <1>1, <1>2, <1>3, <2>1, AddBalanced
    <2>3. QED
        BY <2>2
<1>4. ASSUME NEW b \in Bits PROVE Leaning(acc', Rest', b)
    <2>1. Leaning(acc, Rest, b)
        BY DEF SimInv
    <2>2. Leaning(AccumulateBits(t, w), Rest', b)
        BY <1>1, <1>2, <2>1, AddLeaning
    <2>3. QED
        BY <2>2
<1>5. acc' \in [Bits -> Integer]
    <2>1. MaxSum \in Nat
        BY SimHashAssumption
    <2>2. \A x \in Integer : Add(x, w) \in Integer /\ Add(x, -w) \in Integer
        BY <2>1 DEF Add, Between, Integer
    <2>3. QED
        BY <1>1, <2>2 DEF AccumulateBits
<1>6. QED
    BY <1>3, <1>4, <1>5, SameWeights

LEMMA SimNextInv == SimInv /\ [SimNext]_simVars => SimInv'
<1> SUFFICES ASSUME SimInv, [SimNext]_simVars PROVE SimInv'
    OBVIOUS
<1> DEFINE S == Range(simDoc)
<1>a. SimTypeOK /\ Counted
    BY DEF SimInv
<1>b. /\ simDoc \in SimDocs /\ pairs \in PairLists
      /\ weighting \in {"Uniform", "Tf", "IdfWeighted"}
      /\ simTaken \in 0 .. Len(simDoc) /\ acc \in [Bits -> Integer]
    BY <1>a DEF SimTypeOK
<1>c. /\ Len(simDoc) \in Nat /\ DOMAIN simDoc = 1 .. Len(simDoc)
      /\ S = {simDoc[i] : i \in 1 .. Len(simDoc)} /\ S \subseteq SimTokens
      /\ IsFiniteSet(S) /\ DocWeights \in [S -> Int]
      /\ \A t \in S : DocWeights[t] = WeightInDoc(t)
      /\ weighting = "Tf" => \A t \in S : WeightInDoc(t) = Cardinality(Occurrences(t))
      /\ weighting # "Tf" => \A t : WeightInDoc(t) = TokenWeight(t, Cardinality(Occurrences(t)))
    BY <1>b, DocFacts
<1>d. \A t \in S : WeightInDoc(t) \in Int
    BY <1>c
<1>1. CASE Streaming
    <2> USE <1>1 DEF Streaming
    <2> DEFINE t == simDoc[simTaken + 1]
               After(u) == Cardinality({i \in (simTaken + 1) + 1 .. Len(simDoc) : simDoc[i] = u})
    <2>1. t \in S /\ simTaken + 1 \in 1 .. Len(simDoc)
        BY <1>b, <1>c
    <2>2. ASSUME NEW u \in S
          PROVE  After(u) \in Nat /\ Rest[u] = After(u) + (IF u = t THEN 1 ELSE 0) /\ Rest'[u] = After(u)
        <3>1. After(u) \in Nat
            BY <1>b, OneMore
        <3>2. Cardinality({i \in simTaken + 1 .. Len(simDoc) : simDoc[i] = u})
                  = After(u) + (IF t = u THEN 1 ELSE 0)
            BY <1>b, OneMore
        <3>3. Rest[u] = Cardinality({i \in simTaken + 1 .. Len(simDoc) : simDoc[i] = u})
            BY DEF Rest
        <3>4. Rest'[u] = After(u)
            BY DEF Rest
        <3> HIDE DEF After, t
        <3>5. QED
            BY <3>1, <3>2, <3>3, <3>4
    <2>3. Rest \in [S -> Int] /\ Rest' \in [S -> Int]
        <3>1. /\ Rest = [u \in S |-> Rest[u]]
              /\ Rest' = [u \in S |-> Rest'[u]]
            BY DEF Rest
        <3> HIDE DEF After, t
        <3>2. QED
            BY <2>2, <3>1
    <2>4. DocWeights[t] > 0
        <3>1. Occurrences(t) # {} /\ Occurrences(t) \in SUBSET (1 .. Len(simDoc))
            BY <1>c, <2>1 DEF Occurrences
        <3>2. IsFiniteSet(Occurrences(t))
            <4>1. IsFiniteSet(1 .. Len(simDoc))
                BY <1>c, UptoSize
            <4>2. QED
                BY <3>1, <4>1, FS_Subset
        <3>3. Cardinality(Occurrences(t)) \in Nat /\ Cardinality(Occurrences(t)) # 0
            BY <3>1, <3>2, FS_CardinalityType, FS_EmptySet
        <3>4. DocWeights[t] = Cardinality(Occurrences(t))
            BY <1>c, <2>1
        <3>5. QED
            BY <3>3, <3>4
    <2>5. Rest'[t] = Rest[t] - 1 /\ Abs(Rest'[t]) = Abs(Rest[t]) - Abs(1)
        <3> HIDE DEF After, t
        <3>1. QED
            BY <2>1, <2>2 DEF Abs
    <2>6. \A u \in S \ {t} : Rest'[u] = Rest[u]
        <3> HIDE DEF After, t
        <3>1. QED
            BY <2>2
    <2>7. DocWeights[t] \in Int
        BY <1>c, <2>1
    <2>8. /\ Fits' => \A b \in Bits : Balanced(acc, Rest, b)'
          /\ \A b \in Bits : Leaning(acc, Rest, b)'
          /\ acc' \in [Bits -> Integer]
        <3>1. acc' = AccumulateBits(t, 1) /\ UNCHANGED <<weighting, pairs, simDoc>>
            OBVIOUS
        <3> HIDE DEF t, Streaming
        <3>2. QED
            BY <2>1, <2>3, <2>4, <2>5, <2>6, <2>7, <3>1, AddKeeps
    <2>9. SimTypeOK'
        BY <1>a, <1>c, <2>8 DEF SimTypeOK
    <2>10. Counted'
        BY <1>a DEF Counted
    <2>11. QED
        BY <2>8, <2>9, <2>10 DEF SimInv
<1>2. CASE Count
    <2> USE <1>2 DEF Count
    <2> DEFINE t == simDoc[simTaken + 1]
    <2>1. t \in S /\ t \in SimTokens /\ simTaken + 1 \in 1 .. Len(simDoc) /\ simTaken \in Nat
        BY <1>b, <1>c
    <2>2. /\ DOMAIN counts = {simDoc[i] : i \in 1 .. simTaken} /\ todo = DOMAIN counts
          /\ \A u \in todo : counts[u] = Cardinality({i \in 1 .. simTaken : simDoc[i] = u})
          /\ \A b \in Bits : acc[b] = 0
        BY <1>a DEF Counted
    <2>3. /\ todo' = todo \cup {t} /\ DOMAIN counts' = todo'
          /\ \A u \in todo' : counts'[u] = IF u = t THEN IF t \in todo THEN counts[t] + 1 ELSE 1
                                           ELSE counts[u]
        OBVIOUS
    <2>4. todo' = {simDoc[i] : i \in 1 .. simTaken + 1}
        BY <2>1, <2>2, <2>3
    <2>5. ASSUME NEW u \in todo'
          PROVE  /\ counts'[u] = Cardinality({i \in 1 .. simTaken + 1 : simDoc[i] = u})
                 /\ counts'[u] \in 1 .. Len(simDoc)
        <3> DEFINE before == Cardinality({i \in 1 .. simTaken : simDoc[i] = u})
                   upto == Cardinality({i \in 1 .. simTaken + 1 : simDoc[i] = u})
        <3>1. before \in Nat /\ upto = before + (IF t = u THEN 1 ELSE 0)
            BY <1>b, OneMore
        <3>2. u \notin todo => before = 0
            <4> SUFFICES ASSUME u \notin todo PROVE before = 0
                OBVIOUS
            <4>1. {i \in 1 .. simTaken : simDoc[i] = u} = {}
                BY <2>2
            <4>2. QED
                BY <4>1, FS_EmptySet
        <3>3. u \in todo => before = counts[u] /\ counts[u] \in 1 .. Len(simDoc)
            BY <1>a, <2>2 DEF SimTypeOK
        <3> HIDE DEF before, upto, t
        <3>4. counts'[u] = upto
            <4>1. u \in todo \/ t = u
                BY <2>3, <2>5
            <4>2. counts'[u] = IF u = t THEN IF t \in todo THEN counts[t] + 1 ELSE 1 ELSE counts[u]
                BY <2>3, <2>5
            <4>3. CASE t = u /\ u \in todo
                BY <3>1, <3>3, <4>2, <4>3
            <4>4. CASE t = u /\ u \notin todo
                BY <3>1, <3>2, <4>2, <4>4
            <4>5. CASE t # u
                BY <1>c, <3>1, <3>3, <4>1, <4>2, <4>5
            <4>6. QED
                BY <4>3, <4>4, <4>5
        <3>5. upto \in 1 .. Len(simDoc)
            <4>1. upto # 0 /\ upto \in Nat
                BY <2>3, <3>1, <3>2, <3>3
            <4>2. upto <= Len(simDoc)
                <5>1. {i \in 1 .. simTaken + 1 : simDoc[i] = u} \in SUBSET (1 .. Len(simDoc))
                    BY <1>c, <2>1
                <5>2. IsFiniteSet(1 .. Len(simDoc)) /\ Cardinality(1 .. Len(simDoc)) = Len(simDoc)
                    BY <1>c, UptoSize
                <5>3. Cardinality({i \in 1 .. simTaken + 1 : simDoc[i] = u}) <= Cardinality(1 .. Len(simDoc))
                    BY <5>1, <5>2, FS_Subset
                <5>4. QED
                    BY <5>2, <5>3 DEF upto
            <4>3. QED
                BY <1>c, <4>1, <4>2
        <3>6. QED
            BY <3>4, <3>5 DEF upto
    <2>6. todo' \subseteq SimTokens
        <3> HIDE DEF t
        <3>1. QED
            BY <1>a, <2>1, <2>3 DEF SimTypeOK, Counted
    <2>7. SimTypeOK'
        <3>1. simTaken' \in 0 .. Len(simDoc)
            BY <2>1
        <3>2. /\ todo' \subseteq DOMAIN counts' /\ DOMAIN counts' \subseteq SimTokens
              /\ \A u \in DOMAIN counts' : counts'[u] \in 1 .. Len(simDoc)
            BY <2>3, <2>5, <2>6
        <3>3. UNCHANGED <<weighting, pairs, simDoc, acc, simOutcome>>
            OBVIOUS
        <3> HIDE DEF Count
        <3>4. QED
            BY <1>a, <3>1, <3>2, <3>3 DEF SimTypeOK
    <2>8. Counted'
        <3>1. /\ UNCHANGED <<weighting, pairs, simDoc, acc, simOutcome>> /\ weighting # "Tf"
              /\ simOutcome = "none" /\ simTaken' = simTaken + 1
            OBVIOUS
        <3>2. /\ DOMAIN counts' = todo' /\ todo' = {simDoc[i] : i \in 1 .. simTaken'}
              /\ \A u \in todo' : counts'[u] = Cardinality({i \in 1 .. simTaken' : simDoc[i] = u})
            BY <2>3, <2>4, <2>5
        <3> HIDE DEF Count
        <3>3. QED
            BY <2>2, <3>1, <3>2 DEF Counted
    <2>9. Rest' = Rest
        <3>1. ASSUME NEW u \in S PROVE Rest'[u] = Rest[u]
            <4>1. Rest[u] = WeightInDoc(u)
                BY <1>b DEF Rest
            <4>2. simTaken' < Len(simDoc) \/ u \in todo'
                BY <1>b, <1>c, <2>4
            <4>3. WeightInDoc(u)' = WeightInDoc(u)
                BY SameWeights
            <4>4. Rest'[u] = WeightInDoc(u)'
                BY <4>2 DEF Rest
            <4>5. QED
                BY <4>1, <4>3, <4>4
        <3>2. Rest = [u \in S |-> Rest[u]] /\ Rest' = [u \in S |-> Rest'[u]]
            BY DEF Rest
        <3>3. QED
            BY <3>1, <3>2
    <2>10. /\ Fits' => \A b \in Bits : Balanced(acc, Rest, b)'
           /\ \A b \in Bits : Leaning(acc, Rest, b)'
        <3>1. UNCHANGED <<weighting, pairs, simDoc>> /\ acc' = acc
            OBVIOUS
        <3> HIDE DEF Count
        <3>2. QED
            BY <2>9, <3>1, SameWeights DEF SimInv
    <2>11. QED
        BY <2>7, <2>8, <2>10 DEF SimInv
<1>3. ASSUME NEW t \in SimTokens, AddDistinct(t) PROVE SimInv'
    <2> USE <1>3 DEF AddDistinct
    <2>1. /\ weighting # "Tf" /\ t \in DOMAIN counts
          /\ DOMAIN counts = {simDoc[i] : i \in 1 .. simTaken}
          /\ counts[t] = Cardinality({i \in 1 .. simTaken : simDoc[i] = t})
        BY <1>a DEF Counted
    <2>2. t \in S
        BY <1>b, <1>c, <2>1
    <2>3. counts[t] = Cardinality(Occurrences(t))
        BY <1>c, <2>1 DEF Occurrences
    <2> DEFINE w == TokenWeight(t, counts[t])
    <2>4. w = WeightInDoc(t) /\ w \in Int /\ DocWeights[t] = w
        BY <1>c, <1>d, <2>1, <2>2, <2>3
    <2>5. ASSUME NEW u \in S
          PROVE  /\ Rest[u] = IF u \in todo THEN WeightInDoc(u) ELSE 0
                 /\ Rest'[u] = IF u \in todo' THEN WeightInDoc(u) ELSE 0
        <3>1. ~(simTaken < Len(simDoc)) /\ ~(simTaken' < Len(simDoc'))
            BY <1>b, <1>c
        <3>2. WeightInDoc(u)' = WeightInDoc(u)
            BY SameWeights
        <3>3. Rest[u] = IF u \in todo THEN WeightInDoc(u) ELSE 0
            BY <2>1, <3>1 DEF Rest
        <3>4. Rest'[u] = IF u \in todo' THEN WeightInDoc(u)' ELSE 0
            BY <2>1, <3>1 DEF Rest
        <3>5. QED
            BY <3>2, <3>3, <3>4
    <2>6. Rest \in [S -> Int] /\ Rest' \in [S -> Int]
        <3>1. Rest = [u \in S |-> Rest[u]] /\ Rest' = [u \in S |-> Rest'[u]]
            BY DEF Rest
        <3>2. \A u \in S : Rest[u] \in Int /\ Rest'[u] \in Int
            BY <1>d, <2>5
        <3>3. QED
            BY <3>1, <3>2
    <2>7. todo' = todo \ {t} /\ t \in todo
        OBVIOUS
    <2>8. Rest'[t] = Rest[t] - w /\ Abs(Rest'[t]) = Abs(Rest[t]) - Abs(w)
        <3>1. Rest[t] = w /\ Rest'[t] = 0
            BY <2>2, <2>4, <2>5, <2>7
        <3> HIDE DEF w
        <3>2. QED
            BY <2>4, <3>1 DEF Abs
    <2>9. \A u \in S \ {t} : Rest'[u] = Rest[u]
        BY <2>5, <2>7
    <2>10. /\ Fits' => \A b \in Bits : Balanced(acc, Rest, b)'
           /\ \A b \in Bits : Leaning(acc, Rest, b)'
           /\ acc' \in [Bits -> Integer]
        <3>1. acc' = AccumulateBits(t, w) /\ UNCHANGED <<weighting, pairs, simDoc>>
            OBVIOUS
        <3> HIDE DEF w, AddDistinct
        <3>2. QED
            BY <2>2, <2>4, <2>6, <2>8, <2>9, <3>1, AddKeeps
    <2>11. SimTypeOK'
        BY <1>a, <1>b, <2>10 DEF SimTypeOK
    <2>12. Counted'
        BY <1>a, <1>b, <2>1 DEF Counted
    <2>13. QED
        BY <2>10, <2>11, <2>12 DEF SimInv
<1>4. CASE SimFinish
    <2> USE <1>4 DEF SimFinish
    <2>1. SimTypeOK' /\ Counted'
        BY <1>a, <1>b DEF SimTypeOK, Counted
    <2>2. Rest' = Rest
        <3>1. \A u : WeightInDoc(u)' = WeightInDoc(u)
            BY SameWeights
        <3>2. QED
            BY <3>1 DEF Rest
    <2>3. /\ Fits' => \A b \in Bits : Balanced(acc, Rest, b)'
          /\ \A b \in Bits : Leaning(acc, Rest, b)'
        BY <2>2, SameWeights DEF SimInv
    <2>4. QED
        BY <2>1, <2>3 DEF SimInv
<1>5. CASE UNCHANGED simVars
    <2> USE <1>5 DEF simVars
    <2>1. SimTypeOK' /\ Counted'
        BY <1>a DEF SimTypeOK, Counted
    <2>2. Rest' = Rest
        <3>1. \A u : WeightInDoc(u)' = WeightInDoc(u)
            BY SameWeights
        <3>2. QED
            BY <3>1 DEF Rest
    <2>3. /\ Fits' => \A b \in Bits : Balanced(acc, Rest, b)'
          /\ \A b \in Bits : Leaning(acc, Rest, b)'
        BY <2>2, SameWeights DEF SimInv
    <2>4. QED
        BY <2>1, <2>3 DEF SimInv
<1>6. QED
    BY <1>1, <1>2, <1>3, <1>4, <1>5 DEF SimNext

LEMMA SimInvariance == SimSpec => []SimInv
BY SimInitInv, SimNextInv, PTL DEF SimSpec

\* When a sketch is returned nothing is left to add.
LEMMA NothingLeft ==
    ASSUME SimInv, simOutcome = "ok"
    PROVE  /\ Rest \in [Range(simDoc) -> Int]
           /\ \A t \in Range(simDoc) : Rest[t] = 0
<1>1. simTaken = Len(simDoc) /\ todo = {}
    BY DEF SimInv, Counted
<1>2. /\ simDoc \in SimDocs /\ pairs \in PairLists
      /\ weighting \in {"Uniform", "Tf", "IdfWeighted"}
    BY DEF SimInv, SimTypeOK
<1>3. Len(simDoc) \in Nat
    BY <1>2, DocFacts
<1>4. ASSUME NEW t \in Range(simDoc) PROVE Rest[t] = 0
    <2>1. {i \in simTaken + 1 .. Len(simDoc) : simDoc[i] = t} = {}
        BY <1>1, <1>3
    <2>2. Cardinality({i \in simTaken + 1 .. Len(simDoc) : simDoc[i] = t}) = 0
        BY <2>1, FS_EmptySet
    <2>3. ~(simTaken < Len(simDoc))
        BY <1>1, <1>3
    <2>4. QED
        BY <1>1, <2>2, <2>3 DEF Rest
<1>5. Rest = [t \in Range(simDoc) |-> Rest[t]]
    BY DEF Rest
<1>6. QED
    BY <1>4, <1>5

(* As long as the magnitudes of a document's weights add up to a machine integer, no
   order of additions saturates an accumulator, and the sketch holds the signs of the
   exact sums; and a document is refused exactly if it has no token.  For any
   documents, hashes, IDF tables, word sizes and clamps. *)
THEOREM ExactSums == SimSpec => []ExactBelowSaturation
<1>1. SimInv => ExactBelowSaturation
    <2> SUFFICES ASSUME SimInv PROVE ExactBelowSaturation
        OBVIOUS
    <2> DEFINE S == Range(simDoc)
    <2>1. /\ simDoc \in SimDocs /\ pairs \in PairLists
          /\ weighting \in {"Uniform", "Tf", "IdfWeighted"} /\ acc \in [Bits -> Integer]
        BY DEF SimInv, SimTypeOK
    <2>2. Len(simDoc) \in Nat /\ IsFiniteSet(S) /\ DocWeights \in [S -> Int]
        BY <2>1, DocFacts
    <2>3. ASSUME simOutcome = "ok", Fits, NEW b \in Bits
          PROVE  acc[b] = ExactSum(DocWeights, b)
        <3>1. Rest \in [S -> Int] /\ \A t \in S : Rest[t] = 0
            BY <2>3, NothingLeft
        <3>2. For(Rest, b) \in [S -> Int] /\ \A t \in S : For(Rest, b)[t] = 0
            BY <3>1 DEF For
        <3>3. SumOf(For(Rest, b)) = 0
            BY <2>2, <3>2, SumOfZeros
        <3>4. acc[b] + SumOf(For(Rest, b)) = SumOf(For(DocWeights, b))
            BY <2>3 DEF SimInv, Balanced
        <3>5. acc[b] \in Int
            BY <2>1, SimHashAssumption DEF Integer
        <3>6. QED
            BY <3>3, <3>4, <3>5 DEF ExactSum
    <2>4. simOutcome = "ok" /\ Fits => Sketch = {b \in Bits : ExactSum(DocWeights, b) > 0}
        BY <2>3 DEF Sketch
    <2>5. simOutcome # "none" => (simOutcome = "error" <=> simDoc = << >>)
        <3> SUFFICES ASSUME simOutcome # "none" PROVE simOutcome = "error" <=> simDoc = << >>
            OBVIOUS
        <3>1. simTaken = Len(simDoc) /\ (simOutcome = "ok" <=> simTaken > 0)
            BY DEF SimInv, Counted
        <3>2. simOutcome \in {"ok", "error"}
            BY DEF SimInv, SimTypeOK
        <3>3. simDoc = << >> <=> Len(simDoc) = 0
            BY <2>1, SimHashAssumption
        <3>4. QED
            BY <2>2, <3>1, <3>2, <3>3
    <2>6. QED
        BY <2>4, <2>5 DEF ExactBelowSaturation
<1>2. QED
    BY <1>1, SimInvariance, PTL

(* Sums that saturate keep their sign, whichever order the map hands the tokens out in:
   a bit all tokens agree on is what they agree on. *)
THEOREM SignsSurvive == SimSpec => []UnanimousEvenSaturated
<1>1. SimInv => UnanimousEvenSaturated
    <2> SUFFICES ASSUME SimInv, simOutcome = "ok", NEW b \in Bits
                 PROVE  /\ (\A t \in Range(simDoc) : For(DocWeights, b)[t] >= 0)
                              /\ (\E t \in Range(simDoc) : For(DocWeights, b)[t] > 0)
                           => b \in Sketch
                        /\ (\A t \in Range(simDoc) : For(DocWeights, b)[t] <= 0) => b \notin Sketch
        BY DEF UnanimousEvenSaturated
    <2> DEFINE S == Range(simDoc)
               for == For(DocWeights, b)
    <2>1. /\ simDoc \in SimDocs /\ pairs \in PairLists
          /\ weighting \in {"Uniform", "Tf", "IdfWeighted"} /\ acc \in [Bits -> Integer]
        BY DEF SimInv, SimTypeOK
    <2>2. DocWeights \in [S -> Int]
        BY <2>1, DocFacts
    <2>3. \A t \in S : Rest[t] = 0
        BY NothingLeft
    <2>4. \A t \in S : for[t] > 0 => DocWeights[t] # 0
        BY <2>2 DEF For
    <2>5. /\ (\A t \in S : for[t] >= 0) => acc[b] > 0 \/ \A t \in S : for[t] > 0 => Rest[t] = DocWeights[t]
          /\ (\A t \in S : for[t] <= 0) => acc[b] <= 0
        BY DEF SimInv, Leaning
    <2>6. acc[b] \in Int
        BY <2>1, SimHashAssumption DEF Integer
    <2> HIDE DEF for
    <2>7. (\A t \in S : for[t] >= 0) /\ (\E t \in S : for[t] > 0) => b \in Sketch
        BY <2>3, <2>4, <2>5 DEF Sketch
    <2>8. (\A t \in S : for[t] <= 0) => b \notin Sketch
        BY <2>5, <2>6 DEF Sketch
    <2>9. QED
        BY <2>7, <2>8 DEF for
<1>2. QED
    BY <1>1, SimInvariance, PTL

-----------------------------------------------------------------------------
(* A stored SimHash.  Byte n \div ByteBits of a word holds its bit n. *)

LEMMA BitPlace ==
    ASSUME NEW n \in BitNumbers
    PROVE  \E q \in Nat, r \in 0 .. ByteBits - 1 :
               /\ q = n \div ByteBits /\ r = n % ByteBits
               /\ q + 1 \in 1 .. Width /\ q * ByteBits + r = n
<1> DEFINE q == n \div ByteBits
           r == n % ByteBits
<1>1. ByteBits \in Nat \ {0} /\ Width \in Nat /\ n \in Nat /\ n < Width * ByteBits
    <2>1. ByteBits \in Nat \ {0} /\ Width \in Nat
        BY WordAssumption
    <2>2. Width * ByteBits \in Nat
        BY <2>1
    <2>3. QED
        BY <2>1, <2>2 DEF BitNumbers
<1>2. q \in Nat /\ r \in 0 .. ByteBits - 1 /\ n = ByteBits * q + r
    BY <1>1
<1>6. q = n \div ByteBits /\ r = n % ByteBits
    OBVIOUS
<1> HIDE DEF q, r
<1>3. ByteBits * q = q * ByteBits
    BY <1>1, <1>2
<1>4. q < Width
    <2> SUFFICES ASSUME Width <= q PROVE FALSE
        BY <1>1, <1>2
    <2>1. PICK more \in Nat : q = Width + more
        BY <1>1, <1>2
    <2>2. q * ByteBits = Width * ByteBits + more * ByteBits /\ more * ByteBits >= 0
        BY <1>1, <2>1
    <2>3. QED
        BY <1>1, <1>2, <1>3, <2>2
<1>5. q + 1 \in 1 .. Width /\ q * ByteBits + r = n
    BY <1>1, <1>2, <1>3, <1>4
<1>7. QED
    BY <1>2, <1>5, <1>6, Zenon

LEMMA BytesHoldTheWord ==
    ASSUME NEW s, s = NewSimHash(s.bits), s.bits \subseteq BitNumbers
    PROVE  Len(AsBytes(s)) = Width /\ FromBytes(AsBytes(s)) = s
<1> DEFINE bs == AsBytes(s)
           Bit(n) == n % ByteBits
           Byte(n) == (n \div ByteBits) + 1
<1>1. Len(bs) = Width
    BY WordAssumption DEF AsBytes
<1>2. ASSUME NEW n \in BitNumbers PROVE Bit(n) \in bs[Byte(n)] <=> n \in s.bits
    <2>1. PICK q \in Nat, r \in 0 .. ByteBits - 1 :
              /\ q = n \div ByteBits /\ r = n % ByteBits
              /\ q + 1 \in 1 .. Width /\ q * ByteBits + r = n
        BY BitPlace
    <2>2. Bit(n) = r /\ Byte(n) = q + 1
        BY <2>1, Zenon
    <2> HIDE DEF Bit, Byte
    <2>3. (q + 1) - 1 = q
        OBVIOUS
    <2>4. bs[q + 1] = {b \in 0 .. ByteBits - 1 : ((q + 1) - 1) * ByteBits + b \in s.bits}
        BY <2>1 DEF AsBytes
    <2>5. QED
        BY <2>1, <2>2, <2>3, <2>4
<1>3. {n \in BitNumbers : Bit(n) \in bs[Byte(n)]} = s.bits
    BY <1>2
<1>4. FromBytes(bs) = Sig({n \in BitNumbers : Bit(n) \in bs[Byte(n)]})
    BY <1>1 DEF FromBytes
<1> HIDE DEF bs
<1>5. FromBytes(bs) = s
    BY <1>3, <1>4 DEF NewSimHash
<1>6. QED
    BY <1>1, <1>5 DEF bs

\* The inductive invariant: bytes of the right number are those of the signature.
StInv ==
    /\ sig = NewSimHash(sig.bits) /\ sig.bits \subseteq BitNumbers
    /\ Len(bytes) = Width => bytes = AsBytes(sig)
    /\ loaded # Unread => loaded = FromBytes(bytes)

LEMMA StoredInvariance == StoredSpec => []StInv
<1>1. StoredInit => StInv
    <2> SUFFICES ASSUME StoredInit PROVE StInv
        OBVIOUS
    <2>1. PICK bits \in SUBSET BitNumbers : sig = NewSimHash(bits)
        BY DEF StoredInit
    <2>2. sig.bits = bits
        BY <2>1 DEF NewSimHash, Sig
    <2>3. QED
        BY <2>1, <2>2 DEF StoredInit, StInv
<1>2. StInv /\ [StoredNext]_storedVars => StInv'
    <2> SUFFICES ASSUME StInv, [StoredNext]_storedVars PROVE StInv'
        OBVIOUS
    <2>1. CASE Resize
        <3>1. sig' = sig /\ loaded = Unread /\ loaded' = Unread /\ Len(bytes) = Width
            BY <2>1 DEF Resize
        <3>2. bytes = AsBytes(sig) /\ bytes \in Seq(SUBSET (0 .. ByteBits - 1))
            BY <3>1, WordAssumption DEF StInv, AsBytes
        <3>3. Len(bytes') # Width
            <4>1. CASE \E n \in 0 .. Width - 1 : bytes' = SubSeq(bytes, 1, n)
                <5>1. PICK n \in 0 .. Width - 1 : bytes' = SubSeq(bytes, 1, n)
                    BY <4>1
                <5>2. n \in Nat /\ n < Width
                    BY WordAssumption
                <5>3. Len(SubSeq(bytes, 1, n)) = n
                    BY <3>1, <3>2, <5>2
                <5>4. QED
                    BY <5>1, <5>2, <5>3
            <4>2. CASE bytes' = Append(bytes, {})
                BY <3>1, <3>2, <4>2, WordAssumption
            <4>3. QED
                BY <2>1, <4>1, <4>2 DEF Resize
        <3>4. QED
            BY <3>1, <3>3 DEF StInv
    <2>2. CASE Load
        BY <2>2 DEF Load, StInv
    <2>3. CASE UNCHANGED storedVars
        BY <2>3 DEF storedVars, StInv
    <2>4. QED
        BY <2>1, <2>2, <2>3 DEF StoredNext
<1>3. QED
    BY <1>1, <1>2, PTL DEF StoredSpec

\* The distance of two words is zero only between equals and full only to the complement.
LEMMA Distances ==
    ASSUME NEW x \in SUBSET BitNumbers, NEW y \in SUBSET BitNumbers
    PROVE  /\ Hamming(Sig(x), Sig(y)) = Hamming(Sig(y), Sig(x))
           /\ Hamming(Sig(x), Sig(y)) = 0 <=> x = y
           /\ Hamming(Sig(x), Sig(y)) = Width * ByteBits <=> y = BitNumbers \ x
<1> DEFINE D == (x \ y) \cup (y \ x)
           size == Width * ByteBits
<1>1. Hamming(Sig(x), Sig(y)) = Cardinality(D)
    BY DEF Hamming, Sig
<1>2. Hamming(Sig(y), Sig(x)) = Cardinality(D)
    <2>1. (y \ x) \cup (x \ y) = D
        OBVIOUS
    <2>2. QED
        BY <2>1 DEF Hamming, Sig
<1>3. size \in Nat
    BY WordAssumption
<1> HIDE DEF size
<1>4. IsFiniteSet(BitNumbers) /\ Cardinality(BitNumbers) = size
    <2>1. BitNumbers = 0 .. size - 1
        BY DEF BitNumbers, size
    <2>2. IsFiniteSet(0 .. size - 1) /\ Cardinality(0 .. size - 1) = size
        BY <1>3, FS_Interval
    <2>3. QED
        BY <2>1, <2>2
<1>5. D \in SUBSET BitNumbers
    OBVIOUS
<1>6. D = {} <=> x = y
    OBVIOUS
<1>7. D = BitNumbers <=> y = BitNumbers \ x
    OBVIOUS
<1> HIDE DEF D
<1>8. IsFiniteSet(D)
    BY <1>4, <1>5, FS_Subset
<1>9. Cardinality(D) = 0 <=> D = {}
    BY <1>8, FS_EmptySet
<1>10. Cardinality(D) = size <=> D = BitNumbers
    BY <1>4, <1>5, FS_Subset
<1>11. QED
    BY <1>1, <1>2, <1>6, <1>7, <1>9, <1>10 DEF size

(* A stored SimHash that was cut or padded is refused; any other loads as the word that
   was stored, so that it lies where that word lay from every other word: for words of
   any number of bytes of any size. *)
THEOREM StoredLoads == StoredSpec => []LoadsOrRefuses
<1>1. StInv => LoadsOrRefuses
    <2> SUFFICES ASSUME StInv, loaded # Unread PROVE
                    /\ loaded = Refused <=> Len(bytes) # Width
                    /\ loaded # Refused =>
                          \A bits \in SUBSET BitNumbers :
                              /\ CosineAngle(loaded, NewSimHash(bits)) = CosineAngle(NewSimHash(bits), sig)
                              /\ CosineAngle(loaded, NewSimHash(bits))[1] = 0 <=> bits = BitsOf(sig)
                              /\ CosineAngle(loaded, NewSimHash(bits))[1] = Width * ByteBits
                                    <=> bits = BitNumbers \ BitsOf(sig)
        BY DEF LoadsOrRefuses
    <2>1. loaded = FromBytes(bytes)
        BY DEF StInv
    <2>2. CASE Len(bytes) # Width
        BY <2>1, <2>2 DEF FromBytes
    <2>3. CASE Len(bytes) = Width
        <3>1. loaded = sig /\ sig = Sig(BitsOf(sig)) /\ BitsOf(sig) \in SUBSET BitNumbers
            BY <2>1, <2>3, BytesHoldTheWord DEF StInv, NewSimHash, BitsOf
        <3>2. sig # Refused
            BY <3>1 DEF Sig, Refused
        <3> DEFINE own == BitsOf(sig)
        <3>3. ASSUME NEW bits \in SUBSET BitNumbers
              PROVE  /\ CosineAngle(Sig(own), Sig(bits)) = CosineAngle(Sig(bits), Sig(own))
                     /\ CosineAngle(Sig(own), Sig(bits))[1] = 0 <=> bits = own
                     /\ CosineAngle(Sig(own), Sig(bits))[1] = Width * ByteBits
                           <=> bits = BitNumbers \ own
            BY <3>1, Distances DEF CosineAngle
        <3>4. QED
            BY <2>3, <3>1, <3>2, <3>3 DEF NewSimHash
    <2>4. QED
        BY <2>2, <2>3
<1>2. QED
    BY <1>1, StoredInvariance, PTL

-----------------------------------------------------------------------------
(* TLSH. *)

\* The inductive invariant: a fingerprint nobody wrote into is one that tlsh2 reads.
TlInv ==
    /\ given = None => fingerprint = None /\ distance = None
    /\ given # None /\ ~tampered /\ fingerprint # Refusal => fingerprint = WellFormed
    /\ TlshSound

LEMMA MadeIsRead ==
    /\ \A s \in Strings : NewTlsh(s) # Refusal => NewTlsh(s) = WellFormed
    /\ NewTlsh(WellFormed) = WellFormed /\ WellFormed # Refusal
<1>1. ASSUME NEW s \in Strings, NewTlsh(s) # Refusal PROVE NewTlsh(s) = WellFormed
    <2>1. s \in [len : Nat, prefixed : BOOLEAN, hexadecimal : BOOLEAN]
        BY TlshAssumption
    <2>2. s.len = EXPECTED_LEN /\ s.prefixed = TRUE /\ s.hexadecimal = TRUE /\ NewTlsh(s) = s
        BY <1>1, <2>1 DEF NewTlsh
    <2>3. QED
        BY <2>1, <2>2 DEF WellFormed
<1>2. QED
    BY <1>1 DEF NewTlsh, WellFormed, Refusal

LEMMA MakeTlInv ==
    ASSUME TlInv, NEW call \in {"fingerprint", "sketch_bytes", "new"},
           NEW argument \in Texts \cup Strings, NEW made, Make(call, argument, made),
           made # Refusal => made = WellFormed,
           call # "new" =>
               LET hashed == IF call = "fingerprint" THEN argument.canonical ELSE argument.length
               IN  made # Refusal <=> hashed >= MIN_INPUT_BYTES /\ argument.varied
    PROVE  TlInv'
<1>1. given' = <<call, argument>> /\ fingerprint' = made /\ distance' = None
    BY DEF Make, TlInv
<1>2. given' # None
    BY <1>1, TlshAssumption
<1>3. FingerprintsCompare'
    BY <1>1 DEF FingerprintsCompare
<1>4. LengthOfWhatIsHashed'
    BY <1>1 DEF LengthOfWhatIsHashed
<1>5. QED
    BY <1>1, <1>2, <1>3, <1>4 DEF TlInv, TlshSound

LEMMA TlshInvariance == TlshSpec => []TlInv
<1>1. TlshInit => TlInv
    BY DEF TlshInit, TlInv, TlshSound, FingerprintsCompare, LengthOfWhatIsHashed
<1>2. TlInv /\ [TlshNext]_tlshVars => TlInv'
    <2> SUFFICES ASSUME TlInv, [TlshNext]_tlshVars PROVE TlInv'
        OBVIOUS
    <2>1. CASE FromText
        <3>1. PICK text \in Texts : Make("fingerprint", text, Fingerprint(text))
            BY <2>1 DEF FromText
        <3>2. /\ MIN_INPUT_BYTES \in Nat \ {0} /\ text.length \in Nat /\ text.canonical \in Nat
              /\ text.varied \in BOOLEAN /\ (text.length = 0 => text.canonical = 0)
            BY TlshAssumption
        <3>3. /\ Fingerprint(text) # Refusal => Fingerprint(text) = WellFormed
              /\ Fingerprint(text) # Refusal <=> text.canonical >= MIN_INPUT_BYTES /\ text.varied
            BY <3>2, MadeIsRead DEF Fingerprint, SketchBytes
        <3>4. QED
            BY <3>1, <3>3, MakeTlInv
    <2>2. CASE FromRawBytes
        <3>1. PICK text \in Texts : Make("sketch_bytes", text, SketchBytes(text.length, text.varied))
            BY <2>2 DEF FromRawBytes
        <3>2. MIN_INPUT_BYTES \in Nat /\ text.length \in Nat /\ text.varied \in BOOLEAN
            BY TlshAssumption
        <3> DEFINE made == SketchBytes(text.length, text.varied)
        <3>3. /\ made # Refusal => made = WellFormed
              /\ made # Refusal <=> text.length >= MIN_INPUT_BYTES /\ text.varied
            BY <3>2, MadeIsRead DEF SketchBytes
        <3>4. QED
            BY <3>1, <3>3, MakeTlInv
    <2>3. CASE FromString
        <3>1. PICK s \in Strings : Make("new", s, NewTlsh(s))
            BY <2>3 DEF FromString
        <3>2. QED
            BY <3>1, MadeIsRead, MakeTlInv
    <2>4. CASE Tamper
        BY <2>4 DEF Tamper, TlInv, TlshSound, FingerprintsCompare, LengthOfWhatIsHashed
    <2>5. CASE TlshDistance
        <3>1. UNCHANGED <<given, fingerprint, tampered>> /\ given # None
            BY <2>5 DEF TlshDistance, TlInv
        <3>2. distance' # Refusal <=> Parses(fingerprint)
            BY <2>5 DEF TlshDistance, Refusal
        <3>3. ~tampered => Parses(fingerprint)
            BY <2>5 DEF TlshDistance, TlInv, Parses
        <3>4. FingerprintsCompare'
            BY <3>1, <3>2, <3>3 DEF FingerprintsCompare, Parses
        <3>5. LengthOfWhatIsHashed'
            BY <3>1 DEF TlInv, TlshSound, LengthOfWhatIsHashed
        <3>6. QED
            BY <3>1, <3>4, <3>5 DEF TlInv, TlshSound
    <2>6. CASE UNCHANGED tlshVars
        BY <2>6 DEF tlshVars, TlInv, TlshSound, FingerprintsCompare, LengthOfWhatIsHashed, Parses
    <2>7. QED
        BY <2>1, <2>2, <2>3, <2>4, <2>5, <2>6 DEF TlshNext
<1>3. QED
    BY <1>1, <1>2, PTL DEF TlshSpec

(* Whatever was made, tampered with or compared, and whatever the texts and strings are:
   a fingerprint is refused by the length of what is hashed, and every one that was not
   written over can be compared. *)
THEOREM TlshIsSound == TlshSpec => []TlshSound
<1>1. TlInv => TlshSound
    BY DEF TlInv
<1>2. QED
    BY <1>1, TlshInvariance, PTL

-----------------------------------------------------------------------------
(* MurmurHash3.  A word and a run of blocks are made by the same kind of loop. *)

MixStep(kind, k, last, i) ==
    IF kind = "word" THEN k[Len(k) + 1 - i] + Base * last
    ELSE Block(last, Lane(k, 2 * i - 2), Lane(k, 2 * i - 1))

MixRow(F, kind, k, from, m) ==
    F = [i \in 0 .. m |-> IF i = 0 THEN from ELSE MixStep(kind, k, F[i - 1], i)]

WordRow(F, run) ==
    F = [i \in 0 .. Len(run) |-> IF i = 0 THEN 0 ELSE run[Len(run) + 1 - i] + Base * F[i - 1]]

BodyRow(F, k, s) ==
    F = [n \in 0 .. NBlocks(k) |->
            IF n = 0 THEN << <<"seed", s>>, <<"seed", s>> >>
            ELSE Block(F[n - 1], Lane(k, 2 * n - 2), Lane(k, 2 * n - 1))]

LEMMA MixRowExists ==
    ASSUME NEW kind, NEW k, NEW from
    PROVE  \A m \in Nat : \E F : MixRow(F, kind, k, from, m)
<1> DEFINE S == {m \in Nat : \E F : MixRow(F, kind, k, from, m)}
<1>1. 0 \in S
    <2> DEFINE F == [i \in 0 .. 0 |-> from]
    <2>1. MixRow(F, kind, k, from, 0)
        BY DEF MixRow
    <2>2. QED
        BY <2>1
<1>2. ASSUME NEW m \in Nat, m \in S PROVE m + 1 \in S
    <2>1. PICK F : MixRow(F, kind, k, from, m)
        BY <1>2
    <2> DEFINE next == MixStep(kind, k, F[m], m + 1)
               G == [i \in 0 .. m + 1 |-> IF i <= m THEN F[i] ELSE next]
    <2>2. \A i \in 0 .. m : F[i] = IF i = 0 THEN from ELSE MixStep(kind, k, F[i - 1], i)
        BY <2>1 DEF MixRow
    <2> HIDE DEF next
    <2>3. /\ \A i \in 0 .. m : G[i] = F[i]
          /\ G[m + 1] = next /\ G = [i \in 0 .. m + 1 |-> G[i]]
        OBVIOUS
    <2> HIDE DEF G
    <2>4. ASSUME NEW i \in 0 .. m + 1
          PROVE  G[i] = IF i = 0 THEN from ELSE MixStep(kind, k, G[i - 1], i)
        <3>1. CASE i = 0
            <4>1. 0 \in 0 .. m
                OBVIOUS
            <4>2. F[0] = from
                BY <2>2, <4>1
            <4>3. QED
                BY <2>3, <3>1, <4>1, <4>2
        <3>2. CASE i # 0 /\ i <= m
            <4>1. i \in 0 .. m /\ i - 1 \in 0 .. m
                BY <3>2
            <4>2. F[i] = MixStep(kind, k, F[i - 1], i)
                BY <2>2, <3>2, <4>1
            <4>3. QED
                BY <2>3, <3>2, <4>1, <4>2
        <3>3. CASE i = m + 1
            <4>1. i # 0 /\ i - 1 = m /\ m \in 0 .. m
                BY <3>3
            <4>2. QED
                BY <2>3, <3>3, <4>1 DEF next
        <3>4. QED
            BY <3>1, <3>2, <3>3
    <2>5. MixRow(G, kind, k, from, m + 1)
        BY <2>3, <2>4 DEF MixRow
    <2>6. m + 1 \in Nat
        OBVIOUS
    <2>7. QED
        BY <2>5, <2>6
<1> HIDE DEF S
<1>3. \A m \in Nat : m \in S
    BY <1>1, <1>2, SetInduction
<1>4. QED
    BY <1>3 DEF S

LEMMA WordIs ==
    ASSUME NEW run \in Seq(Bytes)
    PROVE  \E F : WordRow(F, run) /\ Word(run) = F[Len(run)]
<1> DEFINE F == CHOOSE F : WordRow(F, run)
<1>1. \A G : WordRow(G, run) <=> MixRow(G, "word", run, 0, Len(run))
    BY DEF WordRow, MixRow, MixStep
<1>2. Len(run) \in Nat
    OBVIOUS
<1>3. WordRow(F, run)
    BY <1>1, <1>2, MixRowExists
<1>4. Word(run) = F[Len(run)]
    BY Zenon DEF Word, WordRow
<1>5. QED
    BY <1>3, <1>4

LEMMA BodyIs ==
    ASSUME NEW k, NEW s, NBlocks(k) \in Nat
    PROVE  \E F : BodyRow(F, k, s) /\ Body(k, s) = F[NBlocks(k)]
<1> DEFINE F == CHOOSE F : BodyRow(F, k, s)
<1>1. \A G : BodyRow(G, k, s) <=> MixRow(G, "block", k, << <<"seed", s>>, <<"seed", s>> >>, NBlocks(k))
    BY DEF BodyRow, MixRow, MixStep
<1>2. BodyRow(F, k, s)
    BY <1>1, MixRowExists
<1>3. Body(k, s) = F[NBlocks(k)]
    BY Zenon DEF Body, BodyRow
<1>4. QED
    BY <1>2, <1>3

\* A number's last digit and the rest of it.
LEMMA DigitAndRest ==
    ASSUME NEW b \in Nat \ {0}, NEW d \in 0 .. b - 1, NEW e \in 0 .. b - 1,
           NEW x \in Nat, NEW y \in Nat, d + b * x = e + b * y
    PROVE  d = e /\ x = y
<1>1. b * x \in Nat /\ b * y \in Nat
    OBVIOUS
<1>2. d = e
    <2>1. d + b * x \in Nat /\ d + b * x = b * x + d /\ d + b * x = b * y + e
        BY <1>1
    <2>2. (d + b * x) % b = d
        BY <2>1, RemainderUnique, Zenon
    <2>3. (d + b * x) % b = e
        BY <2>1, RemainderUnique, Zenon
    <2>4. QED
        BY <2>2, <2>3
<1>3. b * x = b * y
    BY <1>1, <1>2
<1>4. x = y
    <2>1. ASSUME NEW u \in Nat, NEW v \in Nat, u < v PROVE b * u # b * v
        BY <2>1, Z3
    <2>2. x < y \/ y < x \/ x = y
        OBVIOUS
    <2>3. QED
        BY <1>3, <2>1, <2>2
<1>5. QED
    BY <1>2, <1>4

\* Bytes of the same number make the same word only if they are the same.
LEMMA WordTellsBytes ==
    ASSUME NEW u \in Seq(Bytes), NEW v \in Seq(Bytes), Len(u) = Len(v), Word(u) = Word(v)
    PROVE  u = v
<1> DEFINE n == Len(u)
<1>n. n \in Nat /\ Len(v) = n
    OBVIOUS
<1>u. u = [i \in 1 .. n |-> u[i]] /\ v = [i \in 1 .. n |-> v[i]]
    OBVIOUS
<1>0. \A i \in 1 .. n : u[i] \in 0 .. Base - 1 /\ v[i] \in 0 .. Base - 1
    <2>1. \A i \in 1 .. n : u[i] \in Bytes /\ v[i] \in Bytes
        OBVIOUS
    <2>2. QED
        BY <2>1 DEF Bytes
<1>1. PICK F : WordRow(F, u) /\ Word(u) = F[n]
    BY WordIs
<1>2. PICK G : WordRow(G, v) /\ Word(v) = G[n]
    BY <1>n, WordIs
<1>3. Base \in Nat \ {0}
    BY HashAssumption
<1> HIDE DEF n
<1>4. \A i \in 0 .. n : F[i] = IF i = 0 THEN 0 ELSE u[n + 1 - i] + Base * F[i - 1]
    BY <1>1 DEF WordRow, n
<1>5. \A i \in 0 .. n : G[i] = IF i = 0 THEN 0 ELSE v[n + 1 - i] + Base * G[i - 1]
    BY <1>n, <1>2 DEF WordRow
<1> DEFINE S == {m \in Nat : m <= n =>
                    /\ F[m] \in Nat /\ G[m] \in Nat
                    /\ F[m] = G[m] => \A i \in n + 1 - m .. n : u[i] = v[i]}
<1>6. 0 \in S
    <2>1. 0 \in 0 .. n
        BY <1>n
    <2>2. F[0] = 0 /\ G[0] = 0
        BY <1>4, <1>5, <2>1
    <2>3. ASSUME NEW i \in n + 1 - 0 .. n PROVE FALSE
        BY <1>n
    <2>4. QED
        BY <2>2, <2>3
<1>7. ASSUME NEW m \in Nat, m \in S PROVE m + 1 \in S
    <2> SUFFICES ASSUME m + 1 <= n
                 PROVE  /\ F[m + 1] \in Nat /\ G[m + 1] \in Nat
                        /\ F[m + 1] = G[m + 1] =>
                               \A i \in n + 1 - (m + 1) .. n : u[i] = v[i]
        OBVIOUS
    <2>1. /\ m + 1 \in 0 .. n /\ m + 1 # 0 /\ (m + 1) - 1 = m /\ m <= n
          /\ n + 1 - (m + 1) = n - m /\ n - m \in 1 .. n
        BY <1>n
    <2>2. /\ F[m] \in Nat /\ G[m] \in Nat
          /\ F[m] = G[m] => \A i \in n + 1 - m .. n : u[i] = v[i]
        BY <1>7, <2>1
    <2>3. F[m + 1] = u[n - m] + Base * F[m] /\ G[m + 1] = v[n - m] + Base * G[m]
        BY <1>4, <1>5, <2>1
    <2>4. u[n - m] \in 0 .. Base - 1 /\ v[n - m] \in 0 .. Base - 1
        BY <1>0, <2>1
    <2>5. Base * F[m] \in Nat /\ Base * G[m] \in Nat
        BY <1>3, <2>2
    <2>6. F[m + 1] \in Nat /\ G[m + 1] \in Nat
        BY <1>3, <2>3, <2>4, <2>5
    <2>7. ASSUME F[m + 1] = G[m + 1], NEW i \in n - m .. n PROVE u[i] = v[i]
        <3>1. u[n - m] = v[n - m] /\ F[m] = G[m]
            <4> DEFINE d == u[n - m]
                       e == v[n - m]
                       x == F[m]
                       y == G[m]
            <4>1. d + Base * x = e + Base * y
                BY <2>3, <2>7
            <4>2. d \in 0 .. Base - 1 /\ e \in 0 .. Base - 1 /\ x \in Nat /\ y \in Nat
                BY <2>2, <2>4
            <4> HIDE DEF d, e, x, y
            <4>3. d = e /\ x = y
                BY <1>3, <4>1, <4>2, DigitAndRest
            <4>4. QED
                BY <4>3 DEF d, e, x, y
        <3>2. i = n - m \/ i \in n + 1 - m .. n
            BY <1>n
        <3>3. QED
            BY <2>2, <3>1, <3>2
    <2>8. QED
        BY <2>1, <2>6, <2>7
<1> HIDE DEF S
<1>8. \A m \in Nat : m \in S
    BY <1>6, <1>7, SetInduction
<1>9. F[n] = G[n] /\ n \in S
    BY <1>n, <1>1, <1>2, <1>8 DEF n
<1>10. \A i \in n + 1 - n .. n : u[i] = v[i]
    BY <1>n, <1>9 DEF S
<1>11. n + 1 - n = 1
    BY <1>n
<1>12. QED
    BY <1>u, <1>10, <1>11

LEMMA XorWordTells ==
    ASSUME NEW state, NEW g, NEW lane, NEW x, NEW y, state[1] # lane, g[1] # lane,
           XorWord(state, lane, x) = XorWord(g, lane, y)
    PROVE  state = g /\ x = y
<1>1. <<lane, x, state>>[1] = lane /\ <<lane, y, g>>[1] = lane
    OBVIOUS
<1>2. CASE x = 0 /\ y = 0
    BY <1>2 DEF XorWord
<1>3. CASE x = 0 /\ y # 0
    BY <1>1, <1>3 DEF XorWord
<1>4. CASE x # 0 /\ y = 0
    BY <1>1, <1>4 DEF XorWord
<1>5. CASE x # 0 /\ y # 0
    <2>1. <<lane, x, state>> = <<lane, y, g>>
        BY <1>5 DEF XorWord
    <2>2. QED
        BY <2>1
<1>6. QED
    BY <1>2, <1>3, <1>4, <1>5

\* Where a word is mixed in, its lane is on top, or there was nothing to mix in.
LEMMA XorWordTop ==
    ASSUME NEW state, NEW lane, NEW x
    PROVE  XorWord(state, lane, x)[1] \in {state[1], lane}
BY DEF XorWord

LEMMA BlockTells ==
    ASSUME NEW state, NEW g, NEW a, NEW b, NEW x, NEW y,
           state[1][1] # "k1", g[1][1] # "k1", state[2][1] # "k2", g[2][1] # "k2",
           Block(state, a, b)[1] = Block(g, x, y)[1], Block(state, a, b)[2] = Block(g, x, y)[2]
    PROVE  state[1] = g[1] /\ state[2] = g[2] /\ a = x /\ b = y
<1> DEFINE h1 == <<"mix1", XorWord(state[1], "k1", a), state[2]>>
           g1 == <<"mix1", XorWord(g[1], "k1", x), g[2]>>
           h2 == <<"mix2", XorWord(state[2], "k2", b), h1>>
           g2 == <<"mix2", XorWord(g[2], "k2", y), g1>>
<1>1. Block(state, a, b)[1] = h1 /\ Block(g, x, y)[1] = g1
    BY DEF Block
<1>2. Block(state, a, b)[2] = h2 /\ Block(g, x, y)[2] = g2
    BY DEF Block
<1>3. h1 = g1 /\ h2 = g2
    BY <1>1, <1>2
<1>4. XorWord(state[1], "k1", a) = XorWord(g[1], "k1", x) /\ state[2] = g[2]
    BY <1>3
<1>5. XorWord(state[2], "k2", b) = XorWord(g[2], "k2", y)
    <2> HIDE DEF h1, g1
    <2>1. QED
        BY <1>3
<1>6. QED
    BY <1>4, <1>5, XorWordTells

LEMMA BlockTops ==
    ASSUME NEW state, NEW a, NEW b
    PROVE  Block(state, a, b)[1][1] = "mix1" /\ Block(state, a, b)[2][1] = "mix2"
BY DEF Block

\* The state after the body of a key tells the seed and every lane.
LEMMA BodyTells ==
    ASSUME NEW k, NEW l, NEW s, NEW t, NBlocks(k) \in Nat, NBlocks(l) = NBlocks(k)
    PROVE  /\ Body(k, s)[1][1] \in {"seed", "mix1"} /\ Body(k, s)[2][1] \in {"seed", "mix2"}
           /\ Body(k, s)[1] = Body(l, t)[1] /\ Body(k, s)[2] = Body(l, t)[2] =>
                 s = t /\ \A i \in 0 .. 2 * NBlocks(k) - 1 : Lane(k, i) = Lane(l, i)
<1> DEFINE n == NBlocks(k)
<1>1. PICK F : BodyRow(F, k, s) /\ Body(k, s) = F[n]
    BY BodyIs
<1>2. PICK G : BodyRow(G, l, t) /\ Body(l, t) = G[n]
    BY BodyIs
<1>3. n \in Nat /\ NBlocks(l) = n
    OBVIOUS
<1> HIDE DEF n
<1>4. \A i \in 0 .. n : F[i] = IF i = 0 THEN << <<"seed", s>>, <<"seed", s>> >>
                              ELSE Block(F[i - 1], Lane(k, 2 * i - 2), Lane(k, 2 * i - 1))
    BY <1>1 DEF BodyRow, n
<1>5. \A i \in 0 .. n : G[i] = IF i = 0 THEN << <<"seed", t>>, <<"seed", t>> >>
                              ELSE Block(G[i - 1], Lane(l, 2 * i - 2), Lane(l, 2 * i - 1))
    BY <1>2, <1>3 DEF BodyRow
<1> DEFINE Tops(state) == state[1][1] \in {"seed", "mix1"} /\ state[2][1] \in {"seed", "mix2"}
           Same(m) == \A i \in 0 .. 2 * m - 1 : Lane(k, i) = Lane(l, i)
           S == {m \in Nat : m <= n =>
                    /\ Tops(F[m]) /\ Tops(G[m])
                    /\ F[m][1] = G[m][1] /\ F[m][2] = G[m][2] => s = t /\ Same(m)}
<1>6. 0 \in S
    <2>1. 0 \in 0 .. n
        BY <1>3
    <2>2. F[0] = << <<"seed", s>>, <<"seed", s>> >> /\ G[0] = << <<"seed", t>>, <<"seed", t>> >>
        BY <1>4, <1>5, <2>1
    <2>3. Tops(F[0]) /\ Tops(G[0])
        BY <2>2
    <2>4. F[0][1] = G[0][1] => s = t
        BY <2>2
    <2>5. Same(0)
        OBVIOUS
    <2>6. QED
        BY <2>3, <2>4, <2>5
<1>7. ASSUME NEW m \in Nat, m \in S PROVE m + 1 \in S
    <2> SUFFICES ASSUME m + 1 <= n
                 PROVE  /\ Tops(F[m + 1]) /\ Tops(G[m + 1])
                        /\ F[m + 1][1] = G[m + 1][1] /\ F[m + 1][2] = G[m + 1][2] =>
                               s = t /\ Same(m + 1)
        OBVIOUS
    <2>1. /\ m + 1 \in 0 .. n /\ m + 1 # 0 /\ (m + 1) - 1 = m /\ m <= n
          /\ 2 * (m + 1) - 2 = 2 * m /\ 2 * (m + 1) - 1 = 2 * m + 1
        BY <1>3
    <2>2. /\ Tops(F[m]) /\ Tops(G[m])
          /\ F[m][1] = G[m][1] /\ F[m][2] = G[m][2] => s = t /\ Same(m)
        BY <1>7, <2>1
    <2>3. /\ F[m + 1] = Block(F[m], Lane(k, 2 * m), Lane(k, 2 * m + 1))
          /\ G[m + 1] = Block(G[m], Lane(l, 2 * m), Lane(l, 2 * m + 1))
        <3>1. F[m + 1] = Block(F[(m + 1) - 1], Lane(k, 2 * (m + 1) - 2), Lane(k, 2 * (m + 1) - 1))
            BY <1>4, <2>1
        <3>2. G[m + 1] = Block(G[(m + 1) - 1], Lane(l, 2 * (m + 1) - 2), Lane(l, 2 * (m + 1) - 1))
            BY <1>5, <2>1
        <3>3. QED
            BY <2>1, <3>1, <3>2
    <2>4. Tops(F[m + 1]) /\ Tops(G[m + 1])
        BY <2>3, BlockTops
    <2>5. ASSUME F[m + 1][1] = G[m + 1][1], F[m + 1][2] = G[m + 1][2]
          PROVE  s = t /\ Same(m + 1)
        <3>1. /\ F[m][1] = G[m][1] /\ F[m][2] = G[m][2]
              /\ Lane(k, 2 * m) = Lane(l, 2 * m) /\ Lane(k, 2 * m + 1) = Lane(l, 2 * m + 1)
            <4>1. /\ F[m][1][1] # "k1" /\ G[m][1][1] # "k1"
                  /\ F[m][2][1] # "k2" /\ G[m][2][1] # "k2"
                BY <2>2
            <4> HIDE DEF Tops, Same, S
            <4>2. QED
                BY <2>3, <2>5, <4>1, BlockTells
        <3>2. s = t /\ Same(m)
            BY <2>2, <3>1
        <3>3. ASSUME NEW i \in 0 .. 2 * (m + 1) - 1 PROVE Lane(k, i) = Lane(l, i)
            <4>1. i \in 0 .. 2 * m - 1 \/ i = 2 * m \/ i = 2 * m + 1
                OBVIOUS
            <4>2. QED
                BY <3>1, <3>2, <4>1
        <3>4. QED
            BY <3>2, <3>3
    <2>6. QED
        BY <2>4, <2>5
<1> HIDE DEF S
<1>8. \A m \in Nat : m \in S
    BY <1>6, <1>7, SetInduction
<1>9. QED
    BY <1>1, <1>2, <1>3, <1>8 DEF S, n

LEMMA FinalizeTells ==
    ASSUME NEW state, NEW g, NEW x, NEW y,
           \/ Finalize(state, x)[1] = Finalize(g, y)[1]
           \/ Finalize(state, x)[2] = Finalize(g, y)[2]
    PROVE  /\ XorWord(state[1], "len", x) = XorWord(g[1], "len", y)
           /\ XorWord(state[2], "len", x) = XorWord(g[2], "len", y)
<1> DEFINE h1 == <<"add", XorWord(state[1], "len", x), XorWord(state[2], "len", x)>>
           g1 == <<"add", XorWord(g[1], "len", y), XorWord(g[2], "len", y)>>
           h2 == <<"add", XorWord(state[2], "len", x), h1>>
           g2 == <<"add", XorWord(g[2], "len", y), g1>>
           low == <<"add", Fmix64(h1), Fmix64(h2)>>
           lowG == <<"add", Fmix64(g1), Fmix64(g2)>>
<1>1. /\ Finalize(state, x)[1] = low /\ Finalize(state, x)[2] = <<"add", Fmix64(h2), low>>
      /\ Finalize(g, y)[1] = lowG /\ Finalize(g, y)[2] = <<"add", Fmix64(g2), lowG>>
    BY DEF Finalize
<1> HIDE DEF h1, g1, h2, g2
<1>2. low = lowG
    <2> HIDE DEF low, lowG
    <2>1. QED
        BY <1>1
<1>3. Fmix64(h1) = Fmix64(g1)
    BY <1>2
<1>4. h1 = g1
    BY <1>3 DEF Fmix64
<1>5. QED
    BY <1>4 DEF h1, g1

LEMMA HalvesDiffer ==
    ASSUME NEW state, NEW x
    PROVE  Finalize(state, x)[1] # Finalize(state, x)[2] /\ Finalize(state, x)[1][1] = "add" /\ Finalize(state, x)[2][1] = "add"
<1> DEFINE h1 == <<"add", XorWord(state[1], "len", x), XorWord(state[2], "len", x)>>
           h2 == <<"add", XorWord(state[2], "len", x), h1>>
           low == <<"add", Fmix64(h1), Fmix64(h2)>>
<1>1. Finalize(state, x)[1] = low /\ Finalize(state, x)[2] = <<"add", Fmix64(h2), low>>
    BY DEF Finalize
<1> HIDE DEF h1, h2
<1>2. low[1] = "add" /\ low[3] = Fmix64(h2) /\ Fmix64(h2)[1] = "fmix"
    BY DEF Fmix64
<1> HIDE DEF low
<1>3. QED
    BY <1>1, <1>2

LEMMA SameRun ==
    ASSUME NEW s \in Seq(Bytes), NEW t \in Seq(Bytes), Len(s) = Len(t),
           NEW a \in Nat \ {0}, NEW b \in 0 .. Len(s),
           Word(SubSeq(s, a, b)) = Word(SubSeq(t, a, b))
    PROVE  \A p \in a .. b : s[p] = t[p]
<1> DEFINE u == SubSeq(s, a, b)
           v == SubSeq(t, a, b)
<1>1. u \in Seq(Bytes) /\ v \in Seq(Bytes) /\ Len(u) = Len(v)
    OBVIOUS
<1>2. \A p \in a .. b : p - a + 1 \in 1 .. Len(u) /\ u[p - a + 1] = s[p] /\ v[p - a + 1] = t[p]
    OBVIOUS
<1>3. u = v
    BY <1>1, WordTellsBytes
<1> HIDE DEF u, v
<1>4. QED
    BY <1>2, <1>3

LEMMA KeyFacts ==
    ASSUME NEW k \in Keys
    PROVE  /\ k \in Seq(Bytes) /\ Len(k) \in Nat /\ k = [i \in 1 .. Len(k) |-> k[i]]
           /\ NBlocks(k) \in Nat /\ 2 * L * NBlocks(k) <= Len(k) /\ 2 * L * NBlocks(k) \in Nat
<1>1. PICK n \in 0 .. MaxKey : k \in [1 .. n -> Bytes]
    BY DEF Keys
<1>2. n \in Nat
    BY HashAssumption
<1>3. k \in Seq(Bytes) /\ Len(k) = n
    BY <1>1, <1>2
<1>4. 2 * L \in Nat \ {0}
    BY HashAssumption
<1> DEFINE b == 2 * L
           q == n \div b
<1>5. q \in Nat /\ b * q <= n /\ b * q \in Nat
    <2> HIDE DEF b
    <2>1. n \div b \in Nat /\ n % b \in 0 .. b - 1 /\ n = b * (n \div b) + (n % b)
        BY <1>2, <1>4 DEF b
    <2> HIDE DEF q
    <2>2. q \in Nat /\ n % b \in Nat /\ n = b * q + (n % b)
        BY <2>1, <1>4 DEF q, b
    <2>3. b * q \in Nat
        BY <1>4, <2>2 DEF b
    <2>4. QED
        BY <1>2, <2>2, <2>3
<1>6. NBlocks(k) = q
    BY <1>3 DEF NBlocks
<1>7. k = [i \in 1 .. Len(k) |-> k[i]]
    BY <1>1, <1>3
<1> HIDE DEF b, q
<1>8. QED
    BY <1>2, <1>3, <1>5, <1>6, <1>7 DEF b

\* A place before the tail lies in a lane.
LEMMA LaneOf ==
    ASSUME NEW n \in Nat, NEW p \in 1 .. 2 * L * n
    PROVE  \E i \in 0 .. 2 * n - 1 :
              /\ L * i \in Nat /\ p \in L * i + 1 .. L * i + L /\ L * i + L <= 2 * L * n
<1> DEFINE i == (p - 1) \div L
           r == (p - 1) % L
<1>1. L \in Nat \ {0} /\ p - 1 \in Nat /\ 2 * L * n \in Nat /\ p <= 2 * L * n
    BY HashAssumption
<1>2. i \in Nat /\ r \in 0 .. L - 1 /\ p - 1 = L * i + r
    BY <1>1
<1> HIDE DEF i, r
<1>3. L * i \in Nat /\ p \in L * i + 1 .. L * i + L
    <2>1. L * i \in Nat
        BY <1>1, <1>2
    <2>2. QED
        BY <1>1, <1>2, <2>1
<1>4. i < 2 * n
    <2> SUFFICES ASSUME i >= 2 * n PROVE FALSE
        BY <1>2
    <2>1. L * i >= L * (2 * n)
        <3>1. i - 2 * n \in Nat
            BY <1>2
        <3>2. L * (i - 2 * n) \in Nat
            BY <1>1, <3>1
        <3>3. L * i = L * (2 * n) + L * (i - 2 * n)
            BY <1>1, <1>2
        <3>4. L * (2 * n) \in Nat
            BY <1>1
        <3>5. QED
            BY <1>3, <3>2, <3>3, <3>4
    <2>2. L * (2 * n) = 2 * L * n
        BY <1>1
    <2>3. QED
        BY <1>1, <1>3, <2>1, <2>2
<1>5. L * i + L <= 2 * L * n
    <2>1. 2 * n - i - 1 \in Nat
        BY <1>2, <1>4
    <2>2. L * (2 * n - i - 1) \in Nat
        BY <1>1, <2>1
    <2>3. 2 * L * n = L * i + L + L * (2 * n - i - 1)
        BY <1>1, <1>2
    <2>4. QED
        BY <1>1, <1>3, <2>2, <2>3
<1>6. QED
    BY <1>2, <1>3, <1>4, <1>5

LEMMA LanesAndTail ==
    ASSUME NEW k \in Keys, NEW l \in Keys, Len(k) = Len(l),
           \A i \in 0 .. 2 * NBlocks(k) - 1 : Lane(k, i) = Lane(l, i),
           \A p \in 2 * L * NBlocks(k) + 1 .. Len(k) : k[p] = l[p]
    PROVE  k = l
<1>1. ASSUME NEW p \in 1 .. Len(k) PROVE k[p] = l[p]
    <2>1. CASE p <= 2 * L * NBlocks(k)
        <3>1. p \in 1 .. 2 * L * NBlocks(k) /\ NBlocks(k) \in Nat
            BY <2>1, KeyFacts
        <3>2. PICK i \in 0 .. 2 * NBlocks(k) - 1 :
                      /\ L * i \in Nat /\ p \in L * i + 1 .. L * i + L
                      /\ L * i + L <= 2 * L * NBlocks(k)
            BY <3>1, LaneOf
        <3>3. Word(SubSeq(k, L * i + 1, L * i + L)) = Word(SubSeq(l, L * i + 1, L * i + L))
            BY DEF Lane
        <3> DEFINE a == L * i + 1
                   b == L * i + L
        <3>4. a \in Nat \ {0} /\ b \in 0 .. Len(k)
            <4>1. L \in Nat /\ Len(k) \in Nat /\ 2 * L * NBlocks(k) <= Len(k) /\ 2 * L * NBlocks(k) \in Nat
                BY HashAssumption, KeyFacts
            <4>2. QED
                BY <3>2, <4>1
        <3>5. k \in Seq(Bytes) /\ l \in Seq(Bytes)
            BY KeyFacts
        <3>6. p \in a .. b
            BY <3>2
        <3> HIDE DEF a, b
        <3>7. Word(SubSeq(k, a, b)) = Word(SubSeq(l, a, b))
            BY <3>3 DEF a, b
        <3>8. QED
            BY <3>4, <3>5, <3>6, <3>7, SameRun
    <2>2. CASE ~(p <= 2 * L * NBlocks(k))
        <3>1. p \in 2 * L * NBlocks(k) + 1 .. Len(k)
            BY <2>2, KeyFacts
        <3>2. QED
            BY <3>1
    <2>3. QED
        BY <2>1, <2>2
<1>2. k = [i \in 1 .. Len(k) |-> k[i]] /\ l = [i \in 1 .. Len(k) |-> l[i]]
    BY KeyFacts
<1>3. QED
    BY <1>1, <1>2

\* The two words of the tail tell the tail.
LEMMA TailTells ==
    ASSUME NEW k \in Keys, NEW l \in Keys, Len(k) = Len(l), NEW state, NEW g,
           state[1][1] # "k1", g[1][1] # "k1", state[2][1] # "k2", g[2][1] # "k2",
           AbsorbTail(state, k)[1] = AbsorbTail(g, l)[1], AbsorbTail(state, k)[2] = AbsorbTail(g, l)[2]
    PROVE  /\ state[1] = g[1] /\ state[2] = g[2]
           /\ \A p \in 2 * L * NBlocks(k) + 1 .. Len(k) : k[p] = l[p]
<1> DEFINE n == 2 * L * NBlocks(k)
           s == SubSeq(k, n + 1, Len(k))
           t == SubSeq(l, n + 1, Len(k))
           m == IF Len(s) < L THEN Len(s) ELSE L
<1>1. /\ k \in Seq(Bytes) /\ l \in Seq(Bytes) /\ n \in Nat /\ n <= Len(k) /\ Len(k) \in Nat
      /\ L \in Nat \ {0} /\ NBlocks(l) = NBlocks(k)
    BY KeyFacts, HashAssumption DEF NBlocks
<1> HIDE DEF n
<1>2. /\ s \in Seq(Bytes) /\ t \in Seq(Bytes) /\ Len(s) = Len(k) - n /\ Len(t) = Len(s)
      /\ \A p \in n + 1 .. Len(k) : s[p - n] = k[p] /\ t[p - n] = l[p]
    <2>1. s \in Seq(Bytes) /\ Len(s) = Len(k) - n
        BY <1>1
    <2>2. t \in Seq(Bytes) /\ Len(t) = Len(k) - n
        BY <1>1
    <2>3. ASSUME NEW p \in n + 1 .. Len(k) PROVE s[p - n] = k[p] /\ t[p - n] = l[p]
        BY <1>1
    <2> HIDE DEF s, t
    <2>4. QED
        BY <2>1, <2>2, <2>3
<1>3. /\ AbsorbTail(state, k)[1] = XorWord(state[1], "k1", Word(SubSeq(s, 1, m)))
      /\ AbsorbTail(state, k)[2] = XorWord(state[2], "k2", Word(SubSeq(s, L + 1, Len(s))))
    BY DEF AbsorbTail, n
<1>4. /\ AbsorbTail(g, l)[1] = XorWord(g[1], "k1", Word(SubSeq(t, 1, m)))
      /\ AbsorbTail(g, l)[2] = XorWord(g[2], "k2", Word(SubSeq(t, L + 1, Len(s))))
    <2>1. t = SubSeq(l, 2 * L * NBlocks(l) + 1, Len(l)) /\ Len(t) = Len(s)
        BY <1>1, <1>2 DEF n
    <2> DEFINE w == SubSeq(l, 2 * L * NBlocks(l) + 1, Len(l))
    <2>2. /\ AbsorbTail(g, l)[1] = XorWord(g[1], "k1", Word(SubSeq(w, 1, IF Len(w) < L THEN Len(w) ELSE L)))
          /\ AbsorbTail(g, l)[2] = XorWord(g[2], "k2", Word(SubSeq(w, L + 1, Len(w))))
        BY DEF AbsorbTail
    <2>3. w = t /\ Len(w) = Len(s)
        BY <2>1
    <2> HIDE DEF w, t, s
    <2>4. QED
        BY <2>2, <2>3
<1> HIDE DEF s, t
<1>5. m \in 0 .. Len(s) /\ Len(s) \in Nat /\ (m < Len(s) => m = L)
    BY <1>1, <1>2
<1> HIDE DEF m
<1>6. state[1] = g[1] /\ Word(SubSeq(s, 1, m)) = Word(SubSeq(t, 1, m))
    <2> DEFINE x == Word(SubSeq(s, 1, m))
               y == Word(SubSeq(t, 1, m))
    <2>1. XorWord(state[1], "k1", x) = XorWord(g[1], "k1", y)
        BY <1>3, <1>4
    <2> HIDE DEF x, y
    <2>2. state[1] = g[1] /\ x = y
        BY <2>1, XorWordTells
    <2>3. QED
        BY <2>2 DEF x, y
<1>7. state[2] = g[2] /\ Word(SubSeq(s, L + 1, Len(s))) = Word(SubSeq(t, L + 1, Len(s)))
    <2> DEFINE x == Word(SubSeq(s, L + 1, Len(s)))
               y == Word(SubSeq(t, L + 1, Len(s)))
    <2>1. XorWord(state[2], "k2", x) = XorWord(g[2], "k2", y)
        BY <1>3, <1>4
    <2> HIDE DEF x, y
    <2>2. state[2] = g[2] /\ x = y
        BY <2>1, XorWordTells
    <2>3. QED
        BY <2>2 DEF x, y
<1>8. \A p \in 1 .. m : s[p] = t[p]
    BY <1>2, <1>5, <1>6, SameRun
<1>9. \A p \in L + 1 .. Len(s) : s[p] = t[p]
    <2>1. L + 1 \in Nat \ {0} /\ Len(s) \in 0 .. Len(s)
        BY <1>1, <1>5
    <2>2. QED
        BY <1>2, <1>7, <2>1, SameRun
<1>10. \A p \in 1 .. Len(s) : s[p] = t[p]
    <2>1. \A p \in 1 .. Len(s) : p \in 1 .. m \/ p \in L + 1 .. Len(s)
        BY <1>1, <1>5
    <2>2. QED
        BY <1>8, <1>9, <2>1
<1>11. ASSUME NEW p \in n + 1 .. Len(k) PROVE k[p] = l[p]
    <2>1. p - n \in 1 .. Len(s)
        BY <1>1, <1>2
    <2>2. QED
        BY <1>2, <1>10, <2>1
<1>12. QED
    BY <1>6, <1>7, <1>11 DEF n

\* A half of the digest of a key tells the key and the seed.
LEMMA MurmurTells ==
    ASSUME NEW k \in Keys, NEW l \in Keys, NEW s, NEW t,
           \/ Murmur3x64x128(k, s)[1] = Murmur3x64x128(l, t)[1]
           \/ Murmur3x64x128(k, s)[2] = Murmur3x64x128(l, t)[2]
    PROVE  k = l /\ s = t
<1> DEFINE b == Body(k, s)
           c == Body(l, t)
           state == AbsorbTail(b, k)
           g == AbsorbTail(c, l)
<1>1. /\ NBlocks(k) \in Nat /\ b[1][1] \in {"seed", "mix1"} /\ b[2][1] \in {"seed", "mix2"}
      /\ NBlocks(l) \in Nat /\ c[1][1] \in {"seed", "mix1"} /\ c[2][1] \in {"seed", "mix2"}
    BY KeyFacts, BodyTells
<1> HIDE DEF b, c
<1>2. /\ state[1][1] \in {"seed", "mix1", "k1"} /\ state[2][1] \in {"seed", "mix2", "k2"}
      /\ g[1][1] \in {"seed", "mix1", "k1"} /\ g[2][1] \in {"seed", "mix2", "k2"}
    <2>1. ASSUME NEW y, NEW z
          PROVE  \E v, w : AbsorbTail(y, z)[1] = XorWord(y[1], "k1", v) /\ AbsorbTail(y, z)[2] = XorWord(y[2], "k2", w)
        BY DEF AbsorbTail
    <2>2. ASSUME NEW y, NEW z
          PROVE  AbsorbTail(y, z)[1][1] \in {y[1][1], "k1"} /\ AbsorbTail(y, z)[2][1] \in {y[2][1], "k2"}
        BY <2>1, XorWordTop
    <2>3. QED
        BY <1>1, <2>2
<1> HIDE DEF state, g
<1>3. /\ XorWord(state[1], "len", Len(k)) = XorWord(g[1], "len", Len(l))
      /\ XorWord(state[2], "len", Len(k)) = XorWord(g[2], "len", Len(l))
    BY FinalizeTells DEF Murmur3x64x128, state, g, b, c
<1>4. state[1] = g[1] /\ state[2] = g[2] /\ Len(k) = Len(l)
    BY <1>2, <1>3, XorWordTells
<1>5. /\ b[1] = c[1] /\ b[2] = c[2]
      /\ \A p \in 2 * L * NBlocks(k) + 1 .. Len(k) : k[p] = l[p]
    BY <1>1, <1>4, TailTells DEF state, g
<1>6. NBlocks(l) = NBlocks(k)
    BY <1>4 DEF NBlocks
<1>7. s = t /\ \A i \in 0 .. 2 * NBlocks(k) - 1 : Lane(k, i) = Lane(l, i)
    BY <1>1, <1>5, <1>6, BodyTells DEF b, c
<1>8. QED
    BY <1>4, <1>5, <1>7, LanesAndTail

\* The digest is that of the key, the seed and the family.
HashInv ==
    /\ family \in {"Murmur", "Xxh3"} /\ key \in Keys
    /\ digest # << >> => digest = Hash128(family, key, seed)

LEMMA HashInvariance == HashSpec => []HashInv
<1>1. HashInit => HashInv
    BY DEF HashInit, HashInv
<1>2. HashInv /\ [Hash]_hashVars => HashInv'
    BY DEF HashInv, Hash, hashVars
<1>3. QED
    BY <1>1, <1>2, PTL DEF HashSpec

(* For keys of any length and lanes of any width: two calls whose digests share a half
   had the same family, key and seed, and the halves of a digest differ.  So no byte of
   a block or of the tail, no zero at the end and no length is left out of
   murmur3_x64_128, up to its arithmetic. *)
THEOREM NoByteIsLeftOut == HashSpec => []AllIsTakenIn
<1>0. ASSUME NEW k, NEW s
      PROVE  /\ Murmur3x64x128(k, s)[1][1] = "add" /\ Murmur3x64x128(k, s)[2][1] = "add"
             /\ Murmur3x64x128(k, s)[1] # Murmur3x64x128(k, s)[2]
             /\ Xxh3(k, s)[1] = <<"xxh3 low", k, s>> /\ Xxh3(k, s)[2] = <<"xxh3 high", k, s>>
             /\ Xxh3(k, s)[1][1] = "xxh3 low" /\ Xxh3(k, s)[2][1] = "xxh3 high"
    <2>1. /\ Murmur3x64x128(k, s)[1][1] = "add" /\ Murmur3x64x128(k, s)[2][1] = "add"
          /\ Murmur3x64x128(k, s)[1] # Murmur3x64x128(k, s)[2]
        BY HalvesDiffer DEF Murmur3x64x128
    <2>2. Xxh3(k, s)[1] = <<"xxh3 low", k, s>> /\ Xxh3(k, s)[2] = <<"xxh3 high", k, s>>
        BY DEF Xxh3
    <2>3. <<"xxh3 low", k, s>>[1] = "xxh3 low" /\ <<"xxh3 high", k, s>>[1] = "xxh3 high"
        OBVIOUS
    <2>4. QED
        BY <2>1, <2>2, <2>3, Zenon
<1>1. ASSUME HashInv, digest # << >> PROVE digest[1] # digest[2]
    <2>1. \/ digest = Murmur3x64x128(key, seed)
          \/ digest = Xxh3(key, seed)
        BY <1>1 DEF HashInv, Hash128
    <2>2. Xxh3(key, seed)[1] # Xxh3(key, seed)[2]
        <3>1. Xxh3(key, seed)[1][1] = "xxh3 low" /\ Xxh3(key, seed)[2][1] = "xxh3 high"
            BY <1>0
        <3>2. QED
            BY <3>1
    <2>3. QED
        BY <1>0, <2>1, <2>2
<1>2. ASSUME HashInv, digest # << >>,
             NEW f \in {"Murmur", "Xxh3"}, NEW k \in Keys, NEW s \in HashSeeds,
             \/ Hash128(f, k, s)[1] = digest[1]
             \/ Hash128(f, k, s)[2] = digest[2]
      PROVE  f = family /\ k = key /\ s = seed
    <2>1. /\ digest = Hash128(family, key, seed) /\ key \in Keys
          /\ family \in {"Murmur", "Xxh3"}
        BY <1>2 DEF HashInv
    <2>2. f = family
        <3>1. CASE f = "Murmur" /\ family = "Xxh3"
            <4>1. Hash128(f, k, s) = Murmur3x64x128(k, s) /\ digest = Xxh3(key, seed)
                BY <2>1, <3>1 DEF Hash128
            <4>2. /\ Hash128(f, k, s)[1][1] = "add" /\ Hash128(f, k, s)[2][1] = "add"
                  /\ digest[1][1] = "xxh3 low" /\ digest[2][1] = "xxh3 high"
                BY <1>0, <4>1, Zenon
            <4>3. QED
                BY <1>2, <4>2
        <3>2. CASE f = "Xxh3" /\ family = "Murmur"
            <4>1. Hash128(f, k, s) = Xxh3(k, s) /\ digest = Murmur3x64x128(key, seed)
                BY <2>1, <3>2 DEF Hash128
            <4>2. /\ digest[1][1] = "add" /\ digest[2][1] = "add"
                  /\ Hash128(f, k, s)[1][1] = "xxh3 low" /\ Hash128(f, k, s)[2][1] = "xxh3 high"
                BY <1>0, <4>1, Zenon
            <4>3. QED
                BY <1>2, <4>2
        <3>3. QED
            BY <2>1, <3>1, <3>2
    <2>3. CASE f = "Murmur"
        <3>1. Hash128(f, k, s) = Murmur3x64x128(k, s) /\ digest = Murmur3x64x128(key, seed)
            BY <2>1, <2>2, <2>3 DEF Hash128
        <3>2. QED
            BY <1>2, <2>1, <2>2, <3>1, MurmurTells
    <2>4. CASE f = "Xxh3"
        <3>1. Hash128(f, k, s) = Xxh3(k, s) /\ digest = Xxh3(key, seed)
            BY <2>1, <2>2, <2>4 DEF Hash128
        <3>2. <<"xxh3 low", k, s>> = Xxh3(k, s)[1] /\ <<"xxh3 low", key, seed>> = Xxh3(key, seed)[1]
            BY <1>0
        <3>3. <<"xxh3 high", k, s>> = Xxh3(k, s)[2] /\ <<"xxh3 high", key, seed>> = Xxh3(key, seed)[2]
            BY <1>0
        <3>4. CASE Xxh3(k, s)[1] = Xxh3(key, seed)[1]
            <4>1. <<"xxh3 low", k, s>> = <<"xxh3 low", key, seed>>
                BY <3>2, <3>4
            <4>2. QED
                BY <2>2, <4>1
        <3>5. CASE Xxh3(k, s)[2] = Xxh3(key, seed)[2]
            <4>1. <<"xxh3 high", k, s>> = <<"xxh3 high", key, seed>>
                BY <3>3, <3>5
            <4>2. QED
                BY <2>2, <4>1
        <3>6. QED
            BY <1>2, <3>1, <3>4, <3>5, Zenon
    <2>5. QED
        BY <2>3, <2>4
<1>3. HashInv => AllIsTakenIn
    BY <1>1, <1>2 DEF AllIsTakenIn
<1>4. QED
    BY <1>3, HashInvariance, PTL

-----------------------------------------------------------------------------
(* Texts that are joined. *)

Text == Seq(Chars)
Cat(s, t) == s \o t

LEMMA CatFacts ==
    ASSUME NEW s \in Text, NEW t \in Text
    PROVE  /\ Cat(s, t) \in Text /\ Len(Cat(s, t)) = Len(s) + Len(t)
           /\ Len(s) \in Nat /\ Len(t) \in Nat
           /\ \A i \in 1 .. Len(s) : Cat(s, t)[i] = s[i]
           /\ \A i \in 1 .. Len(t) : Cat(s, t)[Len(s) + i] = t[i]
<1>1. Len(s) \in Nat /\ Len(t) \in Nat
    BY DEF Text
<1>2. /\ Cat(s, t) \in Text /\ Len(Cat(s, t)) = Len(s) + Len(t)
      /\ \A i \in 1 .. Len(s) + Len(t) : Cat(s, t)[i] = IF i <= Len(s) THEN s[i] ELSE t[i - Len(s)]
    BY ConcatProperties DEF Text, Cat
<1>3. QED
    BY <1>1, <1>2

LEMMA Regroup ==
    ASSUME NEW s \in Text, NEW t \in Text, NEW u \in Text
    PROVE  Cat(Cat(s, t), u) = Cat(s, Cat(t, u))
BY ConcatAssociative DEF Text, Cat

\* What follows the same beginning is the same.
LEMMA Cancel ==
    ASSUME NEW s \in Text, NEW t \in Text, NEW u \in Text, Cat(s, t) = Cat(s, u)
    PROVE  t = u
BY ConcatSimplifications DEF Text, Cat

LEMMA Empty ==
    ASSUME NEW s \in Text
    PROVE  /\ Len(s) = 0 => s = << >>
           /\ << >> \in Text /\ Len(<< >>) = 0 /\ Cat(<< >>, s) = s /\ Cat(s, << >>) = s
BY ConcatEmptySeq DEF Text, Cat

LEMMA Alike ==
    ASSUME NEW s \in Text, NEW t \in Text, Len(s) = Len(t), \A i \in 1 .. Len(s) : s[i] = t[i]
    PROVE  s = t
BY SeqEqual DEF Text

\* Words none of which begins another are told apart by what they begin.
LEMMA PrefixSplit ==
    ASSUME NEW S, PrefixFree(S), NEW s \in Text, NEW t \in Text, s \in S, t \in S,
           NEW u \in Text, NEW v \in Text, Cat(s, u) = Cat(t, v)
    PROVE  s = t /\ u = v
<1>1. ASSUME NEW p \in Text, NEW q \in Text, NEW x \in Text, NEW y \in Text,
             Cat(p, x) = Cat(q, y), Len(p) <= Len(q), p \in S, q \in S
      PROVE  p = q
    <2>1. Len(p) \in Nat /\ Len(q) \in Nat /\ \A i \in 1 .. Len(p) : q[i] = p[i]
        <3>1. \A i \in 1 .. Len(p) : Cat(p, x)[i] = p[i] /\ Cat(q, y)[i] = q[i]
            <4>1. \A i \in 1 .. Len(p) : Cat(p, x)[i] = p[i]
                BY CatFacts
            <4>2. \A i \in 1 .. Len(q) : Cat(q, y)[i] = q[i]
                BY CatFacts
            <4>3. Len(p) \in Nat /\ Len(q) \in Nat
                BY CatFacts
            <4>4. QED
                BY <1>1, <4>1, <4>2, <4>3
        <3>2. QED
            BY <1>1, <3>1, CatFacts
    <2> DEFINE b == SubSeq(q, 1, Len(p))
    <2>2. b \in Text /\ Len(b) = Len(p) /\ \A i \in 1 .. Len(p) : b[i] = q[i]
        BY <1>1, <2>1 DEF Text
    <2> HIDE DEF b
    <2>3. b = p
        BY <2>1, <2>2, Alike
    <2>4. QED
        BY <1>1, <2>3 DEF b, PrefixFree
<1>2. s = t
    <2>1. Len(s) \in Nat /\ Len(t) \in Nat
        BY CatFacts
    <2>2. QED
        BY <1>1, <2>1
<1>3. QED
    BY <1>2, Cancel

LEMMA Nonempty ==
    ASSUME NEW S, PrefixFree(S), NEW s \in Text, NEW t \in Text, s \in S, t \in S, s # t
    PROVE  Len(s) > 0
<1>1. Len(s) \in Nat /\ Len(t) \in Nat
    BY CatFacts
<1> SUFFICES ASSUME Len(s) = 0 PROVE FALSE
    BY <1>1
<1>2. SubSeq(t, 1, Len(s)) # s
    <2>1. Len(s) <= Len(t)
        BY <1>1
    <2>2. QED
        BY <2>1 DEF PrefixFree
<1>3. SubSeq(t, 1, 0) = << >> /\ s = << >>
    BY Empty, SubSeqEmpty DEF Text
<1>4. QED
    BY <1>2, <1>3

\* A character outside an alphabet ends the word of the alphabet before it.
LEMMA SplitAt ==
    ASSUME NEW A, A \subseteq Chars, NEW b \in Text, Len(b) = 1, b \notin Seq(A),
           NEW s \in Seq(A), NEW t \in Seq(A), NEW u \in Text, NEW v \in Text
    PROVE  /\ Cat(s, Cat(b, u)) = Cat(t, Cat(b, v)) => s = t /\ u = v
           /\ Cat(s, Cat(b, u)) # t
<1> DEFINE c == b[1]
<1>1. c \notin A
    <2>1. SUFFICES ASSUME c \in A PROVE FALSE
        OBVIOUS
    <2>2. b = [i \in 1 .. 1 |-> b[i]]
        BY DEF Text
    <2>3. b \in [1 .. 1 -> A]
        BY <2>1, <2>2
    <2>4. b \in Seq(A)
        BY <2>3, SeqDef
    <2>5. QED
        BY <2>4
<1>2. s \in Text /\ t \in Text /\ Cat(b, u) \in Text /\ Cat(b, v) \in Text
    <2>1. s \in Text /\ t \in Text
        BY DEF Text
    <2>2. QED
        BY <2>1, CatFacts
<1>3. ASSUME NEW w \in Text
      PROVE  Cat(b, w)[1] = c /\ Len(Cat(b, w)) = 1 + Len(w) /\ Len(w) \in Nat
    <2>1. \A i \in 1 .. Len(b) : Cat(b, w)[i] = b[i]
        BY CatFacts
    <2>2. Len(Cat(b, w)) = Len(b) + Len(w) /\ Len(w) \in Nat
        BY CatFacts
    <2>3. QED
        BY <2>1, <2>2
<1>4. Len(s) \in Nat /\ Len(t) \in Nat
      /\ (\A i \in 1 .. Len(s) : s[i] \in A) /\ (\A i \in 1 .. Len(t) : t[i] \in A)
    OBVIOUS
<1> HIDE DEF c
<1>5. ASSUME NEW r \in Text, NEW w \in Text
      PROVE  /\ Len(r) \in Nat /\ Len(w) \in Nat
             /\ Len(Cat(r, Cat(b, w))) = Len(r) + 1 + Len(w)
             /\ Cat(r, Cat(b, w))[Len(r) + 1] = c
             /\ \A i \in 1 .. Len(r) : Cat(r, Cat(b, w))[i] = r[i]
    <2> DEFINE x == Cat(b, w)
    <2>1. x \in Text /\ x[1] = c /\ Len(x) = 1 + Len(w) /\ Len(w) \in Nat
        BY <1>3, CatFacts
    <2> HIDE DEF x
    <2>2. 1 \in 1 .. Len(x)
        BY <2>1
    <2>3. /\ Len(r) \in Nat /\ Len(Cat(r, x)) = Len(r) + Len(x)
          /\ Cat(r, x)[Len(r) + 1] = x[1]
          /\ \A i \in 1 .. Len(r) : Cat(r, x)[i] = r[i]
        BY <2>1, <2>2, CatFacts
    <2>4. QED
        BY <2>1, <2>3 DEF x
<1>6. ASSUME Cat(s, Cat(b, u)) = Cat(t, Cat(b, v)) PROVE s = t /\ u = v
    <2>1. Len(s) = Len(t)
        <3>1. CASE Len(s) < Len(t)
            <4>1. Cat(s, Cat(b, u))[Len(s) + 1] = c
                BY <1>2, <1>5
            <4>2. \A i \in 1 .. Len(t) : Cat(t, Cat(b, v))[i] = t[i]
                BY <1>2, <1>5
            <4>3. Len(s) + 1 \in 1 .. Len(t)
                BY <1>4, <3>1
            <4>4. t[Len(s) + 1] = c
                BY <1>6, <4>1, <4>2, <4>3
            <4>5. QED
                BY <1>1, <1>4, <4>3, <4>4
        <3>2. CASE Len(t) < Len(s)
            <4>1. Cat(t, Cat(b, v))[Len(t) + 1] = c
                BY <1>2, <1>5
            <4>2. \A i \in 1 .. Len(s) : Cat(s, Cat(b, u))[i] = s[i]
                BY <1>2, <1>5
            <4>3. Len(t) + 1 \in 1 .. Len(s)
                BY <1>4, <3>2
            <4>4. s[Len(t) + 1] = c
                BY <1>6, <4>1, <4>2, <4>3
            <4>5. QED
                BY <1>1, <1>4, <4>3, <4>4
        <3>3. QED
            BY <1>4, <3>1, <3>2
    <2>2. \A i \in 1 .. Len(s) : s[i] = t[i]
        <3>1. \A i \in 1 .. Len(s) : Cat(s, Cat(b, u))[i] = s[i]
            BY <1>2, <1>5
        <3>2. \A i \in 1 .. Len(t) : Cat(t, Cat(b, v))[i] = t[i]
            BY <1>2, <1>5
        <3>3. QED
            BY <1>6, <2>1, <3>1, <3>2
    <2>3. s = t
        BY <1>2, <2>1, <2>2, Alike
    <2>4. Cat(b, u) = Cat(b, v)
        BY <1>2, <1>6, <2>3, Cancel
    <2>5. QED
        BY <2>3, <2>4, Cancel
<1>7. ASSUME Cat(s, Cat(b, u)) = t PROVE FALSE
    <2>1. Len(t) = Len(s) + 1 + Len(u) /\ Len(u) \in Nat /\ t[Len(s) + 1] = c
        BY <1>2, <1>5, <1>7
    <2>2. QED
        BY <1>1, <1>4, <2>1
<1>8. QED
    BY <1>6, <1>7

-----------------------------------------------------------------------------
\* A text is empty or begins with a word.
Begins(r, T) == r = << >> \/ \E t \in T : t \in Text /\ \E u \in Text : r = Cat(t, u)

Option(x, w) == IF x THEN w ELSE << >>

\* A word that may be there or not, before what never begins with it.
LEMMA OptionSplit ==
    ASSUME NEW S, PrefixFree(S), NEW w \in Text, w \in S, Len(w) > 0,
           NEW T, T \subseteq S, w \notin T,
           NEW x, NEW y, NEW r \in Text, NEW v \in Text, Begins(r, T), Begins(v, T),
           Cat(Option(x, w), r) = Cat(Option(y, w), v)
    PROVE  (x <=> y) /\ r = v
<1>1. ASSUME NEW p \in Text, NEW q \in Text, Begins(q, T), Cat(w, p) = q
      PROVE  FALSE
    <2>1. q # << >>
        BY <1>1, CatFacts, Empty
    <2>2. PICK t \in T : t \in Text /\ \E u \in Text : q = Cat(t, u)
        BY <1>1, <2>1 DEF Begins
    <2>3. PICK u \in Text : q = Cat(t, u)
        BY <2>2
    <2>4. w = t
        BY <1>1, <2>2, <2>3, PrefixSplit
    <2>5. QED
        BY <2>4
<1>2. CASE x /\ y
    BY <1>2, Cancel DEF Option
<1>3. CASE x /\ ~y
    BY <1>1, <1>3, Empty DEF Option
<1>4. CASE ~x /\ y
    BY <1>1, <1>4, Empty DEF Option
<1>5. CASE ~x /\ ~y
    BY <1>5, Empty DEF Option
<1>6. QED
    BY <1>2, <1>3, <1>4, <1>5

\* What one word that may be there or not, and the rest, begin with.
LEMMA OptionBegins ==
    ASSUME NEW T, NEW w \in Text, w \in T, NEW x, NEW r \in Text, Begins(r, T)
    PROVE  Cat(Option(x, w), r) \in Text /\ Begins(Cat(Option(x, w), r), T)
<1>1. CASE x
    BY <1>1, CatFacts DEF Begins, Option
<1>2. CASE ~x
    BY <1>2, Empty DEF Option
<1>3. QED
    BY <1>1, <1>2

\* Three steps, each there or not.
LEMMA StepsSplit ==
    ASSUME NEW p \in Text, NEW q \in Text, NEW s \in Text, p # q, p # s, q # s,
           PrefixFree({p, q, s}), NEW x1, NEW y1, NEW z1, NEW x2, NEW y2, NEW z2,
           Cat(Option(x1, p), Cat(Option(y1, q), Option(z1, s)))
             = Cat(Option(x2, p), Cat(Option(y2, q), Option(z2, s)))
    PROVE  (x1 <=> x2) /\ (y1 <=> y2) /\ (z1 <=> z2)
<1> DEFINE S == {p, q, s}
           tail(y, z) == Cat(Option(y, q), Option(z, s))
<1>1. Len(p) > 0 /\ Len(q) > 0 /\ Len(s) > 0 /\ PrefixFree(S)
    BY Nonempty
<1>2. ASSUME NEW z
      PROVE  Option(z, s) \in Text /\ Begins(Option(z, s), {s}) /\ Begins(Option(z, s), {q, s})
    <2>1. s = Cat(s, << >>) /\ << >> \in Text
        BY Empty
    <2>2. QED
        BY <2>1 DEF Begins, Option
<1>3. ASSUME NEW y, NEW z PROVE tail(y, z) \in Text /\ Begins(tail(y, z), {q, s})
    BY <1>2, OptionBegins
<1> HIDE DEF tail
<1>4. (x1 <=> x2) /\ tail(y1, z1) = tail(y2, z2)
    <2> DEFINE T == {q, s}
    <2>1. T \subseteq S /\ p \notin T /\ p \in S
        OBVIOUS
    <2>2. /\ tail(y1, z1) \in Text /\ tail(y2, z2) \in Text
          /\ Begins(tail(y1, z1), T) /\ Begins(tail(y2, z2), T)
        BY <1>3
    <2>3. Cat(Option(x1, p), tail(y1, z1)) = Cat(Option(x2, p), tail(y2, z2))
        BY DEF tail
    <2> HIDE DEF T, S
    <2>4. QED
        BY <1>1, <2>1, <2>2, <2>3, OptionSplit
<1>5. (y1 <=> y2) /\ Option(z1, s) = Option(z2, s)
    <2> DEFINE T == {s}
    <2>1. T \subseteq S /\ q \notin T /\ q \in S
        OBVIOUS
    <2>2. /\ Option(z1, s) \in Text /\ Option(z2, s) \in Text
          /\ Begins(Option(z1, s), T) /\ Begins(Option(z2, s), T)
        BY <1>2
    <2>3. Cat(Option(y1, q), Option(z1, s)) = Cat(Option(y2, q), Option(z2, s))
        BY <1>4 DEF tail
    <2> HIDE DEF T, S
    <2>4. QED
        BY <1>1, <2>1, <2>2, <2>3, OptionSplit
<1>6. z1 <=> z2
    <2>1. s # << >>
        BY <1>1, Empty
    <2>2. QED
        BY <1>5, <2>1 DEF Option
<1>7. QED
    BY <1>4, <1>5, <1>6

-----------------------------------------------------------------------------
(* Canonicalizers. *)

NameText == Seq(NameChars)

LEMMA Names ==
    /\ {"nfc", "nfkc", "none"} \subseteq NameText /\ {"cf-simple", "cf-none"} \subseteq NameText
    /\ "-" \in NameText /\ "-bidi" \in NameText /\ "-fmt" \in NameText /\ "-conf" \in NameText
    /\ "" = << >> /\ << >> \in NameText
    /\ "|" \in Text /\ Len("|") = 1 /\ "|" \notin NameText /\ NameChars \subseteq Chars
    /\ NameText \subseteq Text
<1>1. NameChars \subseteq Chars /\ NameText \subseteq Text
    <2>1. NameChars \subseteq Chars
        BY LiteralAssumption
    <2>2. QED
        BY <2>1 DEF NameText, Text
<1>2. "" = << >>
    <2>1. "" \in Text /\ Len("") = 0
        BY <1>1, LiteralAssumption DEF NameText
    <2>2. QED
        BY <2>1, Empty
<1>3. QED
    BY <1>1, <1>2, LiteralAssumption, EmptySeq DEF NameText, Text

LEMMA NameJoins ==
    ASSUME NEW s \in NameText, NEW t \in NameText
    PROVE  Cat(s, t) \in NameText
BY ConcatProperties DEF NameText, Cat

LEMMA ConfigText ==
    ASSUME NEW c \in Configs
    PROVE  /\ ConfigString(c) =
                Cat(c.normalization, Cat("-", Cat(c.caseFold,
                    Cat(Option(c.stripBidi, "-bidi"),
                        Cat(Option(c.stripFormat, "-fmt"), Option(c.applyConfusable, "-conf"))))))
           /\ ConfigString(c) \in NameText
<1> DEFINE n == c.normalization
           f == c.caseFold
           x == Option(c.stripBidi, "-bidi")
           y == Option(c.stripFormat, "-fmt")
           z == Option(c.applyConfusable, "-conf")
<1>1. n \in NameText /\ f \in NameText
    BY Names DEF Configs
<1>2. x \in NameText /\ y \in NameText /\ z \in NameText
    BY Names DEF Option
<1>3. ConfigString(c) = Cat(Cat(Cat(Cat(Cat(n, "-"), f), x), y), z)
    BY Names, Zenon DEF ConfigString, Cat, Option
<1> HIDE DEF n, f, x, y, z
<1>4. ASSUME NEW d \in NameText
      PROVE  Cat(Cat(Cat(Cat(Cat(n, d), f), x), y), z)
               = Cat(n, Cat(d, Cat(f, Cat(x, Cat(y, z)))))
             /\ Cat(n, Cat(d, Cat(f, Cat(x, Cat(y, z))))) \in NameText
    <2>1. /\ n \in Text /\ d \in Text /\ f \in Text /\ x \in Text /\ y \in Text /\ z \in Text
        BY <1>1, <1>2, Names
    <2>2. Cat(y, z) \in NameText /\ Cat(x, Cat(y, z)) \in NameText /\ Cat(f, Cat(x, Cat(y, z))) \in NameText
          /\ Cat(n, d) \in NameText /\ Cat(Cat(n, d), f) \in NameText /\ Cat(Cat(Cat(n, d), f), x) \in NameText
          /\ Cat(d, Cat(f, Cat(x, Cat(y, z)))) \in NameText
        BY <1>1, <1>2, NameJoins
    <2>3. /\ Cat(y, z) \in Text /\ Cat(x, Cat(y, z)) \in Text /\ Cat(f, Cat(x, Cat(y, z))) \in Text
          /\ Cat(n, d) \in Text /\ Cat(Cat(n, d), f) \in Text /\ Cat(Cat(Cat(n, d), f), x) \in Text
        BY <2>2, Names
    <2>4. Cat(n, Cat(d, Cat(f, Cat(x, Cat(y, z))))) \in NameText
        BY <1>1, <2>2, NameJoins
    <2>5. Cat(Cat(Cat(Cat(Cat(n, d), f), x), y), z) = Cat(Cat(Cat(Cat(n, d), f), x), Cat(y, z))
        BY <2>1, <2>3, Regroup
    <2>6. Cat(Cat(Cat(Cat(n, d), f), x), Cat(y, z)) = Cat(Cat(Cat(n, d), f), Cat(x, Cat(y, z)))
        BY <2>1, <2>3, Regroup
    <2>7. Cat(Cat(Cat(n, d), f), Cat(x, Cat(y, z))) = Cat(Cat(n, d), Cat(f, Cat(x, Cat(y, z))))
        BY <2>1, <2>3, Regroup
    <2>8. Cat(Cat(n, d), Cat(f, Cat(x, Cat(y, z)))) = Cat(n, Cat(d, Cat(f, Cat(x, Cat(y, z)))))
        BY <2>1, <2>3, Regroup
    <2>9. QED
        BY <2>4, <2>5, <2>6, <2>7, <2>8
<1>5. "-" \in NameText
    BY Names
<1>6. /\ ConfigString(c) = Cat(n, Cat("-", Cat(f, Cat(x, Cat(y, z)))))
      /\ ConfigString(c) \in NameText
    BY <1>3, <1>4, <1>5
<1>7. QED
    BY <1>6 DEF n, f, x, y, z

\* The steps of a canonicalizer can be read off its string.
LEMMA ConfigStringSplit ==
    ASSUME NEW c \in Configs, NEW d \in Configs, ConfigString(c) = ConfigString(d)
    PROVE  c = d
<1> DEFINE steps(k) == Cat(Option(k.stripBidi, "-bidi"),
                           Cat(Option(k.stripFormat, "-fmt"), Option(k.applyConfusable, "-conf")))
           rest(k) == Cat(k.caseFold, steps(k))
           dash(k) == Cat("-", rest(k))
<1>1. ASSUME NEW k \in Configs
      PROVE  /\ k.normalization \in {"nfc", "nfkc", "none"} /\ k.caseFold \in {"cf-simple", "cf-none"}
             /\ steps(k) \in Text /\ rest(k) \in Text /\ dash(k) \in Text
             /\ k.normalization \in Text /\ k.caseFold \in Text /\ "-" \in Text
    <2>1. k.normalization \in {"nfc", "nfkc", "none"} /\ k.caseFold \in {"cf-simple", "cf-none"}
        BY DEF Configs
    <2>2. /\ Option(k.stripBidi, "-bidi") \in Text
          /\ Option(k.stripFormat, "-fmt") \in Text
          /\ Option(k.applyConfusable, "-conf") \in Text
        BY Names DEF Option
    <2>3. k.normalization \in Text /\ k.caseFold \in Text /\ "-" \in Text
        BY <2>1, Names
    <2>4. steps(k) \in Text
        BY <2>2, CatFacts
    <2> HIDE DEF steps
    <2>5. rest(k) \in Text
        BY <2>3, <2>4, CatFacts
    <2> HIDE DEF rest
    <2>6. QED
        BY <2>1, <2>3, <2>4, <2>5, CatFacts
<1>2. Cat(c.normalization, dash(c)) = Cat(d.normalization, dash(d))
    BY ConfigText
<1>3. c.normalization = d.normalization /\ dash(c) = dash(d)
    <2> DEFINE S == {"nfc", "nfkc", "none"}
    <2>1. PrefixFree(S) /\ c.normalization \in S /\ d.normalization \in S
        BY <1>1, PrefixAssumption
    <2> HIDE DEF S, dash
    <2>2. QED
        BY <1>1, <1>2, <2>1, PrefixSplit
<1>4. rest(c) = rest(d)
    <2> HIDE DEF rest
    <2>1. QED
        BY <1>1, <1>3, Cancel
<1>5. c.caseFold = d.caseFold /\ steps(c) = steps(d)
    <2> DEFINE S == {"cf-simple", "cf-none"}
    <2>1. PrefixFree(S) /\ c.caseFold \in S /\ d.caseFold \in S
        BY <1>1, PrefixAssumption
    <2>2. Cat(c.caseFold, steps(c)) = Cat(d.caseFold, steps(d))
        BY <1>4
    <2> HIDE DEF S, steps
    <2>3. QED
        BY <1>1, <2>1, <2>2, PrefixSplit
<1>6. /\ c.stripBidi <=> d.stripBidi
      /\ c.stripFormat <=> d.stripFormat
      /\ c.applyConfusable <=> d.applyConfusable
    <2>1. "-bidi" \in Text /\ "-fmt" \in Text /\ "-conf" \in Text
        BY Names
    <2>2. "-bidi" # "-fmt" /\ "-bidi" # "-conf" /\ "-fmt" # "-conf"
        OBVIOUS
    <2>3. PrefixFree({"-bidi", "-fmt", "-conf"})
        BY PrefixAssumption
    <2>4. QED
        BY <1>5, <2>1, <2>2, <2>3, StepsSplit
<1>7. QED
    BY <1>3, <1>5, <1>6 DEF Configs

-----------------------------------------------------------------------------
(* Tokenizers. *)

\* The names a tokenizer's name is put together from, innermost first.
NameRow(F, t) ==
    F = [i \in 0 .. Len(t.shingles) |->
            IF i = 0 THEN BasicName(t.basic)
            ELSE ShingleName(t.shingles[Len(t.shingles) + 1 - i], F[i - 1])]

LEMMA NameRowExists ==
    ASSUME NEW t \in TokenizerConfigs
    PROVE  \E F : NameRow(F, t)
<1> DEFINE len == Len(t.shingles)
           basic == BasicName(t.basic)
           Step(i, x) == ShingleName(t.shingles[len + 1 - i], x)
           Row(F, n) == F = [i \in 0 .. n |-> IF i = 0 THEN basic ELSE Step(i, F[i - 1])]
           S == {n \in Nat : \E F : Row(F, n)}
<1>0. len \in Nat
    BY DEF TokenizerConfigs
<1> HIDE DEF basic, Step, len
<1>1. 0 \in S
    <2> DEFINE F == [i \in 0 .. 0 |-> basic]
    <2>1. Row(F, 0)
        OBVIOUS
    <2>2. QED
        BY <2>1
<1>2. ASSUME NEW n \in Nat, n \in S PROVE n + 1 \in S
    <2>1. PICK F : Row(F, n)
        BY <1>2
    <2> DEFINE last == Step(n + 1, F[n])
               G == [i \in 0 .. n + 1 |-> IF i <= n THEN F[i] ELSE last]
    <2>2. (\A i \in 0 .. n : G[i] = F[i]) /\ G[n + 1] = last
        OBVIOUS
    <2> HIDE DEF last
    <2>3. G = [i \in 0 .. n + 1 |-> G[i]]
        OBVIOUS
    <2> HIDE DEF G
    <2>4. ASSUME NEW i \in 0 .. n + 1
          PROVE  G[i] = IF i = 0 THEN basic ELSE Step(i, G[i - 1])
        <3>1. CASE i = 0
            BY <2>1, <2>2, <3>1
        <3>2. CASE i # 0 /\ i <= n
            <4>1. i \in 0 .. n /\ i - 1 \in 0 .. n
                BY <3>2
            <4>2. F[i] = Step(i, F[i - 1])
                BY <2>1, <3>2, <4>1
            <4>3. QED
                BY <2>2, <3>2, <4>1, <4>2
        <3>3. CASE i = n + 1
            <4>1. i - 1 = n /\ i # 0 /\ n \in 0 .. n
                BY <3>3
            <4>2. QED
                BY <2>2, <3>3, <4>1 DEF last
        <3>4. QED
            BY <3>1, <3>2, <3>3
    <2>5. Row(G, n + 1)
        BY <2>3, <2>4
    <2>6. QED
        BY <2>5
<1> HIDE DEF S
<1>3. \A n \in Nat : n \in S
    BY <1>1, <1>2, SetInduction
<1>4. PICK F : Row(F, len)
    BY <1>0, <1>3 DEF S
<1>5. QED
    BY <1>4 DEF NameRow, basic, Step, len

LEMMA TokenizerRow ==
    ASSUME NEW t \in TokenizerConfigs
    PROVE  \E F : /\ F[0] = BasicName(t.basic) /\ TokenizerName(t) = F[Len(t.shingles)]
                  /\ \A i \in 0 .. Len(t.shingles) - 1 :
                        F[i + 1] = ShingleName(t.shingles[Len(t.shingles) - i], F[i])
<1> DEFINE F == CHOOSE F : NameRow(F, t)
<1>1. NameRow(F, t)
    BY NameRowExists
<1>2. TokenizerName(t) = F[Len(t.shingles)]
    BY DEF TokenizerName, NameRow
<1> HIDE DEF F
<1>3. Len(t.shingles) \in Nat
    BY DEF TokenizerConfigs
<1>4. F[0] = BasicName(t.basic)
    BY <1>1, <1>3 DEF NameRow
<1>5. ASSUME NEW i \in 0 .. Len(t.shingles) - 1
      PROVE  F[i + 1] = ShingleName(t.shingles[Len(t.shingles) - i], F[i])
    <2>1. /\ i + 1 \in 0 .. Len(t.shingles) /\ i + 1 # 0 /\ (i + 1) - 1 = i
          /\ Len(t.shingles) + 1 - (i + 1) = Len(t.shingles) - i
        <3> DEFINE n == Len(t.shingles)
        <3>1. n \in Nat /\ i \in 0 .. n - 1
            BY <1>3
        <3> HIDE DEF n
        <3>2. i + 1 \in 0 .. n /\ i + 1 # 0 /\ (i + 1) - 1 = i /\ n + 1 - (i + 1) = n - i
            BY <3>1
        <3>3. QED
            BY <3>2 DEF n
    <2>2. QED
        BY <1>1, <2>1 DEF NameRow
<1>6. QED
    BY <1>2, <1>4, <1>5

\* Tokenizers with shingle sizes whose digits are known.
NamedTokenizers ==
    {t \in TokenizerConfigs : \A i \in 1 .. Len(t.shingles) : t.shingles[i] \in Numbers}

BasicNames == {"word-uax29", "grapheme-uax29", "cjk-jieba", "cjk-jieba-hmm"}

LEMMA BasicNameFacts ==
    ASSUME NEW t \in TokenizerConfigs, NEW u \in TokenizerConfigs
    PROVE  /\ BasicName(t.basic) \in BasicNames /\ BasicName(t.basic) \in NameText
           /\ BasicName(t.basic) = BasicName(u.basic) => t.basic = u.basic
<1>1. t.basic \in {"word", "grapheme", "cjk", "cjk-hmm"} /\ u.basic \in {"word", "grapheme", "cjk", "cjk-hmm"}
    BY DEF TokenizerConfigs
<1>2. BasicNames \subseteq NameText
    BY LiteralAssumption DEF BasicNames, NameText
<1>3. ASSUME NEW b \in {"word", "grapheme", "cjk", "cjk-hmm"}
      PROVE  BasicName(b) \in BasicNames
    BY DEF BasicName, BasicNames, WordName, GraphemeName, CjkName
<1>4. ASSUME NEW b \in {"word", "grapheme", "cjk", "cjk-hmm"},
             NEW d \in {"word", "grapheme", "cjk", "cjk-hmm"}, BasicName(b) = BasicName(d)
      PROVE  b = d
    BY <1>4 DEF BasicName, WordName, GraphemeName, CjkName
<1>5. QED
    BY <1>1, <1>2, <1>3, <1>4

LEMMA ShingleText ==
    ASSUME NEW k \in Numbers, NEW inner \in NameText
    PROVE  /\ ShingleName(k, inner) = Cat("shingle-k=", Cat(ToString(k), Cat("/", inner)))
           /\ ShingleName(k, inner) \in NameText
           /\ ToString(k) \in Seq(DigitChars) /\ ToString(k) \in NameText
           /\ Cat("/", inner) \in NameText /\ Cat(ToString(k), Cat("/", inner)) \in NameText
<1> DEFINE d == ToString(k)
<1>1. d \in Seq(DigitChars)
    BY DigitAssumption
<1>2. d \in NameText
    <2>1. DigitChars \subseteq NameChars
        BY LiteralAssumption
    <2>2. QED
        BY <1>1, <2>1 DEF NameText
<1>3. "shingle-k=" \in NameText /\ "/" \in NameText
    BY LiteralAssumption DEF NameText
<1>4. ShingleName(k, inner) = Cat(Cat(Cat("shingle-k=", d), "/"), inner)
    BY DEF ShingleName, Cat
<1> HIDE DEF d
<1>5. ASSUME NEW p \in NameText, NEW q \in NameText
      PROVE  /\ Cat(Cat(Cat(p, d), q), inner) = Cat(p, Cat(d, Cat(q, inner)))
             /\ Cat(q, inner) \in NameText /\ Cat(d, Cat(q, inner)) \in NameText
             /\ Cat(p, Cat(d, Cat(q, inner))) \in NameText
    <2>1. Cat(q, inner) \in NameText /\ Cat(d, Cat(q, inner)) \in NameText /\ Cat(p, d) \in NameText
        BY <1>2, NameJoins
    <2>2. Cat(p, Cat(d, Cat(q, inner))) \in NameText
        BY <2>1, NameJoins
    <2>3. /\ p \in Text /\ d \in Text /\ q \in Text /\ inner \in Text
          /\ Cat(q, inner) \in Text /\ Cat(p, d) \in Text
        BY <1>2, <2>1, Names
    <2>4. Cat(Cat(Cat(p, d), q), inner) = Cat(Cat(p, d), Cat(q, inner))
        BY <2>3, Regroup
    <2>5. Cat(Cat(p, d), Cat(q, inner)) = Cat(p, Cat(d, Cat(q, inner)))
        BY <2>3, Regroup
    <2>6. QED
        BY <2>1, <2>2, <2>4, <2>5
<1>6. QED
    BY <1>1, <1>2, <1>3, <1>4, <1>5 DEF d

\* A shingle adaptor's name tells its size and what it adapts, and is no basic name.
LEMMA ShingleSplit ==
    ASSUME NEW k \in Numbers, NEW inner \in NameText
    PROVE  /\ \A b \in BasicNames : ShingleName(k, inner) # b
           /\ \A m \in Numbers, other \in NameText :
                 ShingleName(k, inner) = ShingleName(m, other) => k = m /\ inner = other
<1>1. "shingle-k=" \in Text /\ "/" \in Text /\ Len("/") = 1 /\ "/" \notin Seq(DigitChars)
      /\ DigitChars \subseteq Chars
    <2>1. "shingle-k=" \in NameText /\ "/" \in NameText
        BY LiteralAssumption DEF NameText
    <2>2. DigitChars \subseteq Chars
        BY LiteralAssumption
    <2>3. QED
        BY <2>1, <2>2, Names, LiteralAssumption
<1> DEFINE rest(m, other) == Cat(ToString(m), Cat("/", other))
<1>2. ASSUME NEW m \in Numbers, NEW other \in NameText
      PROVE  /\ ShingleName(m, other) = Cat("shingle-k=", rest(m, other)) /\ rest(m, other) \in Text
             /\ ToString(m) \in Seq(DigitChars) /\ other \in Text
    BY ShingleText, Names
<1>3. ASSUME NEW b \in BasicNames, ShingleName(k, inner) = b
      PROVE  FALSE
    <2> DEFINE S == {b, "shingle-k="}
    <2>1. PrefixFree(S) /\ b \in S /\ "shingle-k=" \in S
        BY PrefixAssumption DEF BasicNames
    <2>2. b \in Text
        <3>1. b \in NameText
            BY LiteralAssumption DEF BasicNames, NameText
        <3>2. QED
            BY <3>1, Names
    <2>3. b # "shingle-k="
        BY DEF BasicNames
    <2> HIDE DEF S, rest
    <2>4. Cat("shingle-k=", rest(k, inner)) = Cat(b, << >>) /\ << >> \in Text
        BY <1>2, <1>3, <2>2, Empty
    <2>5. b = "shingle-k="
        BY <1>1, <1>2, <2>1, <2>2, <2>4, PrefixSplit
    <2>6. QED
        BY <2>3, <2>5
<1>4. ASSUME NEW m \in Numbers, NEW other \in NameText, ShingleName(k, inner) = ShingleName(m, other)
      PROVE  k = m /\ inner = other
    <2>1. rest(k, inner) = rest(m, other)
        <3> HIDE DEF rest
        <3>1. QED
            BY <1>1, <1>2, <1>4, Cancel
    <2>2. ToString(k) = ToString(m) /\ inner = other
        BY <1>1, <1>2, <2>1, SplitAt
    <2>3. QED
        BY <2>2, DigitAssumption
<1>5. QED
    BY <1>3, <1>4

\* The tokenizer, with every shingle size in it, can be read off its name.
LEMMA TokenizerNameSplit ==
    ASSUME NEW t \in NamedTokenizers, NEW u \in NamedTokenizers
    PROVE  /\ TokenizerName(t) \in NameText
           /\ TokenizerName(t) = TokenizerName(u) => t = u
<1> DEFINE n == Len(t.shingles)
           m == Len(u.shingles)
           size(v, i) == v.shingles[Len(v.shingles) - i]
           Named(F, v) ==
               /\ F[0] = BasicName(v.basic) /\ TokenizerName(v) = F[Len(v.shingles)]
               /\ \A i \in 0 .. Len(v.shingles) - 1 : F[i + 1] = ShingleName(size(v, i), F[i])
<1>1. ASSUME NEW v \in NamedTokenizers
      PROVE  /\ v \in TokenizerConfigs /\ Len(v.shingles) \in Nat /\ v.shingles \in Seq(Nat)
             /\ \A i \in 0 .. Len(v.shingles) - 1 : size(v, i) \in Numbers
             /\ \E F : Named(F, v)
    <2>1. v \in TokenizerConfigs /\ v.shingles \in Seq(Nat)
        BY DEF NamedTokenizers, TokenizerConfigs
    <2>2. Len(v.shingles) \in Nat
        BY <2>1
    <2>3. ASSUME NEW i \in 0 .. Len(v.shingles) - 1 PROVE size(v, i) \in Numbers
        <3>1. Len(v.shingles) - i \in 1 .. Len(v.shingles)
            BY <2>2
        <3>2. QED
            BY <3>1 DEF NamedTokenizers
    <2>4. \E F : Named(F, v)
        BY <2>1, TokenizerRow
    <2>5. QED
        BY <2>1, <2>2, <2>3, <2>4
<1>2. PICK F : Named(F, t)
    BY <1>1
<1>3. PICK G : Named(G, u)
    BY <1>1
<1>4. n \in Nat /\ m \in Nat
    BY <1>1
<1>5. ASSUME NEW v \in NamedTokenizers, NEW E, Named(E, v)
      PROVE  \A i \in 0 .. Len(v.shingles) : E[i] \in NameText
    <2> DEFINE S == {i \in Nat : i <= Len(v.shingles) => E[i] \in NameText}
    <2>1. 0 \in S
        BY <1>1, <1>5, BasicNameFacts
    <2>2. ASSUME NEW i \in Nat, i \in S PROVE i + 1 \in S
        <3> SUFFICES ASSUME i + 1 <= Len(v.shingles) PROVE E[i + 1] \in NameText
            OBVIOUS
        <3>1. i \in 0 .. Len(v.shingles) - 1 /\ i <= Len(v.shingles)
            BY <1>1
        <3>2. E[i + 1] = ShingleName(size(v, i), E[i]) /\ size(v, i) \in Numbers /\ E[i] \in NameText
            BY <1>1, <1>5, <2>2, <3>1
        <3> HIDE DEF size
        <3>3. QED
            BY <3>2, ShingleText
    <2> HIDE DEF S
    <2>3. \A i \in Nat : i \in S
        BY <2>1, <2>2, SetInduction
    <2>4. QED
        BY <1>1, <2>3 DEF S
<1>6. TokenizerName(t) \in NameText
    BY <1>2, <1>4, <1>5
<1> DEFINE Same(i, k) ==
        i = k /\ t.basic = u.basic /\ \A j \in 0 .. i - 1 : size(t, j) = size(u, j)
           S == {i \in Nat : i <= n => \A k \in 0 .. m : F[i] = G[k] => Same(i, k)}
<1>7. 0 \in S
    <2> SUFFICES ASSUME NEW k \in 0 .. m, F[0] = G[k] PROVE Same(0, k)
        BY <1>4
    <2>1. F[0] \in BasicNames /\ F[0] = BasicName(t.basic) /\ G[0] = BasicName(u.basic)
        BY <1>1, <1>2, <1>3, BasicNameFacts
    <2>2. k = 0
        <3> SUFFICES ASSUME k # 0 PROVE FALSE
            OBVIOUS
        <3>1. k - 1 \in 0 .. m - 1 /\ (k - 1) + 1 = k /\ k - 1 \in 0 .. m
            BY <1>4
        <3>2. G[k] = ShingleName(size(u, k - 1), G[k - 1]) /\ size(u, k - 1) \in Numbers /\ G[k - 1] \in NameText
            BY <1>1, <1>3, <1>5, <3>1
        <3> HIDE DEF size
        <3>3. \A b \in BasicNames : ShingleName(size(u, k - 1), G[k - 1]) # b
            BY <3>2, ShingleSplit
        <3>4. QED
            BY <2>1, <3>2, <3>3
    <2>3. t.basic = u.basic
        BY <1>1, <2>1, <2>2, BasicNameFacts
    <2>4. QED
        BY <2>2, <2>3
<1>8. ASSUME NEW i \in Nat, i \in S PROVE i + 1 \in S
    <2> SUFFICES ASSUME i + 1 <= n, NEW k \in 0 .. m, F[i + 1] = G[k] PROVE Same(i + 1, k)
        OBVIOUS
    <2>1. i \in 0 .. n - 1 /\ i \in 0 .. n /\ i <= n
        BY <1>4
    <2>2. F[i + 1] = ShingleName(size(t, i), F[i]) /\ size(t, i) \in Numbers /\ F[i] \in NameText
        BY <1>1, <1>2, <1>5, <2>1
    <2>3. k # 0
        <3> SUFFICES ASSUME k = 0 PROVE FALSE
            OBVIOUS
        <3>1. G[0] \in BasicNames
            BY <1>1, <1>3, BasicNameFacts
        <3> HIDE DEF size
        <3>2. QED
            BY <2>2, <3>1, ShingleSplit
    <2>4. k - 1 \in 0 .. m - 1 /\ (k - 1) + 1 = k /\ k - 1 \in 0 .. m
        BY <1>4, <2>3
    <2>5. G[k] = ShingleName(size(u, k - 1), G[k - 1]) /\ size(u, k - 1) \in Numbers /\ G[k - 1] \in NameText
        BY <1>1, <1>3, <1>5, <2>4
    <2>6. size(t, i) = size(u, k - 1) /\ F[i] = G[k - 1]
        <3> DEFINE p == size(t, i)
                   q == size(u, k - 1)
                   x == F[i]
                   y == G[k - 1]
        <3>1. p \in Numbers /\ q \in Numbers /\ x \in NameText /\ y \in NameText
              /\ ShingleName(p, x) = ShingleName(q, y)
            BY <2>2, <2>5
        <3> HIDE DEF p, q, x, y
        <3>2. p = q /\ x = y
            BY <3>1, ShingleSplit
        <3>3. QED
            BY <3>2 DEF p, q, x, y
    <2>7. Same(i, k - 1)
        BY <1>8, <2>1, <2>4, <2>6
    <2>8. i + 1 = k /\ t.basic = u.basic
        BY <2>4, <2>7
    <2>9. ASSUME NEW j \in 0 .. i PROVE size(t, j) = size(u, j)
        <3> HIDE DEF size
        <3>1. CASE j = i
            BY <2>6, <2>7, <3>1
        <3>2. CASE j \in 0 .. i - 1
            BY <2>7, <3>2
        <3>3. QED
            BY <3>1, <3>2
    <2> HIDE DEF size
    <2>10. QED
        BY <2>8, <2>9
<1>9. \A i \in Nat : i \in S
    <2> HIDE DEF S
    <2>1. QED
        BY <1>7, <1>8, SetInduction
<1>10. ASSUME TokenizerName(t) = TokenizerName(u) PROVE t = u
    <2>1. Same(n, m)
        <3>1. n \in S /\ m \in 0 .. m /\ n <= n
            BY <1>4, <1>9
        <3>2. F[n] = G[m]
            BY <1>2, <1>3, <1>10
        <3> HIDE DEF Same
        <3>3. QED
            BY <3>1, <3>2
    <2>2. ASSUME NEW i \in 1 .. n PROVE t.shingles[i] = u.shingles[i]
        <3>1. n - i \in 0 .. n - 1 /\ n - (n - i) = i
            BY <1>4
        <3>2. size(t, n - i) = size(u, n - i)
            BY <2>1, <3>1
        <3>3. QED
            BY <2>1, <3>1, <3>2
    <2>3. t.shingles = u.shingles
        BY <1>1, <2>1, <2>2, SeqEqual
    <2>4. QED
        BY <1>1, <2>1, <2>3 DEF TokenizerConfigs
<1>11. QED
    BY <1>6, <1>10

-----------------------------------------------------------------------------
(* The strings that are hashed. *)

\* A string of three fields, and what stands in the last.
Bar(x) == Cat("|", x)
Line(s, t, x) == Cat(s, Bar(Cat(t, Bar(x))))

\* The last field of the classical fingerprinters.
Classical(cfg, f, s) ==
    Cat(cfg, Bar(Cat(FamilyName(f), Bar(ToString(s)))))

LEMMA BarSplit ==
    ASSUME NEW s \in NameText, NEW t \in NameText, NEW u \in Text, NEW v \in Text,
           Cat(s, Bar(u)) = Cat(t, Bar(v))
    PROVE  s = t /\ u = v
<1> DEFINE b == "|"
<1>1. b \in Text /\ Len(b) = 1 /\ b \notin Seq(NameChars) /\ NameChars \subseteq Chars
    BY Names DEF NameText
<1>2. s \in Seq(NameChars) /\ t \in Seq(NameChars)
    BY DEF NameText
<1>3. Cat(s, Cat(b, u)) = Cat(t, Cat(b, v))
    BY DEF Bar
<1> HIDE DEF b
<1>4. QED
    BY <1>1, <1>2, <1>3, SplitAt

LEMMA BarText ==
    ASSUME NEW s \in NameText, NEW u \in Text
    PROVE  Cat(s, Bar(u)) \in Text /\ Cat(s, Bar(u)) # "" /\ \A t \in NameText : Cat(s, Bar(u)) # t
<1> DEFINE b == "|"
<1>1. b \in Text /\ Len(b) = 1 /\ b \notin Seq(NameChars) /\ NameChars \subseteq Chars
    BY Names DEF NameText
<1>2. s \in Seq(NameChars) /\ s \in Text
    BY Names DEF NameText
<1> HIDE DEF b
<1>3. ASSUME NEW t \in NameText PROVE Cat(s, Cat(b, u)) # t
    <2>1. t \in Seq(NameChars)
        BY DEF NameText
    <2>2. QED
        BY <1>1, <1>2, <2>1, SplitAt
<1>4. Cat(b, u) \in Text
    BY <1>1, CatFacts
<1>5. Cat(s, Cat(b, u)) \in Text
    BY <1>2, <1>4, CatFacts
<1>6. "" \in NameText
    BY Names
<1>7. QED
    BY <1>3, <1>5, <1>6 DEF b, Bar

LEMMA LineText ==
    ASSUME NEW s \in NameText, NEW t \in NameText, NEW x \in Text
    PROVE  Line(s, t, x) \in Text /\ Line(s, t, x) # ""
<1>1. Cat(t, Bar(x)) \in Text
    BY BarText
<1>2. QED
    BY <1>1, BarText DEF Line

LEMMA LineSplit ==
    ASSUME NEW s \in NameText, NEW t \in NameText, NEW x \in Text,
           NEW p \in NameText, NEW q \in NameText, NEW y \in Text, Line(s, t, x) = Line(p, q, y)
    PROVE  s = p /\ t = q /\ x = y
<1>1. Cat(t, Bar(x)) \in Text /\ Cat(q, Bar(y)) \in Text
    BY BarText
<1>2. s = p /\ Cat(t, Bar(x)) = Cat(q, Bar(y))
    BY <1>1, BarSplit DEF Line
<1>3. QED
    BY <1>2, BarSplit

Hashers == {"Murmur", "Xxh3"}

LEMMA FamilyNames ==
    ASSUME NEW f \in Hashers, NEW g \in Hashers
    PROVE  FamilyName(f) \in NameText /\ (FamilyName(f) = FamilyName(g) => f = g)
<1>1. "mmh3-x64-128" \in NameText /\ "xxh3-64" \in NameText
    BY LiteralAssumption DEF NameText
<1>2. QED
    BY <1>1 DEF FamilyName, Hashers

LEMMA ClassicalSplit ==
    ASSUME NEW c \in NameText, NEW f \in Hashers, NEW n \in Numbers,
           NEW d \in NameText, NEW g \in Hashers, NEW m \in Numbers
    PROVE  /\ Classical(c, f, n) \in Text /\ Classical(c, f, n) # d
           /\ Classical(c, f, n) = Classical(d, g, m) => c = d /\ f = g /\ n = m
<1>1. ToString(n) \in Text /\ ToString(m) \in Text
    <2>1. DigitChars \subseteq Chars
        BY LiteralAssumption
    <2>2. QED
        BY <2>1, DigitAssumption DEF Text
<1>2. FamilyName(f) \in NameText /\ FamilyName(g) \in NameText
    BY FamilyNames
<1> DEFINE x == Cat(FamilyName(f), Bar(ToString(n)))
           y == Cat(FamilyName(g), Bar(ToString(m)))
<1>3. x \in Text /\ y \in Text
    BY <1>1, <1>2, BarText
<1> HIDE DEF x, y
<1>4. Classical(c, f, n) = Cat(c, Bar(x)) /\ Classical(d, g, m) = Cat(d, Bar(y))
    BY DEF Classical, x, y
<1>5. Classical(c, f, n) \in Text /\ Classical(c, f, n) # d
    BY <1>3, <1>4, BarText
<1>6. ASSUME Classical(c, f, n) = Classical(d, g, m) PROVE c = d /\ f = g /\ n = m
    <2>1. c = d /\ x = y
        BY <1>3, <1>4, <1>6, BarSplit
    <2>2. FamilyName(f) = FamilyName(g) /\ ToString(n) = ToString(m)
        BY <1>1, <1>2, <2>1, BarSplit DEF x, y
    <2>3. QED
        BY <2>1, <2>2, FamilyNames, DigitAssumption
<1>7. QED
    BY <1>5, <1>6

LEMMA FiveJoined ==
    ASSUME NEW p \in Text, NEW q \in Text, NEW r \in Text, NEW u \in Text, NEW v \in Text
    PROVE  /\ Cat(Cat(Cat(Cat(p, q), r), u), v) = Cat(p, Cat(q, Cat(r, Cat(u, v))))
           /\ Cat(p, Cat(q, Cat(r, Cat(u, v)))) \in Text
<1>1. Cat(p, q) \in Text /\ Cat(Cat(p, q), r) \in Text /\ Cat(u, v) \in Text
    BY CatFacts
<1>2. Cat(r, Cat(u, v)) \in Text
    BY <1>1, CatFacts
<1>3. Cat(q, Cat(r, Cat(u, v))) \in Text
    BY <1>2, CatFacts
<1>4. Cat(p, Cat(q, Cat(r, Cat(u, v)))) \in Text
    BY <1>3, CatFacts
<1>5. Cat(Cat(Cat(Cat(p, q), r), u), v) = Cat(Cat(Cat(p, q), r), Cat(u, v))
    BY <1>1, Regroup
<1>6. Cat(Cat(Cat(p, q), r), Cat(u, v)) = Cat(Cat(p, q), Cat(r, Cat(u, v)))
    BY <1>1, Regroup
<1>7. Cat(Cat(p, q), Cat(r, Cat(u, v))) = Cat(p, Cat(q, Cat(r, Cat(u, v))))
    BY <1>2, Regroup
<1>8. QED
    BY <1>4, <1>5, <1>6, <1>7

\* What is hashed is a line.
LEMMA HashOfText ==
    ASSUME NEW c \in Configs, NEW t \in NameText, NEW a \in NameText
    PROVE  ConfigHashOf(c, t, a) = Line(ConfigString(c), t, a)
<1> DEFINE s == ConfigString(c)
           b == "|"
<1>1. s \in Text /\ t \in Text /\ a \in Text /\ b \in Text
    <2>1. s \in NameText
        BY ConfigText
    <2> HIDE DEF s
    <2>2. QED
        BY <2>1, Names
<1>2. ConfigHashOf(c, t, a) = Cat(Cat(Cat(Cat(s, b), t), b), a)
    BY DEF ConfigHashOf, Cat
<1> HIDE DEF s, b
<1>3. Cat(Cat(Cat(Cat(s, b), t), b), a) = Cat(s, Cat(b, Cat(t, Cat(b, a))))
    BY <1>1, FiveJoined
<1>4. QED
    BY <1>2, <1>3 DEF Line, Bar, s, b

LEMMA HashText ==
    ASSUME NEW c \in Configs, NEW t \in NameText, NEW a \in NameText, NEW f \in Hashers, NEW n \in Numbers
    PROVE  ConfigHashClassical(c, t, a, f, n) = Line(ConfigString(c), t, Classical(a, f, n))
<1> DEFINE s == ConfigString(c)
           b == "|"
           g == FamilyName(f)
           d == ToString(n)
<1>1. s \in Text /\ t \in Text /\ a \in Text /\ b \in Text /\ g \in Text /\ d \in Text
    <2>1. s \in NameText /\ g \in NameText
        BY ConfigText, FamilyNames
    <2>2. DigitChars \subseteq Chars
        BY LiteralAssumption
    <2>3. d \in Text
        BY <2>2, DigitAssumption DEF Text
    <2> HIDE DEF s, g, d
    <2>4. QED
        BY <2>1, <2>3, Names
<1>2. ConfigHashOf(c, t, a) = Cat(s, Cat(b, Cat(t, Cat(b, a))))
    BY HashOfText DEF Line, Bar
<1>3. ConfigHashClassical(c, t, a, f, n) = Cat(Cat(Cat(Cat(ConfigHashOf(c, t, a), b), g), b), d)
    BY DEF ConfigHashClassical, Cat
<1> HIDE DEF s, b, g, d
<1> DEFINE x == Cat(b, Cat(g, Cat(b, d)))
<1>4. x \in Text
    <2>1. Cat(b, d) \in Text
        BY <1>1, CatFacts
    <2>2. Cat(g, Cat(b, d)) \in Text
        BY <1>1, <2>1, CatFacts
    <2>3. QED
        BY <1>1, <2>2, CatFacts
<1>5. ASSUME NEW l \in Text PROVE Cat(Cat(Cat(Cat(l, b), g), b), d) = Cat(l, x)
    BY <1>1, FiveJoined
<1> HIDE DEF x
<1>6. Cat(b, a) \in Text /\ Cat(t, Cat(b, a)) \in Text /\ Cat(b, Cat(t, Cat(b, a))) \in Text
    <2>1. Cat(b, a) \in Text
        BY <1>1, CatFacts
    <2>2. Cat(t, Cat(b, a)) \in Text
        BY <1>1, <2>1, CatFacts
    <2>3. QED
        BY <1>1, <2>1, <2>2, CatFacts
<1>7. Cat(s, Cat(b, Cat(t, Cat(b, a)))) \in Text
    BY <1>1, <1>6, CatFacts
<1>8. Cat(Cat(s, Cat(b, Cat(t, Cat(b, a)))), x) = Cat(s, Cat(b, Cat(t, Cat(b, Cat(a, x)))))
    <2>1. Cat(Cat(s, Cat(b, Cat(t, Cat(b, a)))), x) = Cat(s, Cat(Cat(b, Cat(t, Cat(b, a))), x))
        BY <1>1, <1>4, <1>6, Regroup
    <2>2. Cat(Cat(b, Cat(t, Cat(b, a))), x) = Cat(b, Cat(Cat(t, Cat(b, a)), x))
        BY <1>1, <1>4, <1>6, Regroup
    <2>3. Cat(Cat(t, Cat(b, a)), x) = Cat(t, Cat(Cat(b, a), x))
        BY <1>1, <1>4, <1>6, Regroup
    <2>4. Cat(Cat(b, a), x) = Cat(b, Cat(a, x))
        BY <1>1, <1>4, Regroup
    <2>5. QED
        BY <2>1, <2>2, <2>3, <2>4
<1>9. ConfigHashClassical(c, t, a, f, n) = Cat(Cat(s, Cat(b, Cat(t, Cat(b, a)))), x)
    BY <1>2, <1>3, <1>5, <1>7
<1>10. Cat(s, Cat(b, Cat(t, Cat(b, Cat(a, x))))) = Line(ConfigString(c), t, Classical(a, f, n))
    BY DEF Line, Classical, Bar, s, b, g, d, x
<1>11. QED
    BY <1>8, <1>9, <1>10

-----------------------------------------------------------------------------
(* Fingerprinters. *)

LEMMA WeightingNames ==
    ASSUME NEW w \in Weightings, NEW v \in Weightings
    PROVE  /\ WeightingName(w) \in NameText
           /\ WeightingName(w) = WeightingName(v) <=> w.kind = v.kind
<1>1. w.kind \in {"Uniform", "Tf", "IdfWeighted"} /\ v.kind \in {"Uniform", "Tf", "IdfWeighted"}
    BY DEF Weightings
<1>2. "uniform" \in NameText /\ "tf" \in NameText /\ "idf-weighted" \in NameText
    BY LiteralAssumption DEF NameText
<1>3. QED
    BY <1>1, <1>2 DEF WeightingName

LEMMA AlgoCfgs ==
    ASSUME NEW n \in SlotCounts, NEW k \in SlotCounts
    PROVE  /\ MinHashCfg(n) \in NameText
           /\ MinHashCfg(n) = MinHashCfg(k) => n = k
           /\ \A w \in Weightings : SimHashCfg(w) \in NameText /\ MinHashCfg(n) # SimHashCfg(w)
<1> DEFINE p == "minhash-h"
           q == "simhash-b64-"
<1>1. p \in NameText /\ q \in NameText /\ p # q /\ PrefixFree({p, q})
    BY LiteralAssumption, PrefixAssumption DEF NameText
<1>2. ToString(n) \in NameText /\ ToString(k) \in NameText /\ (ToString(n) = ToString(k) => n = k)
    <2>1. n \in Numbers /\ k \in Numbers
        BY DEF Numbers
    <2>2. DigitChars \subseteq NameChars
        BY LiteralAssumption
    <2>3. QED
        BY <2>1, <2>2, DigitAssumption DEF NameText
<1>3. MinHashCfg(n) = Cat(p, ToString(n)) /\ MinHashCfg(k) = Cat(p, ToString(k))
    BY DEF MinHashCfg, Cat
<1>4. \A w \in Weightings : SimHashCfg(w) = Cat(q, WeightingName(w))
    BY DEF SimHashCfg, Cat
<1> HIDE DEF p, q
<1>5. p \in Text /\ q \in Text /\ ToString(n) \in Text /\ ToString(k) \in Text
    BY <1>1, <1>2, Names
<1>6. MinHashCfg(n) \in NameText
    BY <1>1, <1>2, <1>3, NameJoins
<1>7. ASSUME NEW w \in Weightings PROVE SimHashCfg(w) \in NameText /\ MinHashCfg(n) # SimHashCfg(w)
    <2> DEFINE S == {p, q}
               x == WeightingName(w)
    <2>1. PrefixFree(S) /\ p \in S /\ q \in S
        BY <1>1
    <2>2. x \in NameText /\ SimHashCfg(w) = Cat(q, x)
        BY <1>4, WeightingNames
    <2> HIDE DEF S, x
    <2>3. x \in Text /\ SimHashCfg(w) \in NameText
        BY <1>1, <2>2, Names, NameJoins
    <2>4. ASSUME Cat(p, ToString(n)) = Cat(q, x) PROVE FALSE
        <3>1. p = q
            BY <1>5, <2>1, <2>3, <2>4, PrefixSplit
        <3>2. QED
            BY <1>1, <3>1
    <2>5. QED
        BY <1>3, <2>2, <2>3, <2>4
<1>8. ASSUME MinHashCfg(n) = MinHashCfg(k) PROVE n = k
    <2>1. ToString(n) = ToString(k)
        BY <1>3, <1>5, <1>8, Cancel
    <2>2. QED
        BY <1>2, <2>1
<1>9. QED
    BY <1>6, <1>7, <1>8

LEMMA SimHashCfgSplit ==
    ASSUME NEW w \in Weightings, NEW v \in Weightings, SimHashCfg(w) = SimHashCfg(v)
    PROVE  w.kind = v.kind
<1> DEFINE q == "simhash-b64-"
<1>1. q \in NameText /\ WeightingName(w) \in NameText /\ WeightingName(v) \in NameText
    BY WeightingNames, LiteralAssumption DEF NameText
<1>2. Cat(q, WeightingName(w)) = Cat(q, WeightingName(v))
    BY DEF SimHashCfg, Cat
<1> HIDE DEF q
<1>3. q \in Text /\ WeightingName(w) \in Text /\ WeightingName(v) \in Text
    BY <1>1, Names
<1>4. WeightingName(w) = WeightingName(v)
    BY <1>2, <1>3, Cancel
<1>5. QED
    BY <1>4, WeightingNames

\* The numbers a fingerprinter can be seeded with.
SeedValues == Seeds \cup {DefaultSeed}

MinHashBuilders == [algorithm : {"MinHash"}, seed : SeedValues, hasher : Hashers]
SimHashBuilders ==
    [algorithm : {"SimHash"}, seed : SeedValues, hasher : Hashers, weighting : Weightings]
MinHashers ==
    [algorithm : {"MinHash"}, seed : SeedValues, hasher : Hashers,
     canonicalizer : Configs, tokenizer : NamedTokenizers, H : SlotCounts]
SimHashers ==
    [algorithm : {"SimHash"}, seed : SeedValues, hasher : Hashers, weighting : Weightings,
     canonicalizer : Configs, tokenizer : NamedTokenizers]
TlshHashers == [algorithm : {"Tlsh"}, canonicalizer : Configs]
Providers == [algorithm : {"Embedding"}, model : ModelIds \cup {Nothing}, length : Lengths]

Hashing == MinHashers \cup SimHashers \cup TlshHashers
Finished == Hashing \cup Providers

LEMMA MinHasherFields ==
    ASSUME NEW p \in MinHashers
    PROVE  /\ p.algorithm = "MinHash" /\ p.seed \in Numbers /\ p.hasher \in Hashers
           /\ p.canonicalizer \in Configs /\ p.tokenizer \in NamedTokenizers /\ p.H \in SlotCounts
           /\ DOMAIN p = {"algorithm", "seed", "hasher", "canonicalizer", "tokenizer", "H"}
           /\ ~IsBuilder(p) /\ HasConfigHash(p)
BY DEF MinHashers, SeedValues, Numbers, IsBuilder, HasConfigHash

LEMMA SimHasherFields ==
    ASSUME NEW p \in SimHashers
    PROVE  /\ p.algorithm = "SimHash" /\ p.seed \in Numbers /\ p.hasher \in Hashers
           /\ p.weighting \in Weightings
           /\ p.canonicalizer \in Configs /\ p.tokenizer \in NamedTokenizers
           /\ DOMAIN p = {"algorithm", "seed", "hasher", "weighting", "canonicalizer", "tokenizer"}
           /\ ~IsBuilder(p) /\ HasConfigHash(p)
BY DEF SimHashers, SeedValues, Numbers, IsBuilder, HasConfigHash

LEMMA TlshFields ==
    ASSUME NEW p \in TlshHashers
    PROVE  /\ p.algorithm = "Tlsh" /\ p.canonicalizer \in Configs
           /\ DOMAIN p = {"algorithm", "canonicalizer"}
           /\ ~IsBuilder(p) /\ HasConfigHash(p)
BY DEF TlshHashers, IsBuilder, HasConfigHash

LEMMA ProviderFields ==
    ASSUME NEW p \in Providers
    PROVE  /\ p.algorithm = "Embedding" /\ p.model \in ModelIds \cup {Nothing}
           /\ ~IsBuilder(p) /\ ~HasConfigHash(p)
BY DEF Providers, IsBuilder, HasConfigHash

LEMMA BuilderFields ==
    ASSUME NEW p \in MinHashBuilders \cup SimHashBuilders
    PROVE  IsBuilder(p) /\ ~HasConfigHash(p)
BY DEF MinHashBuilders, SimHashBuilders, IsBuilder, HasConfigHash

-----------------------------------------------------------------------------
(* The fields of what is hashed for a fingerprinter. *)

TokenizerField(p) == IF p.algorithm = "Tlsh" THEN "tlsh" ELSE TokenizerName(p.tokenizer)
CfgField(p) ==
    CASE p.algorithm = "MinHash" -> MinHashCfg(p.H)
      [] p.algorithm = "SimHash" -> SimHashCfg(p.weighting)
      [] p.algorithm = "Tlsh"    -> TlshCfg
LastField(p) ==
    IF p.algorithm = "Tlsh" THEN CfgField(p) ELSE Classical(CfgField(p), p.hasher, p.seed)

ByHand(p) == ConfigHashOf(p.canonicalizer, TokenizerField(p), CfgField(p))

LEMMA HashFields ==
    ASSUME NEW p \in Hashing
    PROVE  /\ p.canonicalizer \in Configs /\ ConfigString(p.canonicalizer) \in NameText
           /\ TokenizerField(p) \in NameText /\ CfgField(p) \in NameText
           /\ CfgField(p) \in Text /\ LastField(p) \in Text
           /\ ProducerHash(p) = Line(ConfigString(p.canonicalizer), TokenizerField(p), LastField(p))
           /\ ByHand(p) = Line(ConfigString(p.canonicalizer), TokenizerField(p), CfgField(p))
           /\ ProducerHash(p) # "" /\ ByHand(p) # ""
<1>1. /\ p.canonicalizer \in Configs /\ TokenizerField(p) \in NameText /\ CfgField(p) \in NameText
      /\ LastField(p) \in Text
      /\ ProducerHash(p) = Line(ConfigString(p.canonicalizer), TokenizerField(p), LastField(p))
    <2>1. CASE p \in MinHashers
        <3>1. /\ p.algorithm = "MinHash" /\ p.seed \in Numbers /\ p.hasher \in Hashers
              /\ p.canonicalizer \in Configs /\ p.tokenizer \in NamedTokenizers /\ p.H \in SlotCounts
            BY <2>1, MinHasherFields
        <3>2. TokenizerField(p) = TokenizerName(p.tokenizer) /\ CfgField(p) = MinHashCfg(p.H)
              /\ LastField(p) = Classical(MinHashCfg(p.H), p.hasher, p.seed)
            BY <3>1 DEF TokenizerField, CfgField, LastField
        <3>3. TokenizerName(p.tokenizer) \in NameText /\ MinHashCfg(p.H) \in NameText
            BY <3>1, TokenizerNameSplit, AlgoCfgs
        <3>4. Classical(MinHashCfg(p.H), p.hasher, p.seed) \in Text
            BY <3>1, <3>3, ClassicalSplit
        <3>5. ProducerHash(p) = ConfigHashClassical(p.canonicalizer, TokenizerName(p.tokenizer),
                                                    MinHashCfg(p.H), p.hasher, p.seed)
            BY <3>1 DEF ProducerHash, MinHashConfigHash
        <3>6. QED
            BY <3>1, <3>2, <3>3, <3>4, <3>5, HashText
    <2>2. CASE p \in SimHashers
        <3>1. /\ p.algorithm = "SimHash" /\ p.seed \in Numbers /\ p.hasher \in Hashers
              /\ p.canonicalizer \in Configs /\ p.tokenizer \in NamedTokenizers
              /\ p.weighting \in Weightings
            BY <2>2, SimHasherFields
        <3>2. TokenizerField(p) = TokenizerName(p.tokenizer) /\ CfgField(p) = SimHashCfg(p.weighting)
              /\ LastField(p) = Classical(SimHashCfg(p.weighting), p.hasher, p.seed)
            BY <3>1 DEF TokenizerField, CfgField, LastField
        <3>3. TokenizerName(p.tokenizer) \in NameText /\ SimHashCfg(p.weighting) \in NameText
            <4>1. WeightingName(p.weighting) \in NameText /\ "simhash-b64-" \in NameText
                BY <3>1, WeightingNames, LiteralAssumption DEF NameText
            <4>2. SimHashCfg(p.weighting) = Cat("simhash-b64-", WeightingName(p.weighting))
                BY DEF SimHashCfg, Cat
            <4>3. QED
                BY <3>1, <4>1, <4>2, TokenizerNameSplit, NameJoins
        <3>4. Classical(SimHashCfg(p.weighting), p.hasher, p.seed) \in Text
            BY <3>1, <3>3, ClassicalSplit
        <3>5. ProducerHash(p) = ConfigHashClassical(p.canonicalizer, TokenizerName(p.tokenizer),
                                                    SimHashCfg(p.weighting), p.hasher, p.seed)
            BY <3>1 DEF ProducerHash, SimHashConfigHash
        <3>6. QED
            BY <3>1, <3>2, <3>3, <3>4, <3>5, HashText
    <2>3. CASE p \in TlshHashers
        <3>1. p.algorithm = "Tlsh" /\ p.canonicalizer \in Configs
            BY <2>3, TlshFields
        <3>2. TokenizerField(p) = "tlsh" /\ CfgField(p) = TlshCfg /\ LastField(p) = TlshCfg
            BY <3>1 DEF TokenizerField, CfgField, LastField
        <3>3. "tlsh" \in NameText /\ TlshCfg \in NameText /\ TlshCfg \in Text
            BY LiteralAssumption, Names DEF NameText, TlshCfg
        <3>4. ProducerHash(p) = ConfigHashOf(p.canonicalizer, "tlsh", TlshCfg)
            BY <3>1 DEF ProducerHash, TlshConfigHash
        <3>5. ASSUME NEW t \in NameText, NEW a \in NameText, NEW c \in Configs
              PROVE  ConfigHashOf(c, t, a) = Line(ConfigString(c), t, a)
            BY HashOfText
        <3>6. QED
            BY <3>1, <3>2, <3>3, <3>4, <3>5
    <2>4. QED
        BY <2>1, <2>2, <2>3 DEF Hashing
<1>2. ConfigString(p.canonicalizer) \in NameText /\ CfgField(p) \in Text
    BY <1>1, ConfigText, Names
<1>3. ByHand(p) = Line(ConfigString(p.canonicalizer), TokenizerField(p), CfgField(p))
    BY <1>1, HashOfText DEF ByHand
<1>4. ProducerHash(p) # "" /\ ByHand(p) # ""
    <2> DEFINE s == ConfigString(p.canonicalizer)
               t == TokenizerField(p)
    <2>1. s \in NameText /\ t \in NameText
        BY <1>1, <1>2
    <2> HIDE DEF s, t
    <2>2. ASSUME NEW x \in Text PROVE Line(s, t, x) # ""
        BY <2>1, LineText
    <2>3. QED
        BY <1>1, <1>2, <1>3, <2>2 DEF s, t
<1>5. QED
    BY <1>1, <1>2, <1>3, <1>4

-----------------------------------------------------------------------------
(* What the hashes tell apart. *)

LEMMA ShapeFacts ==
    ASSUME NEW p \in Hashing, NEW q \in Hashing
    PROVE  /\ Shape(p) = Shape(q) => p.algorithm = q.algorithm
           /\ p.algorithm # "SimHash" => Shape(p) = p
           /\ p \in SimHashers /\ q \in SimHashers =>
                (Shape(p) = Shape(q) <=>
                    /\ p.seed = q.seed /\ p.hasher = q.hasher
                    /\ p.canonicalizer = q.canonicalizer /\ p.tokenizer = q.tokenizer
                    /\ p.weighting.kind = q.weighting.kind)
<1>1. ASSUME NEW r \in Hashing
      PROVE  /\ Shape(r).algorithm = r.algorithm
             /\ r.algorithm # "SimHash" => Shape(r) = r
    <2>1. CASE r.algorithm # "SimHash"
        BY <2>1 DEF Shape
    <2>2. CASE r \in SimHashers
        BY <2>2 DEF Shape, SimHashers
    <2>3. QED
        BY <2>1, <2>2, MinHasherFields, TlshFields DEF Hashing
<1>2. ASSUME p \in SimHashers, q \in SimHashers
      PROVE  Shape(p) = Shape(q) <=>
                    /\ p.seed = q.seed /\ p.hasher = q.hasher
                    /\ p.canonicalizer = q.canonicalizer /\ p.tokenizer = q.tokenizer
                    /\ p.weighting.kind = q.weighting.kind
    <2>1. ASSUME NEW r \in SimHashers
          PROVE  Shape(r) = [algorithm |-> "SimHash", seed |-> r.seed, hasher |-> r.hasher,
                             weighting |-> r.weighting.kind, canonicalizer |-> r.canonicalizer,
                             tokenizer |-> r.tokenizer]
        <3>1. Shape(r) = [r EXCEPT !.weighting = r.weighting.kind]
            BY SimHasherFields DEF Shape
        <3>2. r = [algorithm |-> "SimHash", seed |-> r.seed, hasher |-> r.hasher,
                   weighting |-> r.weighting, canonicalizer |-> r.canonicalizer,
                   tokenizer |-> r.tokenizer]
            BY DEF SimHashers
        <3>3. QED
            BY <3>1, <3>2
    <2>2. QED
        BY <1>2, <2>1
<1>3. QED
    BY <1>1, <1>2

\* The own hash of a fingerprinter is that of those of its shape.
LEMMA HashOfShape ==
    ASSUME NEW p \in Hashing, NEW q \in Hashing, Shape(p) = Shape(q)
    PROVE  ProducerHash(p) = ProducerHash(q)
<1>1. p.algorithm = q.algorithm
    BY ShapeFacts
<1>2. CASE p.algorithm # "SimHash"
    BY <1>1, <1>2, ShapeFacts
<1>3. CASE p.algorithm = "SimHash"
    <2>1. p \in SimHashers /\ q \in SimHashers
        BY <1>1, <1>3, MinHasherFields, TlshFields DEF Hashing
    <2>2. /\ p.seed = q.seed /\ p.hasher = q.hasher
          /\ p.canonicalizer = q.canonicalizer /\ p.tokenizer = q.tokenizer
          /\ p.weighting.kind = q.weighting.kind
        BY <2>1, ShapeFacts
    <2>3. WeightingName(p.weighting) = WeightingName(q.weighting)
        BY <2>1, <2>2, SimHasherFields, WeightingNames
    <2>4. SimHashCfg(p.weighting) = SimHashCfg(q.weighting)
        BY <2>3 DEF SimHashCfg
    <2>5. QED
        BY <1>1, <1>3, <2>2, <2>4 DEF ProducerHash, SimHashConfigHash
<1>4. QED
    BY <1>2, <1>3

\* What two fingerprinters of one algorithm have in common when their fields agree.
LEMMA FieldsTell ==
    ASSUME NEW p \in Hashing, NEW q \in Hashing, p.algorithm = q.algorithm,
           p.canonicalizer = q.canonicalizer, TokenizerField(p) = TokenizerField(q),
           CfgField(p) = CfgField(q)
    PROVE  /\ ToldByHand(p) = ToldByHand(q)
           /\ p.algorithm # "Tlsh" => p.tokenizer = q.tokenizer
           /\ p.algorithm = "MinHash" => p.H = q.H
           /\ p.algorithm = "SimHash" => p.weighting.kind = q.weighting.kind
<1>1. CASE p.algorithm = "MinHash"
    <2>1. p \in MinHashers /\ q \in MinHashers
        BY <1>1, SimHasherFields, TlshFields DEF Hashing
    <2>2. p.tokenizer = q.tokenizer
        <3>1. TokenizerName(p.tokenizer) = TokenizerName(q.tokenizer)
            BY <1>1 DEF TokenizerField
        <3>2. p.tokenizer \in NamedTokenizers /\ q.tokenizer \in NamedTokenizers
            BY <2>1, MinHasherFields
        <3>3. QED
            BY <3>1, <3>2, TokenizerNameSplit
    <2>3. p.H = q.H
        <3>1. MinHashCfg(p.H) = MinHashCfg(q.H)
            BY <1>1 DEF CfgField
        <3>2. p.H \in SlotCounts /\ q.H \in SlotCounts
            BY <2>1, MinHasherFields
        <3>3. QED
            BY <3>1, <3>2, AlgoCfgs
    <2>4. ASSUME NEW r \in {p, q}
          PROVE  /\ DOMAIN r = {"algorithm", "seed", "hasher", "canonicalizer", "tokenizer", "H"}
                 /\ Shape(r) = r
        BY <1>1, <2>1, MinHasherFields, ShapeFacts
    <2>5. ASSUME NEW f \in {"algorithm", "canonicalizer", "tokenizer", "H"} PROVE p[f] = q[f]
        BY <2>2, <2>3
    <2>6. (DOMAIN p) \ {"hasher", "seed"} = {"algorithm", "canonicalizer", "tokenizer", "H"}
          /\ (DOMAIN q) \ {"hasher", "seed"} = {"algorithm", "canonicalizer", "tokenizer", "H"}
        BY <2>4
    <2>7. ToldByHand(p) = ToldByHand(q)
        BY <2>4, <2>5, <2>6 DEF ToldByHand
    <2>8. QED
        BY <1>1, <2>2, <2>3, <2>7
<1>2. CASE p.algorithm = "SimHash"
    <2>1. p \in SimHashers /\ q \in SimHashers
        BY <1>2, MinHasherFields, TlshFields DEF Hashing
    <2>2. p.tokenizer = q.tokenizer
        <3>1. TokenizerName(p.tokenizer) = TokenizerName(q.tokenizer)
            BY <1>2 DEF TokenizerField
        <3>2. p.tokenizer \in NamedTokenizers /\ q.tokenizer \in NamedTokenizers
            BY <2>1, SimHasherFields
        <3>3. QED
            BY <3>1, <3>2, TokenizerNameSplit
    <2>3. p.weighting.kind = q.weighting.kind
        <3>1. SimHashCfg(p.weighting) = SimHashCfg(q.weighting)
            BY <1>2 DEF CfgField
        <3>2. WeightingName(p.weighting) \in NameText /\ WeightingName(q.weighting) \in NameText
              /\ p.weighting \in Weightings /\ q.weighting \in Weightings
            BY <2>1, SimHasherFields, WeightingNames
        <3>3. QED
            BY <3>1, <3>2, SimHashCfgSplit
    <2>4. ASSUME NEW r \in {p, q}
          PROVE  /\ DOMAIN r = {"algorithm", "seed", "hasher", "weighting", "canonicalizer", "tokenizer"}
                 /\ Shape(r) = [r EXCEPT !.weighting = r.weighting.kind]
        BY <1>2, <2>1, SimHasherFields DEF Shape
    <2>5. ASSUME NEW f \in {"algorithm", "canonicalizer", "tokenizer", "weighting"}
          PROVE  Shape(p)[f] = Shape(q)[f]
        BY <2>2, <2>3, <2>4
    <2>6. (DOMAIN p) \ {"hasher", "seed"} = {"algorithm", "canonicalizer", "tokenizer", "weighting"}
          /\ (DOMAIN q) \ {"hasher", "seed"} = {"algorithm", "canonicalizer", "tokenizer", "weighting"}
        BY <2>4
    <2>7. ToldByHand(p) = ToldByHand(q)
        BY <2>5, <2>6 DEF ToldByHand
    <2>8. QED
        BY <1>2, <2>2, <2>3, <2>7
<1>3. CASE p.algorithm = "Tlsh"
    <2>1. p \in TlshHashers /\ q \in TlshHashers
        BY <1>3, MinHasherFields, SimHasherFields DEF Hashing
    <2>2. p = q
        BY <2>1 DEF TlshHashers
    <2>3. QED
        BY <1>3, <2>2
<1>4. QED
    BY <1>1, <1>2, <1>3, MinHasherFields, SimHasherFields, TlshFields DEF Hashing

LEMMA LastFieldFacts ==
    ASSUME NEW p \in Hashing
    PROVE  /\ p.algorithm = "Tlsh" => LastField(p) = CfgField(p)
           /\ p.algorithm # "Tlsh" => /\ LastField(p) = Classical(CfgField(p), p.hasher, p.seed)
                                      /\ p.hasher \in Hashers /\ p.seed \in Numbers
                                      /\ \A d \in NameText : LastField(p) # d
<1>1. CfgField(p) \in NameText
    BY HashFields
<1>2. p.algorithm # "Tlsh" => p.hasher \in Hashers /\ p.seed \in Numbers
    BY MinHasherFields, SimHasherFields, TlshFields DEF Hashing
<1>3. QED
    BY <1>1, <1>2, ClassicalSplit DEF LastField

\* Equal hashes of the fingerprinters are those of one shape.
LEMMA ShapeOfHash ==
    ASSUME NEW p \in Hashing, NEW q \in Hashing, ProducerHash(p) = ProducerHash(q)
    PROVE  Shape(p) = Shape(q)
<1>1. /\ p.canonicalizer = q.canonicalizer /\ TokenizerField(p) = TokenizerField(q)
      /\ LastField(p) = LastField(q)
    <2> DEFINE s == ConfigString(p.canonicalizer)
               t == TokenizerField(p)
               x == LastField(p)
               u == ConfigString(q.canonicalizer)
               v == TokenizerField(q)
               y == LastField(q)
    <2>1. s \in NameText /\ t \in NameText /\ x \in Text /\ u \in NameText /\ v \in NameText /\ y \in Text
          /\ p.canonicalizer \in Configs /\ q.canonicalizer \in Configs
        BY HashFields
    <2>2. Line(s, t, x) = Line(u, v, y)
        BY HashFields
    <2>3. s = u /\ t = v /\ x = y
        <3> HIDE DEF s, t, x, u, v, y
        <3>1. QED
            BY <2>1, <2>2, LineSplit
    <2>4. p.canonicalizer = q.canonicalizer
        BY <2>1, <2>3, ConfigStringSplit
    <2>5. QED
        BY <2>3, <2>4
<1>2. CfgField(p) \in NameText /\ CfgField(q) \in NameText
    BY HashFields
<1>3. CASE p.algorithm = "Tlsh"
    <2>1. q.algorithm = "Tlsh"
        BY <1>1, <1>2, <1>3, LastFieldFacts
    <2>2. p \in TlshHashers /\ q \in TlshHashers
        BY <1>3, <2>1, MinHasherFields, SimHasherFields DEF Hashing
    <2>3. p = q
        BY <1>1, <2>2 DEF TlshHashers
    <2>4. QED
        BY <2>3
<1>4. CASE p.algorithm # "Tlsh"
    <2>1. q.algorithm # "Tlsh"
        BY <1>1, <1>2, <1>4, LastFieldFacts
    <2>2. CfgField(p) = CfgField(q) /\ p.hasher = q.hasher /\ p.seed = q.seed
        <3>1. /\ Classical(CfgField(p), p.hasher, p.seed) = Classical(CfgField(q), q.hasher, q.seed)
              /\ p.hasher \in Hashers /\ p.seed \in Numbers
              /\ q.hasher \in Hashers /\ q.seed \in Numbers
            BY <1>1, <1>4, <2>1, LastFieldFacts
        <3> DEFINE c == CfgField(p)
                   d == CfgField(q)
        <3> HIDE DEF c, d
        <3>2. c = d /\ p.hasher = q.hasher /\ p.seed = q.seed
            BY <1>2, <3>1, ClassicalSplit DEF c, d
        <3>3. QED
            BY <3>2 DEF c, d
    <2>3. p.algorithm = q.algorithm
        <3>1. CASE p \in MinHashers /\ q \in SimHashers
            <4>1. CfgField(p) = MinHashCfg(p.H) /\ CfgField(q) = SimHashCfg(q.weighting)
                  /\ p.H \in SlotCounts /\ q.weighting \in Weightings
                BY <3>1, MinHasherFields, SimHasherFields DEF CfgField
            <4>2. QED
                BY <2>2, <4>1, AlgoCfgs
        <3>2. CASE p \in SimHashers /\ q \in MinHashers
            <4>1. CfgField(q) = MinHashCfg(q.H) /\ CfgField(p) = SimHashCfg(p.weighting)
                  /\ q.H \in SlotCounts /\ p.weighting \in Weightings
                BY <3>2, MinHasherFields, SimHasherFields DEF CfgField
            <4>2. QED
                BY <2>2, <4>1, AlgoCfgs
        <3>3. QED
            BY <1>4, <2>1, <3>1, <3>2, MinHasherFields, SimHasherFields, TlshFields DEF Hashing
    <2>4. /\ p.tokenizer = q.tokenizer
          /\ p.algorithm = "MinHash" => p.H = q.H
          /\ p.algorithm = "SimHash" => p.weighting.kind = q.weighting.kind
        BY <1>1, <1>4, <2>2, <2>3, FieldsTell
    <2>5. CASE p.algorithm = "MinHash"
        <3>1. p \in MinHashers /\ q \in MinHashers
            BY <2>3, <2>5, SimHasherFields, TlshFields DEF Hashing
        <3>2. p = q
            BY <1>1, <2>2, <2>3, <2>4, <2>5, <3>1 DEF MinHashers
        <3>3. QED
            BY <3>2
    <2>6. CASE p.algorithm = "SimHash"
        <3>1. p \in SimHashers /\ q \in SimHashers
            BY <2>3, <2>6, MinHasherFields, TlshFields DEF Hashing
        <3>2. QED
            BY <1>1, <2>2, <2>4, <2>6, <3>1, ShapeFacts
    <2>7. QED
        BY <1>4, <2>5, <2>6, MinHasherFields, SimHasherFields, TlshFields DEF Hashing
<1>5. QED
    BY <1>3, <1>4

-----------------------------------------------------------------------------
(* What is stored. *)

LEMMA StoredRecords ==
    ASSUME NEW p \in Finished, NEW w \in DOMAIN Records(p)
    PROVE  /\ Records(p)[w].algorithm = Algo[p.algorithm]
           /\ \/ w = "plain" /\ Records(p)[w].config_hash = ""
              \/ w = "attached" /\ p \in Hashing /\ Records(p)[w].config_hash = ProducerHash(p)
              \/ w = "byHand" /\ p \in Hashing /\ Records(p)[w].config_hash = ByHand(p)
<1>1. Metadata(p).algorithm = Algo[p.algorithm] /\ Metadata(p).config_hash = ""
    BY DEF Metadata, MetadataInner, UNCOMPUTED_CONFIG_HASH
<1>2. CASE p \in Providers
    <2>1. Records(p) = [plain |-> Metadata(p)]
        BY <1>2, ProviderFields DEF Records
    <2>2. w = "plain"
        BY <2>1
    <2>3. Records(p)[w] = Metadata(p)
        BY <2>1, <2>2
    <2>4. QED
        BY <1>1, <2>2, <2>3
<1>3. CASE p \in Hashing
    <2>1. HasConfigHash(p)
        BY <1>3, MinHasherFields, SimHasherFields, TlshFields DEF Hashing
    <2>2. Records(p) = [ plain    |-> Metadata(p),
                         attached |-> WithConfigHash(Metadata(p), ProducerHash(p)),
                         byHand   |-> MetadataWith(p, p.canonicalizer, TokenizerField(p), CfgField(p)) ]
        BY <2>1 DEF Records, TokenizerField, CfgField
    <2>3. LET r == WithConfigHash(Metadata(p), ProducerHash(p))
          IN  r.algorithm = Algo[p.algorithm] /\ r.config_hash = ProducerHash(p)
        BY DEF WithConfigHash, Metadata, MetadataInner
    <2>4. LET r == MetadataWith(p, p.canonicalizer, TokenizerField(p), CfgField(p))
          IN  r.algorithm = Algo[p.algorithm] /\ r.config_hash = ByHand(p)
        BY DEF MetadataWith, MetadataInner, ByHand
    <2>5. w \in {"plain", "attached", "byHand"}
        BY <2>2
    <2>6. CASE w = "plain"
        <3>1. Records(p)[w] = Metadata(p)
            BY <2>2, <2>6
        <3>2. QED
            BY <1>1, <2>6, <3>1
    <2>7. CASE w = "attached"
        BY <1>3, <2>2, <2>3, <2>7
    <2>8. CASE w = "byHand"
        BY <1>3, <2>2, <2>4, <2>8
    <2>9. QED
        BY <2>5, <2>6, <2>7, <2>8
<1>4. QED
    BY <1>2, <1>3 DEF Finished

LEMMA AlgorithmOf ==
    ASSUME NEW p \in Finished, NEW q \in Finished, Algo[p.algorithm] = Algo[q.algorithm]
    PROVE  p.algorithm = q.algorithm
<1>1. p.algorithm \in {"MinHash", "SimHash", "Tlsh", "Embedding"}
      /\ q.algorithm \in {"MinHash", "SimHash", "Tlsh", "Embedding"}
    BY MinHasherFields, SimHasherFields, TlshFields, ProviderFields DEF Finished, Hashing
<1>2. QED
    BY <1>1 DEF Algo

\* Records filled by hand speak of the same steps, tokenizer and algorithm when they agree.
LEMMA ByHandTells ==
    ASSUME NEW p \in Hashing, NEW q \in Hashing, p.algorithm = q.algorithm, ByHand(p) = ByHand(q)
    PROVE  ToldByHand(p) = ToldByHand(q)
<1> DEFINE s == ConfigString(p.canonicalizer)
           t == TokenizerField(p)
           x == CfgField(p)
           u == ConfigString(q.canonicalizer)
           v == TokenizerField(q)
           y == CfgField(q)
<1>1. s \in NameText /\ t \in NameText /\ x \in Text /\ u \in NameText /\ v \in NameText /\ y \in Text
      /\ p.canonicalizer \in Configs /\ q.canonicalizer \in Configs
    BY HashFields
<1>2. Line(s, t, x) = Line(u, v, y)
    BY HashFields
<1>3. s = u /\ t = v /\ x = y
    <2> HIDE DEF s, t, x, u, v, y
    <2>1. QED
        BY <1>1, <1>2, LineSplit
<1>4. p.canonicalizer = q.canonicalizer
    BY <1>1, <1>3, ConfigStringSplit
<1>5. QED
    BY <1>3, <1>4, FieldsTell

\* A hash of a fingerprinter and one made by hand agree for TLSH only, where they are one.
LEMMA OwnAndByHand ==
    ASSUME NEW p \in Hashing, NEW q \in Hashing, ProducerHash(p) = ByHand(q), p.algorithm = q.algorithm
    PROVE  Shape(p) = Shape(q)
<1>1. LastField(p) = CfgField(q) /\ CfgField(q) \in NameText
    <2> DEFINE s == ConfigString(p.canonicalizer)
               t == TokenizerField(p)
               x == LastField(p)
               u == ConfigString(q.canonicalizer)
               v == TokenizerField(q)
               y == CfgField(q)
    <2>1. s \in NameText /\ t \in NameText /\ x \in Text /\ u \in NameText /\ v \in NameText /\ y \in Text
        BY HashFields
    <2>2. Line(s, t, x) = Line(u, v, y)
        BY HashFields
    <2>3. x = y
        <3> HIDE DEF s, t, x, u, v, y
        <3>1. QED
            BY <2>1, <2>2, LineSplit
    <2>4. QED
        BY <2>3, HashFields
<1>2. q.algorithm = "Tlsh"
    BY <1>1, LastFieldFacts
<1>3. LastField(q) = CfgField(q)
    BY <1>2, LastFieldFacts
<1>4. ProducerHash(q) = ByHand(q)
    BY <1>3, HashFields
<1>5. QED
    BY <1>4, ShapeOfHash

LEMMA ShapeTells ==
    ASSUME NEW p \in Hashing, NEW q \in Hashing, Shape(p) = Shape(q)
    PROVE  ToldByHand(p) = ToldByHand(q)
<1>1. ASSUME NEW r \in Hashing PROVE DOMAIN Shape(r) = DOMAIN r
    <2>1. CASE r.algorithm # "SimHash"
        BY <2>1 DEF Shape
    <2>2. CASE r.algorithm = "SimHash"
        BY <2>2 DEF Shape
    <2>3. QED
        BY <2>1, <2>2
<1>2. DOMAIN p = DOMAIN q
    BY <1>1
<1>3. QED
    BY <1>2 DEF ToldByHand

LEMMA AdmittedAlike ==
    ASSUME NEW p \in Finished, NEW q \in Finished, NEW w \in DOMAIN Records(p),
           NEW v \in DOMAIN Records(q), Admitted(Records(p)[w], Records(q)[v])
    PROVE  /\ w # "plain" /\ v # "plain"
           /\ w = "attached" \/ v = "attached" => Shape(p) = Shape(q)
           /\ ToldByHand(p) = ToldByHand(q)
<1> DEFINE a == Records(p)[w]
           b == Records(q)[v]
<1>1. a.config_hash = b.config_hash /\ a.config_hash # "" /\ a.algorithm = b.algorithm
    BY DEF Admitted, UNCOMPUTED_CONFIG_HASH
<1>2. a.algorithm = Algo[p.algorithm] /\ b.algorithm = Algo[q.algorithm]
    BY StoredRecords
<1>3. p.algorithm = q.algorithm
    BY <1>1, <1>2, AlgorithmOf
<1>4. \/ w = "attached" /\ p \in Hashing /\ a.config_hash = ProducerHash(p)
      \/ w = "byHand" /\ p \in Hashing /\ a.config_hash = ByHand(p)
    BY <1>1, StoredRecords
<1>5. \/ v = "attached" /\ q \in Hashing /\ b.config_hash = ProducerHash(q)
      \/ v = "byHand" /\ q \in Hashing /\ b.config_hash = ByHand(q)
    BY <1>1, StoredRecords
<1> HIDE DEF a, b
<1>6. CASE w = "attached" \/ v = "attached"
    <2>1. Shape(p) = Shape(q)
        <3>1. CASE w = "attached" /\ v = "attached"
            BY <1>1, <1>4, <1>5, <3>1, ShapeOfHash
        <3>2. CASE w = "attached" /\ v = "byHand"
            BY <1>1, <1>3, <1>4, <1>5, <3>2, OwnAndByHand
        <3>3. CASE w = "byHand" /\ v = "attached"
            BY <1>1, <1>3, <1>4, <1>5, <3>3, OwnAndByHand
        <3>4. QED
            BY <1>4, <1>5, <1>6, <3>1, <3>2, <3>3
    <2>2. QED
        BY <1>4, <1>5, <2>1, ShapeTells
<1>7. CASE w = "byHand" /\ v = "byHand"
    BY <1>1, <1>3, <1>4, <1>5, <1>7, ByHandTells
<1>8. QED
    BY <1>4, <1>5, <1>6, <1>7

-----------------------------------------------------------------------------
(* Names. *)

LEMMA CancelEnd ==
    ASSUME NEW s \in Text, NEW t \in Text, NEW u \in Text, Cat(s, u) = Cat(t, u)
    PROVE  s = t
BY ConcatSimplifications DEF Text, Cat

Middle(p) == IF ModelOf(p) # Nothing THEN Cat("/", ModelOf(p)) ELSE ""

LEMMA NameFields ==
    ASSUME NEW p \in Finished
    PROVE  /\ Algo[p.algorithm] \in {"minhash-h128", "simhash-b64", "tlsh", "embedding"}
           /\ ModelOf(p) \in Text \cup {Nothing} /\ Middle(p) \in Text
           /\ Name(p) = Cat(Algo[p.algorithm], Cat(Middle(p), "-v1"))
<1>1. Algo[p.algorithm] \in {"minhash-h128", "simhash-b64", "tlsh", "embedding"}
    BY MinHasherFields, SimHasherFields, TlshFields, ProviderFields DEF Finished, Hashing, Algo
<1>2. ModelOf(p) \in Text \cup {Nothing}
    <2>1. ModelOf(p) \in ModelIds \cup {Nothing}
        BY MinHasherFields, SimHasherFields, TlshFields, ProviderFields DEF Finished, Hashing, ModelOf
    <2>2. QED
        BY <2>1, ConfigAssumption DEF Text
<1>3. "/" \in Text /\ "" \in Text /\ "-v1" \in Text
    <2>1. "/" \in NameText /\ "" \in NameText /\ "-v1" \in NameText
        BY LiteralAssumption DEF NameText
    <2>2. QED
        BY <2>1, Names
<1>4. Middle(p) \in Text
    <2>1. CASE ModelOf(p) # Nothing
        BY <1>2, <1>3, <2>1, CatFacts DEF Middle
    <2>2. CASE ModelOf(p) = Nothing
        BY <1>3, <2>2 DEF Middle
    <2>3. QED
        BY <2>1, <2>2
<1>5. Name(p) = Cat(Cat(Algo[p.algorithm], Middle(p)), "-v1")
    BY DEF Name, Middle, Cat
<1> DEFINE n == Algo[p.algorithm]
           m == Middle(p)
           v == "-v1"
<1>6. n \in Text
    <2>1. {"minhash-h128", "simhash-b64", "tlsh", "embedding"} \subseteq NameText
        BY LiteralAssumption DEF NameText
    <2>2. QED
        BY <1>1, <2>1, Names
<1>7. Cat(Cat(n, m), v) = Cat(n, Cat(m, v))
    <2>1. m \in Text /\ v \in Text
        BY <1>3, <1>4
    <2> HIDE DEF n, m, v
    <2>2. QED
        BY <1>6, <2>1, Regroup
<1>8. QED
    BY <1>1, <1>2, <1>4, <1>5, <1>7

LEMMA NamesTell ==
    ASSUME NEW p \in Finished, NEW q \in Finished, Name(p) = Name(q)
    PROVE  p.algorithm = q.algorithm /\ ModelOf(p) = ModelOf(q)
<1> DEFINE S == {"minhash-h128", "simhash-b64", "tlsh", "embedding"}
           n == Algo[p.algorithm]
           k == Algo[q.algorithm]
           m == Middle(p)
           l == Middle(q)
           v == "-v1"
<1>1. n \in S /\ k \in S /\ m \in Text /\ l \in Text /\ Cat(n, Cat(m, v)) = Cat(k, Cat(l, v))
    BY NameFields
<1>2. PrefixFree(S)
    BY PrefixAssumption
<1>3. n \in Text /\ k \in Text /\ v \in Text
    <2>1. S \subseteq NameText /\ v \in NameText
        BY LiteralAssumption DEF NameText
    <2>2. QED
        BY <1>1, <2>1, Names
<1>4. n = k /\ m = l
    <2> HIDE DEF S, n, k, m, l, v
    <2>1. Cat(m, v) \in Text /\ Cat(l, v) \in Text
        BY <1>1, <1>3, CatFacts
    <2>2. n = k /\ Cat(m, v) = Cat(l, v)
        BY <1>1, <1>2, <1>3, <2>1, PrefixSplit
    <2>3. QED
        BY <1>1, <1>3, <2>2, CancelEnd
<1>5. p.algorithm = q.algorithm
    BY <1>4, AlgorithmOf
<1>6. ModelOf(p) = ModelOf(q)
    <2> DEFINE b == "/"
    <2>1. b \in Text /\ Len(b) = 1
        <3>1. b \in NameText
            BY LiteralAssumption DEF NameText
        <3>2. QED
            BY <3>1, LiteralAssumption, Names
    <2>2. ASSUME NEW x \in Text PROVE Cat(b, x) # ""
        <3> HIDE DEF b
        <3>1. Len(Cat(b, x)) > 0
            <4>1. Len(Cat(b, x)) = Len(b) + Len(x) /\ Len(x) \in Nat
                BY <2>1, CatFacts
            <4>2. QED
                BY <2>1, <4>1
        <3>2. Cat(b, x) # << >>
            BY <3>1, Empty
        <3>3. QED
            BY <3>2, Names
    <2>3. ModelOf(p) \in Text \cup {Nothing} /\ ModelOf(q) \in Text \cup {Nothing}
        BY NameFields
    <2>4. CASE ModelOf(p) # Nothing /\ ModelOf(q) # Nothing
        <3>1. Cat(b, ModelOf(p)) = Cat(b, ModelOf(q)) /\ ModelOf(p) \in Text /\ ModelOf(q) \in Text
            BY <1>4, <2>3, <2>4 DEF Middle
        <3> HIDE DEF b
        <3>2. QED
            BY <2>1, <3>1, Cancel
    <2>5. CASE ModelOf(p) # Nothing /\ ModelOf(q) = Nothing
        BY <1>4, <2>2, <2>3, <2>5 DEF Middle
    <2>6. CASE ModelOf(p) = Nothing /\ ModelOf(q) # Nothing
        BY <1>4, <2>2, <2>3, <2>6 DEF Middle
    <2>7. QED
        BY <2>4, <2>5, <2>6
<1>7. QED
    BY <1>5, <1>6

-----------------------------------------------------------------------------
(* The invariant: what is set up is a fingerprinter or on the way to one, and the records
   are those of the first. *)
CfInv ==
    /\ producer \in MinHashBuilders \cup SimHashBuilders \cup Finished
    /\ first # Nothing => first \in Finished /\ records = Records(first)

LEMMA SetupParts ==
    ASSUME NEW s \in Setups
    PROVE  s.canonicalizer \in Configs /\ s.tokenizer \in NamedTokenizers
<1>1. s.canonicalizer \in Configs /\ s.tokenizer \in TokenizerConfigs
    BY ConfigAssumption
<1>2. \A i \in 1 .. Len(s.tokenizer.shingles) : s.tokenizer.shingles[i] \in Numbers
    BY DEF Numbers, ShingleSizes
<1>3. QED
    BY <1>1, <1>2 DEF NamedTokenizers

LEMMA BuildFacts ==
    ASSUME NEW s \in Setups
    PROVE  /\ \A p \in MinHashBuilders, n \in SlotCounts : MinHashBuild(p, s, n) \in MinHashers
           /\ \A p \in SimHashBuilders : SimHashBuild(p, s) \in SimHashers
<1>1. ASSUME NEW p \in MinHashBuilders, NEW n \in SlotCounts
      PROVE  MinHashBuild(p, s, n) \in MinHashers
    BY SetupParts DEF MinHashBuilders, MinHashers, MinHashBuild
<1>2. ASSUME NEW p \in SimHashBuilders
      PROVE  SimHashBuild(p, s) \in SimHashers
    BY SetupParts DEF SimHashBuilders, SimHashers, SimHashBuild
<1>3. QED
    BY <1>1, <1>2

LEMMA FreshFacts == Fresh \subseteq MinHashBuilders \cup SimHashBuilders \cup Finished
<1>1. MinHashBuilder \in MinHashBuilders /\ SimHashBuilder \in SimHashBuilders
    BY DEF MinHashBuilder, SimHashBuilder, MinHashBuilders, SimHashBuilders, SeedValues, Hashers,
           Weightings
<1>2. ASSUME NEW s \in Setups
      PROVE  /\ \A n \in SlotCounts : MinHashNew(s, n) \in MinHashers
             /\ SimHashNew(s) \in SimHashers /\ TlshNew(s) \in TlshHashers
    BY <1>1, BuildFacts, SetupParts DEF MinHashNew, SimHashNew, TlshNew, TlshHashers
<1>3. \A m \in ModelIds \cup {Nothing}, n \in Lengths : Provider(m, n) \in Providers
    BY DEF Provider, Providers
<1>4. QED
    BY <1>1, <1>2, <1>3 DEF Fresh, Finished, Hashing

LEMMA CfInvInit == ConfigInit => CfInv
BY FreshFacts DEF ConfigInit, CfInv

LEMMA CfInvStep == CfInv /\ [ConfigNext]_configVars => CfInv'
<1> SUFFICES ASSUME CfInv, [ConfigNext]_configVars PROVE CfInv'
    OBVIOUS
<1> DEFINE Producers == MinHashBuilders \cup SimHashBuilders \cup Finished
<1>1. ASSUME UNCHANGED <<first, records>>, producer' \in Producers
      PROVE  CfInv'
    BY <1>1 DEF CfInv
<1>2. CASE SetSeed
    <2>1. PICK s \in Seeds : Set("seed", s)
        BY <1>2 DEF SetSeed
    <2>2. "seed" \in DOMAIN producer /\ producer' = [producer EXCEPT !.seed = s]
          /\ UNCHANGED <<first, records>>
        BY <2>1 DEF Set
    <2>3. producer \in MinHashBuilders \cup SimHashBuilders \cup MinHashers \cup SimHashers
        BY <2>2, TlshFields DEF CfInv, Finished, Hashing, Providers
    <2>4. producer' \in MinHashBuilders \cup SimHashBuilders \cup MinHashers \cup SimHashers
        BY <2>2, <2>3 DEF MinHashBuilders, SimHashBuilders, MinHashers, SimHashers, SeedValues
    <2>5. QED
        BY <1>1, <2>2, <2>4 DEF Finished, Hashing
<1>3. CASE SetHasher
    <2>1. PICK f \in Hashers : Set("hasher", f)
        BY <1>3 DEF SetHasher, Hashers
    <2>2. "hasher" \in DOMAIN producer /\ producer' = [producer EXCEPT !.hasher = f]
          /\ UNCHANGED <<first, records>>
        BY <2>1 DEF Set
    <2>3. producer \in MinHashBuilders \cup SimHashBuilders \cup MinHashers \cup SimHashers
        BY <2>2, TlshFields DEF CfInv, Finished, Hashing, Providers
    <2>4. producer' \in MinHashBuilders \cup SimHashBuilders \cup MinHashers \cup SimHashers
        BY <2>2, <2>3 DEF MinHashBuilders, SimHashBuilders, MinHashers, SimHashers
    <2>5. QED
        BY <1>1, <2>2, <2>4 DEF Finished, Hashing
<1>4. CASE SetWeighting
    <2>1. PICK w \in Weightings : Set("weighting", w)
        BY <1>4 DEF SetWeighting
    <2>2. "weighting" \in DOMAIN producer /\ producer' = [producer EXCEPT !.weighting = w]
          /\ UNCHANGED <<first, records>>
        BY <2>1 DEF Set
    <2>3. producer \in SimHashBuilders \cup SimHashers
        BY <2>2, MinHasherFields, TlshFields DEF CfInv, Finished, Hashing, Providers, MinHashBuilders
    <2>4. producer' \in SimHashBuilders \cup SimHashers
        BY <2>2, <2>3 DEF SimHashBuilders, SimHashers
    <2>5. QED
        BY <1>1, <2>2, <2>4 DEF Finished, Hashing
<1>5. CASE Build
    <2>1. IsBuilder(producer) /\ UNCHANGED <<first, records>>
        BY <1>5 DEF Build
    <2>2. producer \in MinHashBuilders \cup SimHashBuilders
        BY <2>1, MinHasherFields, SimHasherFields, TlshFields, ProviderFields
           DEF CfInv, Finished, Hashing
    <2>3. CASE producer.algorithm = "MinHash" /\ \E s \in Setups, n \in SlotCounts :
                                                   producer' = MinHashBuild(producer, s, n)
        <3>1. producer \in MinHashBuilders
            BY <2>2, <2>3 DEF SimHashBuilders
        <3>2. producer' \in MinHashers
            BY <2>3, <3>1, BuildFacts
        <3>3. QED
            BY <1>1, <2>1, <3>2 DEF Finished, Hashing
    <2>4. CASE producer.algorithm = "SimHash" /\ \E s \in Setups : producer' = SimHashBuild(producer, s)
        <3>1. producer \in SimHashBuilders
            BY <2>2, <2>4 DEF MinHashBuilders
        <3>2. producer' \in SimHashers
            BY <2>4, <3>1, BuildFacts
        <3>3. QED
            BY <1>1, <2>1, <3>2 DEF Finished, Hashing
    <2>5. QED
        BY <1>5, <2>3, <2>4 DEF Build
<1>6. CASE Store
    <2>1. /\ ~IsBuilder(producer) /\ first' = producer /\ records' = Records(producer)
          /\ producer' = producer
        BY <1>6 DEF Store, IsFingerprint
    <2>2. producer \in Finished
        BY <2>1, BuilderFields DEF CfInv
    <2>3. QED
        BY <2>1, <2>2 DEF CfInv
<1>7. CASE Another
    <2>1. producer' \in Fresh /\ UNCHANGED <<first, records>>
        BY <1>7 DEF Another
    <2>2. QED
        BY <1>1, <2>1, FreshFacts
<1>8. CASE UNCHANGED configVars
    BY <1>8 DEF CfInv, configVars
<1>9. QED
    BY <1>2, <1>3, <1>4, <1>5, <1>6, <1>7, <1>8 DEF ConfigNext

LEMMA CfInvComparable == CfInv => ComparableIffAlike
<1> SUFFICES ASSUME CfInv, first # Nothing PROVE ComparableIffAlike
    BY DEF ComparableIffAlike, HashSeparates, AdmittedAgree, NamesRoute
<1>1. first \in Finished /\ records = Records(first)
    BY DEF CfInv
<1>2. HashSeparates
    <2> SUFFICES ASSUME HasConfigHash(first), HasConfigHash(producer)
                 PROVE  ProducerHash(first) = ProducerHash(producer) <=> Shape(first) = Shape(producer)
        BY DEF HashSeparates
    <2>1. first \in Hashing /\ producer \in Hashing
        BY <1>1, BuilderFields, ProviderFields DEF CfInv, Finished
    <2>2. QED
        BY <2>1, HashOfShape, ShapeOfHash
<1>3. ASSUME IsFingerprint(producer) PROVE producer \in Finished
    BY <1>3, BuilderFields DEF CfInv, IsFingerprint
<1>4. AdmittedAgree
    <2> SUFFICES ASSUME IsFingerprint(producer), NEW w \in DOMAIN records,
                        NEW v \in DOMAIN Records(producer),
                        Admitted(records[w], Records(producer)[v])
                 PROVE  /\ w # "plain" /\ v # "plain"
                        /\ w = "attached" \/ v = "attached" => Shape(first) = Shape(producer)
                        /\ ToldByHand(first) = ToldByHand(producer)
        BY DEF AdmittedAgree
    <2>1. QED
        BY <1>1, <1>3, AdmittedAlike
<1>5. NamesRoute
    <2> SUFFICES ASSUME IsFingerprint(producer)
                 PROVE  Name(first) = Name(producer)
                          <=> first.algorithm = producer.algorithm /\ ModelOf(first) = ModelOf(producer)
        BY DEF NamesRoute
    <2>1. ASSUME first.algorithm = producer.algorithm, ModelOf(first) = ModelOf(producer)
          PROVE  Name(first) = Name(producer)
        BY <2>1 DEF Name
    <2>2. QED
        BY <1>1, <1>3, <2>1, NamesTell
<1>6. QED
    BY <1>2, <1>4, <1>5 DEF ComparableIffAlike

(* Which fingerprints compare: for any canonicalizers, tokenizers of any shingle sizes, slot
   counts, seeds and model ids, two fingerprinters share a configuration hash exactly if all
   that shapes their output is the same, stored metadata admit a comparison of fingerprints
   made alike only, and names tell algorithms and models apart (config_hash,
   config_hash_classical, metadata and name in fingerprint.rs). *)
THEOREM Comparable == ConfigSpec => []ComparableIffAlike
<1>1. ConfigInit => CfInv
    BY CfInvInit
<1>2. CfInv /\ [ConfigNext]_configVars => CfInv'
    BY CfInvStep
<1>3. CfInv => ComparableIffAlike
    BY CfInvComparable
<1>4. QED
    BY <1>1, <1>2, <1>3, PTL DEF ConfigSpec
=============================================================================
