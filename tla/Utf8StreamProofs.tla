-------------------------- MODULE Utf8StreamProofs --------------------------
(***************************************************************************)
(* The streaming buffer implements one byte string judged in one piece,    *)
(* and a streamer ends in the fingerprint of that string, for chunks and   *)
(* caps of any size and any set of bytes.                                  *)
(***************************************************************************)
EXTENDS Streamers, SequenceTheorems, WellFoundedInduction, TLAPS

(* The validator, on byte strings of any length that are cut or joined. *)

\* Induction, for a set instead of a predicate: the least number that is missing is
\* neither 0 nor the successor of one that is there.
LEMMA SetInduction ==
    ASSUME NEW S, 0 \in S, \A n \in Nat : n \in S => n + 1 \in S
    PROVE  \A n \in Nat : n \in S
<1> DEFINE Missing == {n \in Nat : n \notin S}
           Less == OpToRel(<, Nat)
<1> SUFFICES ASSUME Missing # {} PROVE FALSE
    OBVIOUS
<1>1. IsWellFoundedOn(Less, Nat)
    BY NatLessThanWellFounded
<1>2. \A m, n \in Nat : m < n => <<m, n>> \in Less
    BY DEF OpToRel
<1> HIDE DEF Less
<1>3. PICK n \in Missing : \A m \in Missing : <<m, n>> \notin Less
    <2> Missing \subseteq Nat
        OBVIOUS
    <2> HIDE DEF Missing
    <2> QED
        BY <1>1, WFMin
<1>4. n \in Nat /\ n - 1 \in Nat /\ n - 1 \in Missing
    BY <1>3
<1>5. <<n - 1, n>> \in Less
    BY <1>2, <1>4
<1>6. QED
    BY <1>3, <1>4, <1>5

-----------------------------------------------------------------------------
\* The recursive definition of the states defines them.
LEMMA StatesExist ==
    ASSUME NEW bytes \in Seq(AllBytes)
    PROVE  States(bytes) =
               [i \in 0 .. Len(bytes) |->
                   IF i = 0 THEN "start" ELSE After(States(bytes)[i - 1], bytes[i])]
<1> DEFINE Run(n, g) ==
               g = [i \in 0 .. n |-> IF i = 0 THEN "start" ELSE After(g[i - 1], bytes[i])]
           S == {n \in Nat : \E g : Run(n, g)}
<1>1. 0 \in S
    <2>1. Run(0, [i \in 0 .. 0 |-> "start"])
        OBVIOUS
    <2>2. QED
        BY <2>1
<1>2. ASSUME NEW n \in Nat, n \in S PROVE n + 1 \in S
    <2>1. PICK g : Run(n, g)
        BY <1>2
    <2> DEFINE h == [i \in 0 .. n + 1 |-> IF i <= n THEN g[i] ELSE After(g[n], bytes[n + 1])]
    <2>2. ASSUME NEW i \in 0 .. n + 1
          PROVE  h[i] = IF i = 0 THEN "start" ELSE After(h[i - 1], bytes[i])
        <3>1. CASE i = 0
            BY <2>1, <3>1
        <3>2. CASE i \in 1 .. n
            <4>1. h[i] = g[i] /\ h[i - 1] = g[i - 1]
                BY <3>2
            <4>2. g[i] = After(g[i - 1], bytes[i])
                BY <2>1, <3>2
            <4>3. QED
                BY <3>2, <4>1, <4>2
        <3>3. CASE i = n + 1
            BY <3>3
        <3>4. QED
            BY <3>1, <3>2, <3>3
    <2>3. Run(n + 1, h)
        BY <2>2
    <2> HIDE DEF h
    <2>4. \E f : Run(n + 1, f)
        BY <2>3
    <2> HIDE DEF Run
    <2>5. QED
        BY <2>4
<1> HIDE DEF S
<1>3. Len(bytes) \in S
    BY <1>1, <1>2, SetInduction, LenProperties
<1> USE DEF S
<1>4. PICK g : Run(Len(bytes), g)
    BY <1>3
<1>5. QED
    BY <1>4 DEF States

\* The states of a shorter string are those of the longer one; behind a text every
\* string is read as if it stood alone.
LEMMA StateAtStart ==
    ASSUME NEW bytes \in Seq(AllBytes)
    PROVE  States(bytes)[0] = "start"
BY StatesExist, LenProperties

LEMMA StateNext ==
    ASSUME NEW bytes \in Seq(AllBytes), NEW i \in 1 .. Len(bytes)
    PROVE  States(bytes)[i] = After(States(bytes)[i - 1], bytes[i])
BY StatesExist, LenProperties

LEMMA StatesOfPrefix ==
    ASSUME NEW a \in Seq(AllBytes), NEW c \in Seq(AllBytes)
    PROVE  \A i \in 0 .. Len(a) : States(a \o c)[i] = States(a)[i]
<1> DEFINE S == {i \in Nat : i <= Len(a) => States(a \o c)[i] = States(a)[i]}
<1> a \o c \in Seq(AllBytes) /\ Len(a) \in Nat /\ Len(a \o c) >= Len(a)
    BY ConcatProperties, LenProperties
<1>1. 0 \in S
    BY StateAtStart
<1>2. ASSUME NEW i \in Nat, i \in S PROVE i + 1 \in S
    <2> SUFFICES ASSUME i + 1 <= Len(a) PROVE States(a \o c)[i + 1] = States(a)[i + 1]
        OBVIOUS
    <2>1. States(a \o c)[i] = States(a)[i]
        BY <1>2
    <2>2. (a \o c)[i + 1] = a[i + 1]
        BY ConcatProperties
    <2>3. States(a)[i + 1] = After(States(a)[i], a[i + 1])
        <3>1. i + 1 \in 1 .. Len(a) /\ (i + 1) - 1 = i
            OBVIOUS
        <3>2. QED
            BY <3>1, StateNext
    <2>4. States(a \o c)[i + 1] = After(States(a \o c)[i], (a \o c)[i + 1])
        <3>1. i + 1 \in 1 .. Len(a \o c) /\ (i + 1) - 1 = i
            OBVIOUS
        <3>2. QED
            BY <3>1, StateNext
    <2>5. QED
        BY <2>1, <2>2, <2>3, <2>4
<1> HIDE DEF S
<1>3. \A i \in Nat : i \in S
    BY <1>1, <1>2, SetInduction
<1>4. QED
    BY <1>3 DEF S

LEMMA StatesBehindText ==
    ASSUME NEW a \in Seq(AllBytes), NEW c \in Seq(AllBytes), States(a)[Len(a)] = "start"
    PROVE  \A i \in 0 .. Len(c) : States(a \o c)[Len(a) + i] = States(c)[i]
<1> DEFINE S == {i \in Nat : i <= Len(c) => States(a \o c)[Len(a) + i] = States(c)[i]}
<1> a \o c \in Seq(AllBytes) /\ Len(a) \in Nat /\ Len(c) \in Nat /\ Len(a \o c) = Len(a) + Len(c)
    BY ConcatProperties, LenProperties
<1>1. 0 \in S
    BY StateAtStart, StatesOfPrefix
<1>2. ASSUME NEW i \in Nat, i \in S PROVE i + 1 \in S
    <2> SUFFICES ASSUME i + 1 <= Len(c) PROVE States(a \o c)[Len(a) + (i + 1)] = States(c)[i + 1]
        OBVIOUS
    <2>1. States(a \o c)[Len(a) + i] = States(c)[i]
        BY <1>2
    <2>2. (a \o c)[Len(a) + i + 1] = c[i + 1]
        BY ConcatProperties
    <2>3. States(c)[i + 1] = After(States(c)[i], c[i + 1])
        <3>1. i + 1 \in 1 .. Len(c) /\ (i + 1) - 1 = i
            OBVIOUS
        <3>2. QED
            BY <3>1, StateNext
    <2>4. States(a \o c)[Len(a) + i + 1] = After(States(a \o c)[Len(a) + i], (a \o c)[Len(a) + i + 1])
        <3>1. Len(a) + i + 1 \in 1 .. Len(a \o c) /\ (Len(a) + i + 1) - 1 = Len(a) + i
            OBVIOUS
        <3>2. QED
            BY <3>1, StateNext
    <2>5. QED
        BY <2>1, <2>2, <2>3, <2>4
<1> HIDE DEF S
<1>3. \A i \in Nat : i \in S
    BY <1>1, <1>2, SetInduction
<1>4. QED
    BY <1>3 DEF S

-----------------------------------------------------------------------------
LEMMA Greatest ==
    ASSUME NEW n \in Nat, NEW B \in SUBSET (0 .. n), B # {}
    PROVE  \E i \in B : \A j \in B : j <= i
<1> DEFINE S == {m \in Nat : \A C \in SUBSET (0 .. m) : C # {} => \E i \in C : \A j \in C : j <= i}
<1>1. 0 \in S
    <2>1. ASSUME NEW C \in SUBSET (0 .. 0), C # {} PROVE \E i \in C : \A j \in C : j <= i
        <3>1. PICK i \in C : TRUE
            BY <2>1
        <3>2. \A j \in C : j = 0
            OBVIOUS
        <3>3. \A j \in C : j <= i
            BY <3>1, <3>2
        <3>4. QED
            BY <3>1, <3>3
    <2>2. QED
        BY <2>1
<1>2. ASSUME NEW m \in Nat, m \in S PROVE m + 1 \in S
    <2> SUFFICES ASSUME NEW C \in SUBSET (0 .. m + 1), C # {}
                 PROVE  \E i \in C : \A j \in C : j <= i
        OBVIOUS
    <2>1. CASE m + 1 \in C
        BY <2>1
    <2>2. CASE m + 1 \notin C
        <3>1. C \in SUBSET (0 .. m)
            BY <2>2
        <3>2. QED
            BY <1>2, <3>1
    <2>3. QED
        BY <2>1, <2>2
<1> HIDE DEF S
<1>3. n \in S
    BY <1>1, <1>2, SetInduction
<1>4. QED
    BY <1>3 DEF S

\* The valid prefix ends at a boundary, and there is none behind it.
LEMMA LastBoundary ==
    ASSUME NEW bytes \in Seq(AllBytes)
    PROVE  /\ ValidUpTo(bytes) \in 0 .. Len(bytes)
           /\ States(bytes)[ValidUpTo(bytes)] = "start"
           /\ \A j \in 0 .. Len(bytes) : States(bytes)[j] = "start" => j <= ValidUpTo(bytes)
<1> DEFINE B == Boundaries(bytes)
<1>1. B \in SUBSET (0 .. Len(bytes)) /\ Len(bytes) \in Nat
    BY LenProperties DEF Boundaries
<1>2. 0 \in B
    BY StateAtStart, <1>1 DEF Boundaries
<1>3. \E i \in B : \A j \in B : j <= i
    BY <1>1, <1>2, Greatest
<1>4. ValidUpTo(bytes) \in B /\ \A j \in B : j <= ValidUpTo(bytes)
    BY <1>3 DEF ValidUpTo
<1>5. QED
    BY <1>4 DEF Boundaries

LEMMA BehindText ==
    ASSUME NEW a \in Seq(AllBytes), NEW c \in Seq(AllBytes), IsText(a)
    PROVE  /\ HardError(a \o c) <=> HardError(c)
           /\ IsText(a \o c) <=> IsText(c)
<1>1. Len(a \o c) = Len(a) + Len(c) /\ Len(c) \in 0 .. Len(c)
    BY ConcatProperties, LenProperties
<1>2. States(a \o c)[Len(a \o c)] = States(c)[Len(c)]
    BY <1>1, StatesBehindText DEF IsText
<1>3. QED
    BY <1>2 DEF HardError, IsText

\* Cut behind the valid prefix, a string without an error is a text and the beginning of
\* one character.
LEMMA Pieces ==
    ASSUME NEW head \in Seq(AllBytes), NEW tail \in Seq(AllBytes),
           ~HardError(head \o tail), Len(head) = ValidUpTo(head \o tail)
    PROVE  IsText(head) /\ ~HardError(tail) /\ ValidUpTo(tail) = 0
<1> DEFINE bytes == head \o tail
<1>1. /\ bytes \in Seq(AllBytes) /\ Len(head) \in Nat /\ Len(tail) \in Nat
      /\ Len(bytes) = Len(head) + Len(tail)
    BY ConcatProperties, LenProperties
<1>2. IsText(head)
    <2>1. States(bytes)[Len(head)] = "start"
        BY <1>1, LastBoundary
    <2>2. States(bytes)[Len(head)] = States(head)[Len(head)]
        BY <1>1, StatesOfPrefix
    <2>3. QED
        BY <2>1, <2>2 DEF IsText
<1>3. ~HardError(tail)
    BY <1>2, BehindText
<1>4. ValidUpTo(tail) = 0
    <2>1. ValidUpTo(tail) \in 0 .. Len(tail) /\ States(tail)[ValidUpTo(tail)] = "start"
        BY LastBoundary
    <2>2. States(bytes)[Len(head) + ValidUpTo(tail)] = "start"
        BY <1>2, <2>1, StatesBehindText DEF IsText
    <2>3. Len(head) + ValidUpTo(tail) <= Len(head)
        <3>1. Len(head) + ValidUpTo(tail) \in 0 .. Len(bytes)
            BY <1>1, <2>1
        <3> HIDE DEF bytes
        <3>2. Len(head) + ValidUpTo(tail) <= ValidUpTo(bytes)
            BY <1>1, <2>2, <3>1, LastBoundary
        <3>3. QED
            BY <3>2 DEF bytes
    <2>4. QED
        BY <1>1, <2>1, <2>3
<1>5. QED
    BY <1>2, <1>3, <1>4

LEMMA Cut ==
    ASSUME NEW bytes \in Seq(AllBytes), ~HardError(bytes)
    PROVE  LET head == SubSeq(bytes, 1, ValidUpTo(bytes))
               tail == SubSeq(bytes, ValidUpTo(bytes) + 1, Len(bytes))
           IN  /\ head \in Seq(AllBytes) /\ tail \in Seq(AllBytes)
               /\ head \o tail = bytes
               /\ IsText(head)
               /\ ~HardError(tail) /\ ValidUpTo(tail) = 0
<1> DEFINE u == ValidUpTo(bytes)
           head == SubSeq(bytes, 1, u)
           tail == SubSeq(bytes, u + 1, Len(bytes))
<1>1. u \in 0 .. Len(bytes) /\ Len(bytes) \in Nat
    BY LastBoundary, LenProperties
<1>2. head \in Seq(AllBytes) /\ Len(head) = u /\ tail \in Seq(AllBytes)
    <2>1. \A i \in 1 .. Len(bytes) : bytes[i] \in AllBytes
        BY ElementOfSeq
    <2> HIDE DEF u
    <2>2. QED
        BY <1>1, <2>1, SubSeqProperties
<1>3. head \o tail = bytes
    <2>1. /\ 1 \in 1 .. Len(bytes) + 1 /\ u \in 1 - 1 .. Len(bytes)
          /\ Len(bytes) \in u .. Len(bytes)
        BY <1>1
    <2> HIDE DEF u
    <2>2. head \o tail = SubSeq(bytes, 1, Len(bytes))
        BY <2>1, ConcatAdjacentSubSeq
    <2>3. QED
        BY <2>2, SubSeqFull
<1> HIDE DEF head, tail
<1>4. IsText(head) /\ ~HardError(tail) /\ ValidUpTo(tail) = 0
    BY <1>2, <1>3, Pieces
<1>5. QED
    BY <1>2, <1>3, <1>4 DEF head, tail

\* What does not begin with a character and is no error is the beginning of one.
LEMMA NotText ==
    ASSUME NEW bytes \in Seq(AllBytes), bytes # << >>, ValidUpTo(bytes) = 0
    PROVE  ~IsText(bytes)
<1>1. Len(bytes) \in Nat \ {0}
    BY EmptySeq, LenProperties
<1>2. QED
    BY <1>1, LastBoundary DEF IsText

\* No character has more than four bytes.
LEMMA Depth ==
    ASSUME NEW byte \in AllBytes
    PROVE  /\ After("start", byte) \in
                 {"start", "error", "one", "two", "three", "E0", "ED", "F0", "F4"}
           /\ \A s \in {"three", "F0", "F4"} : After(s, byte) \in {"two", "error"}
           /\ \A s \in {"two", "E0", "ED"} : After(s, byte) \in {"one", "error"}
           /\ After("one", byte) \in {"start", "error"}
           /\ After("error", byte) = "error"
BY DEF After, Lead, Trail, AllBytes, Continuations

LEMMA ShortTail ==
    ASSUME NEW bytes \in Seq(AllBytes), ~HardError(bytes), ValidUpTo(bytes) = 0
    PROVE  Len(bytes) <= 3
<1> SUFFICES ASSUME Len(bytes) > 3 PROVE FALSE
    BY LenProperties
<1> DEFINE state == States(bytes)
           S == {k \in Nat : 4 + k <= Len(bytes) => state[4 + k] = "error"}
<1> Len(bytes) \in Nat /\ \A i \in 1 .. Len(bytes) : bytes[i] \in AllBytes
    BY LenProperties, ElementOfSeq
<1>1. \A i \in 1 .. Len(bytes) : state[i] # "start" /\ state[i] = After(state[i - 1], bytes[i])
    BY LastBoundary, StateNext
<1>2. state[0] = "start"
    BY StateAtStart
<1> HIDE DEF state
<1>3. state[4] = "error"
    <2>1. state[1] \in {"error", "one", "two", "three", "E0", "ED", "F0", "F4"}
        BY <1>1, <1>2, Depth
    <2>2. state[2] \in {"error", "one", "two"}
        BY <1>1, <2>1, Depth
    <2>3. state[3] \in {"error", "one"}
        BY <1>1, <2>2, Depth
    <2>4. QED
        BY <1>1, <2>3, Depth
<1>4. 0 \in S
    BY <1>3
<1>5. ASSUME NEW k \in Nat, k \in S PROVE k + 1 \in S
    <2> SUFFICES ASSUME 4 + (k + 1) <= Len(bytes) PROVE state[4 + (k + 1)] = "error"
        OBVIOUS
    <2>1. state[4 + k] = "error"
        BY <1>5
    <2>2. 4 + (k + 1) \in 1 .. Len(bytes) /\ (4 + (k + 1)) - 1 = 4 + k
        OBVIOUS
    <2>3. QED
        BY <1>1, <2>1, <2>2, Depth
<1> HIDE DEF S
<1>6. Len(bytes) - 4 \in S
    <2>1. Len(bytes) - 4 \in Nat
        OBVIOUS
    <2>2. QED
        BY <1>4, <1>5, <2>1, SetInduction
<1>7. state[Len(bytes)] = "error"
    BY <1>6 DEF S
<1>8. QED
    BY <1>7 DEF HardError, state

-----------------------------------------------------------------------------

\* The inductive invariant: the split, with the types it needs.
SInv ==
    /\ buffer \in Seq(AllBytes) /\ carry \in Seq(AllBytes)
    /\ maxBytes \in Nat
    /\ IsText(buffer)
    /\ ~HardError(carry) /\ ValidUpTo(carry) = 0

LEMMA EmptyString == IsText(<< >>) /\ ~HardError(<< >>) /\ ValidUpTo(<< >>) = 0
<1>1. << >> \in Seq(AllBytes) /\ Len(<< >>) = 0
    BY EmptySeq
<1>2. States(<< >>)[0] = "start" /\ ValidUpTo(<< >>) \in 0 .. 0
    BY <1>1, StateAtStart, LastBoundary
<1>3. QED
    BY <1>1, <1>2 DEF IsText, HardError

LEMMA ChunksAreBytes == \A chunk \in Chunks : chunk \in Seq(AllBytes)
<1> SUFFICES ASSUME NEW chunk \in Chunks PROVE chunk \in Seq(AllBytes)
    OBVIOUS
<1>1. PICK n \in Nat : chunk \in [1 .. n -> Bytes]
    BY StreamAssumption DEF Chunks
<1>2. chunk \in Seq(Bytes)
    BY <1>1, SeqDef
<1>3. QED
    BY <1>2, StreamAssumption, SeqMonotonic

\* Both paths of update, as one: what is pending is read with the chunk.
UpdateAsOne(chunk) ==
    \/ reply' = "cap" /\ TooLong(chunk) /\ UNCHANGED <<buffer, carry>>
    \/ reply' = "utf8" /\ ~TooLong(chunk) /\ HardError(carry \o chunk) /\ UNCHANGED <<buffer, carry>>
    \/ /\ ~TooLong(chunk) /\ ~HardError(carry \o chunk)
       /\ Commit(carry \o chunk, ValidUpTo(carry \o chunk))

LEMMA UpdateEffect ==
    ASSUME SInv, NEW chunk \in Chunks, Update(chunk)
    PROVE  UpdateAsOne(chunk)
<1> chunk \in Seq(AllBytes) /\ carry \in Seq(AllBytes)
    BY ChunksAreBytes DEF SInv
<1>1. CASE TooLong(chunk)
    BY <1>1 DEF Update, Refuse, UpdateAsOne
<1>2. CASE ~TooLong(chunk) /\ FastPath(chunk)
    <2>1. carry \o chunk = chunk
        BY <1>2, ConcatEmptySeq DEF FastPath
    <2>2. QED
        BY <1>2, <2>1 DEF FastPath, Refuse, UpdateAsOne
<1>3. CASE ~TooLong(chunk) /\ SlowPath(chunk)
    <2>1. Len(carry) \in Nat \ {0} /\ Len(chunk) \in Nat
        BY <1>3, EmptySeq, LenProperties DEF SlowPath
    <2>2. Len(carry \o chunk) - Len(chunk) = Len(carry)
        BY <2>1, ConcatProperties
    <2>3. SubSeq(carry \o chunk, 1, Len(carry)) = carry
        BY <2>1, SubSeqOfConcat1, SubSeqFull
    <2>4. QED
        BY <1>3, <2>2, <2>3 DEF SlowPath, UpdateAsOne
<1>4. QED
    BY <1>1, <1>2, <1>3 DEF Update

\* An accepted chunk: the text grows by it, and the split is kept.
LEMMA CommitEffect ==
    ASSUME SInv, NEW chunk \in Chunks, ~HardError(carry \o chunk),
           Commit(carry \o chunk, ValidUpTo(carry \o chunk))
    PROVE  /\ buffer' \in Seq(AllBytes) /\ carry' \in Seq(AllBytes)
           /\ buffer' \o carry' = (buffer \o carry) \o chunk
           /\ IsText(buffer') /\ ~HardError(carry') /\ ValidUpTo(carry') = 0
<1> DEFINE bytes == carry \o chunk
           head == SubSeq(bytes, 1, ValidUpTo(bytes))
           tail == SubSeq(bytes, ValidUpTo(bytes) + 1, Len(bytes))
<1>1. buffer \in Seq(AllBytes) /\ carry \in Seq(AllBytes) /\ chunk \in Seq(AllBytes)
    BY ChunksAreBytes DEF SInv
<1>2. bytes \in Seq(AllBytes)
    BY <1>1, ConcatProperties
<1>3. /\ head \in Seq(AllBytes) /\ tail \in Seq(AllBytes)
      /\ head \o tail = bytes
      /\ IsText(head) /\ ~HardError(tail) /\ ValidUpTo(tail) = 0
    BY <1>2, Cut
<1>4. buffer' = buffer \o head /\ carry' = tail
    BY DEF Commit
<1> HIDE DEF head, tail
<1>5. buffer' \in Seq(AllBytes)
    BY <1>1, <1>3, <1>4, ConcatProperties
<1>6. IsText(buffer')
    BY <1>1, <1>3, <1>4, BehindText DEF SInv
<1>7. buffer' \o carry' = (buffer \o carry) \o chunk
    <2>1. (buffer \o head) \o tail = buffer \o (head \o tail)
        <3>1. head \in Seq(AllBytes) /\ tail \in Seq(AllBytes)
            BY <1>3
        <3>2. QED
            BY <1>1, <3>1, ConcatAssociative
    <2>2. (buffer \o carry) \o chunk = buffer \o (carry \o chunk)
        BY <1>1, ConcatAssociative
    <2>3. QED
        BY <1>3, <1>4, <2>1, <2>2
<1>8. QED
    BY <1>3, <1>4, <1>5, <1>6, <1>7

-----------------------------------------------------------------------------
LEMMA InitSInv == Init => SInv
BY EmptyString, EmptySeq, StreamAssumption DEF Init, SInv

LEMMA UpdateSInv ==
    ASSUME SInv, NEW chunk \in Chunks, Update(chunk)
    PROVE  SInv'
<1>1. UpdateAsOne(chunk) /\ maxBytes' = maxBytes
    BY UpdateEffect DEF Update
<1>2. CASE UNCHANGED <<buffer, carry>>
    BY <1>1, <1>2 DEF SInv
<1>3. CASE ~HardError(carry \o chunk) /\ Commit(carry \o chunk, ValidUpTo(carry \o chunk))
    BY <1>1, <1>3, CommitEffect DEF SInv
<1>4. QED
    BY <1>1, <1>2, <1>3 DEF UpdateAsOne

LEMMA NextSInv == SInv /\ [Next]_vars => SInv'
<1> SUFFICES ASSUME SInv, [Next]_vars PROVE SInv'
    OBVIOUS
<1>1. CASE UNCHANGED vars
    BY <1>1 DEF vars, SInv
<1>2. ASSUME NEW chunk \in Chunks, Update(chunk) PROVE SInv'
    BY <1>2, UpdateSInv
<1>3. ASSUME NEW cap \in Caps, SetMaxBytes(cap) PROVE SInv'
    BY <1>3, StreamAssumption DEF SetMaxBytes, SInv
<1>4. CASE Reset
    BY <1>4, EmptyString, EmptySeq DEF Reset, SInv
<1>5. CASE Finalize
    BY <1>5 DEF Finalize, SInv
<1>6. CASE New
    BY <1>6, EmptyString, EmptySeq, StreamAssumption DEF New, SInv
<1>7. QED
    BY <1>1, <1>2, <1>3, <1>4, <1>5, <1>6 DEF Next

LEMMA StreamInvariance == Spec => []SInv
BY InitSInv, NextSInv, PTL DEF Spec

(* The split that utf8_stream.rs:1-20 documents holds for chunks and caps of any
   size: the buffer is text, the carry the beginning of one character, so at most
   three bytes. *)
THEOREM AlwaysWellSplit == Spec => []WellSplit
<1>1. SInv => WellSplit
    BY ShortTail DEF SInv, WellSplit
<1>2. QED
    BY <1>1, StreamInvariance, PTL

-----------------------------------------------------------------------------
\* The abstract specification brings its own copy of the validator.
LEMMA SameValidator ==
    /\ \A s : Whole!HardError(s) = HardError(s)
    /\ \A s : Whole!IsText(s) = IsText(s)
<1>1. \A state, byte : Whole!After(state, byte) = After(state, byte)
    BY DEF Whole!After, Whole!Lead, Whole!Trail, Whole!Continuations, After, Lead, Trail, Continuations
<1>2. \A s : Whole!States(s) = States(s)
    BY <1>1 DEF Whole!States, States
<1>3. QED
    BY <1>2 DEF Whole!HardError, Whole!IsText, HardError, IsText

LEMMA InitMaps == Init => Whole!Init
<1> SUFFICES ASSUME Init PROVE Whole!Init
    OBVIOUS
<1>1. buffer \o carry = << >>
    BY EmptySeq, ConcatEmptySeq DEF Init
<1>2. QED
    BY <1>1 DEF Init, Whole!Init

LEMMA UpdateMaps ==
    ASSUME SInv, NEW chunk \in Chunks, Update(chunk)
    PROVE  Whole!Feed(chunk)
<1> DEFINE text == buffer \o carry
           whole == text \o chunk
<1>1. UpdateAsOne(chunk) /\ live /\ UNCHANGED <<maxBytes, live, sketched>>
    BY UpdateEffect DEF Update
<1>2. /\ buffer \in Seq(AllBytes) /\ carry \in Seq(AllBytes) /\ chunk \in Seq(AllBytes)
      /\ IsText(buffer) /\ maxBytes \in Nat
    BY ChunksAreBytes DEF SInv
<1>3. Len(whole) = Len(buffer) + Len(carry) + Len(chunk) /\ Len(whole) \in Nat
    BY <1>2, ConcatProperties, LenProperties
<1>4. TooLong(chunk) <=> Len(whole) > maxBytes
    BY <1>3 DEF TooLong
<1>5. Whole!HardError(whole) <=> HardError(carry \o chunk)
    <2>1. whole = buffer \o (carry \o chunk)
        BY <1>2, ConcatAssociative
    <2>2. carry \o chunk \in Seq(AllBytes)
        BY <1>2, ConcatProperties
    <2>3. HardError(buffer \o (carry \o chunk)) <=> HardError(carry \o chunk)
        BY <1>2, <2>2, BehindText
    <2>4. QED
        BY <2>1, <2>3, SameValidator
<1>6. CASE reply' = "cap" /\ TooLong(chunk) /\ UNCHANGED <<buffer, carry>>
    BY <1>1, <1>4, <1>6 DEF Whole!Feed
<1>7. CASE /\ reply' = "utf8" /\ ~TooLong(chunk) /\ HardError(carry \o chunk)
           /\ UNCHANGED <<buffer, carry>>
    BY <1>1, <1>2, <1>3, <1>4, <1>5, <1>7 DEF Whole!Feed
<1>8. CASE /\ ~TooLong(chunk) /\ ~HardError(carry \o chunk)
           /\ Commit(carry \o chunk, ValidUpTo(carry \o chunk))
    <2>1. reply' = "ok" /\ buffer' \o carry' = whole
        BY <1>8, CommitEffect DEF Commit
    <2>2. QED
        BY <1>1, <1>2, <1>3, <1>4, <1>5, <1>8, <2>1 DEF Whole!Feed
<1>9. QED
    BY <1>1, <1>6, <1>7, <1>8 DEF UpdateAsOne

LEMMA FinalizeMaps ==
    ASSUME SInv, Finalize
    PROVE  Whole!Finish
<1> DEFINE text == buffer \o carry
<1>1. buffer \in Seq(AllBytes) /\ carry \in Seq(AllBytes) /\ IsText(buffer)
    BY DEF SInv
<1>2. CASE carry = << >>
    <2>1. text = buffer
        BY <1>1, <1>2, ConcatEmptySeq
    <2>2. QED
        BY <1>1, <1>2, <2>1, SameValidator DEF Finalize, Whole!Finish
<1>3. CASE carry # << >>
    <2>1. text # << >>
        BY <1>1, <1>3, ConcatEqualIffEmpty
    <2>2. ~IsText(text)
        BY <1>1, <1>3, BehindText, NotText DEF SInv
    <2>3. QED
        BY <1>3, <2>1, <2>2, SameValidator DEF Finalize, Whole!Finish
<1>4. QED
    BY <1>2, <1>3

(* However a stream is cut, it is accepted, refused and handed on as one string of bytes
   would be (utf8_stream.rs:30-147): for any set of bytes, any caps, also lowered in
   mid-stream, and chunks of any length. *)
THEOREM StreamRefinement == Spec => ImplementsTextStream
<1>1. ASSUME SInv, [Next]_vars
      PROVE  [Whole!Next]_<<buffer \o carry, maxBytes, live, reply, sketched>>
    <2>1. CASE UNCHANGED vars
        BY <2>1 DEF vars
    <2>2. ASSUME NEW chunk \in Chunks, Update(chunk) PROVE Whole!Next
        BY <1>1, <2>2, UpdateMaps DEF Whole!Next
    <2>3. ASSUME NEW cap \in Caps, SetMaxBytes(cap) PROVE Whole!Next
        <3>1. Whole!SetLimit(cap)
            BY <2>3 DEF SetMaxBytes, Whole!SetLimit
        <3>2. QED
            BY <3>1 DEF Whole!Next
    <2>4. CASE Reset
        <3>1. buffer' \o carry' = << >>
            BY <2>4, EmptySeq, ConcatEmptySeq DEF Reset
        <3>2. QED
            BY <2>4, <3>1 DEF Reset, Whole!Reset, Whole!Next
    <2>5. CASE Finalize
        BY <1>1, <2>5, FinalizeMaps DEF Whole!Next
    <2>6. CASE New
        <3>1. buffer' \o carry' = << >>
            BY <2>6, EmptySeq, ConcatEmptySeq DEF New
        <3>2. QED
            BY <2>6, <3>1 DEF New, Whole!Restart, Whole!Next
    <2>7. QED
        BY <1>1, <2>1, <2>2, <2>3, <2>4, <2>5, <2>6 DEF Next
<1>2. QED
    BY <1>1, InitMaps, StreamInvariance, PTL DEF Spec, ImplementsTextStream, Whole!Spec

-----------------------------------------------------------------------------
\* The streamers around the buffer: a finished stream keeps what it was finished with.
OfflineInv ==
    /\ SInv
    /\ live => buffer \o carry = accepted /\ fingerprint = None
    /\ StreamedIsOffline

LEMMA StreamerStep == StreamerSpec => Init /\ [][Next]_vars
<1>1. IntoStreaming => Init
    BY DEF IntoStreaming
<1>2. [StreamerNext]_streamerVars => [Next]_vars
    BY DEF StreamerNext, streamerVars, vars, StreamUpdate, WithMaxBytes, StreamReset,
           StreamFinalize, IntoAnother, Next
<1>3. QED
    BY <1>1, <1>2, PTL DEF StreamerSpec

LEMMA FinalizeOffline ==
    ASSUME OfflineInv, StreamFinalize
    PROVE  StreamedIsOffline'
<1>1. /\ live /\ ~live' /\ UNCHANGED <<buffer, carry, kind, accepted>>
      /\ buffer \o carry = accepted
      /\ buffer \in Seq(AllBytes) /\ carry \in Seq(AllBytes) /\ IsText(buffer)
    BY DEF OfflineInv, SInv, StreamFinalize, Finalize
<1>2. CASE carry # << >>
    <2>1. ~IsText(accepted)
        BY <1>1, <1>2, BehindText, NotText DEF OfflineInv, SInv
    <2>2. fingerprint' = [failed |-> "trailing"]
        BY <1>2 DEF StreamFinalize, Finalize, Refusal
    <2>3. QED
        BY <1>1, <2>1, <2>2 DEF StreamedIsOffline
<1>3. CASE carry = << >>
    <2>1. accepted = buffer
        BY <1>1, <1>3, ConcatEmptySeq
    <2>2. CASE buffer = << >>
        <3>1. fingerprint' = [failed |-> "empty document"]
            BY <1>3, <2>2 DEF StreamFinalize, Finalize, Refusal
        <3>2. QED
            BY <1>1, <2>1, <2>2, <3>1 DEF StreamedIsOffline, Fingerprint
    <2>3. CASE buffer # << >>
        <3>1. fingerprint' = SketchCanonical(kind, CanonicalizeInto(Characters(buffer)))
            BY <1>1, <1>3, <2>3 DEF StreamFinalize, Finalize
        <3>2. QED
            BY <1>1, <2>1, <2>3, <3>1 DEF StreamedIsOffline, Fingerprint
    <2>4. QED
        BY <2>2, <2>3
<1>4. QED
    BY <1>2, <1>3

LEMMA NextOffline == OfflineInv /\ [StreamerNext]_streamerVars => OfflineInv'
<1> SUFFICES ASSUME OfflineInv, [StreamerNext]_streamerVars PROVE OfflineInv'
    OBVIOUS
<1>1. SInv'
    <2>1. [Next]_vars
        BY DEF StreamerNext, streamerVars, vars, StreamUpdate, WithMaxBytes, StreamReset,
               StreamFinalize, IntoAnother, Next
    <2>2. QED
        BY <2>1, NextSInv DEF OfflineInv
<1>2. CASE UNCHANGED streamerVars
    BY <1>1, <1>2 DEF streamerVars, vars, OfflineInv, StreamedIsOffline
<1>3. ASSUME NEW chunk \in Chunks, StreamUpdate(chunk) PROVE OfflineInv'
    <2>1. live /\ live' /\ UpdateAsOne(chunk) /\ UNCHANGED <<kind, fingerprint>>
        BY <1>3, UpdateEffect DEF OfflineInv, StreamUpdate, Update
    <2>2. buffer' \o carry' = accepted'
        <3>1. CASE reply' # "ok" /\ UNCHANGED <<buffer, carry>>
            BY <1>3, <2>1, <3>1 DEF OfflineInv, StreamUpdate
        <3>2. CASE /\ ~HardError(carry \o chunk)
                   /\ Commit(carry \o chunk, ValidUpTo(carry \o chunk))
            BY <1>3, <2>1, <3>2, CommitEffect DEF OfflineInv, StreamUpdate, Commit
        <3>3. QED
            BY <2>1, <3>1, <3>2 DEF UpdateAsOne
    <2>3. QED
        BY <1>1, <2>1, <2>2 DEF OfflineInv, StreamedIsOffline
<1>4. ASSUME NEW cap \in Caps, WithMaxBytes(cap) PROVE OfflineInv'
    BY <1>1, <1>4 DEF WithMaxBytes, SetMaxBytes, OfflineInv, StreamedIsOffline
<1>5. CASE StreamReset
    <2>1. buffer' \o carry' = << >>
        BY <1>5, EmptySeq, ConcatEmptySeq DEF StreamReset, Reset
    <2>2. QED
        BY <1>1, <1>5, <2>1 DEF StreamReset, Reset, OfflineInv, StreamedIsOffline
<1>6. CASE StreamFinalize
    BY <1>1, <1>6, FinalizeOffline DEF StreamFinalize, Finalize, OfflineInv
<1>7. CASE IntoAnother
    <2>1. buffer' \o carry' = << >>
        BY <1>7, EmptySeq, ConcatEmptySeq DEF IntoAnother, New
    <2>2. QED
        BY <1>1, <1>7, <2>1 DEF IntoAnother, OfflineInv, StreamedIsOffline
<1>8. QED
    BY <1>2, <1>3, <1>4, <1>5, <1>6, <1>7 DEF StreamerNext

(* finalize of MinHashStreaming and SimHashStreaming (streaming.rs of both) gives what the
   wrapped fingerprinter gives for the accepted bytes in one piece, whatever the text,
   the cuts and the refusals in between. *)
THEOREM StreamIsOffline == StreamerSpec => []StreamedIsOffline
<1>1. IntoStreaming => OfflineInv
    <2> SUFFICES ASSUME IntoStreaming PROVE OfflineInv
        OBVIOUS
    <2>1. buffer \o carry = << >>
        BY EmptySeq, ConcatEmptySeq DEF IntoStreaming, Init
    <2>2. QED
        BY <2>1, InitSInv DEF IntoStreaming, OfflineInv, StreamedIsOffline
<1>2. OfflineInv => StreamedIsOffline
    BY DEF OfflineInv
<1>3. QED
    BY <1>1, <1>2, NextOffline, PTL DEF StreamerSpec

(* The streamers' buffer is the one the two theorems above are about. *)
THEOREM StreamerKeepsBufferLaws == StreamerSpec => []WellSplit /\ ImplementsTextStream
<1>1. Init /\ [][Next]_vars => Spec
    BY DEF Spec
<1>2. QED
    BY <1>1, StreamerStep, AlwaysWellSplit, StreamRefinement, PTL
=============================================================================
