------------------------------- MODULE Murmur3 -------------------------------
(***************************************************************************)
(* How MurmurHash3 x64-128 takes a key in (src/src/classical/hash.rs):     *)
(* blocks of two lanes, a tail, the length.  Lanes are L bytes instead of  *)
(* eight and a byte is a digit below Base.  The arithmetic stays symbolic: *)
(* a state is the list of the mixing steps that made it, in which each     *)
(* step is invertible; only that mixing in a zero word changes nothing is  *)
(* used, as zero times C1, rotated, times C2 is zero.                      *)
(***************************************************************************)
EXTENDS Integers, SequencesExt

CONSTANTS
    Base,           \* values of a byte
    L,              \* bytes of a lane
    MaxKey,         \* longest key
    HashSeeds

ASSUME HashAssumption == Base \in Nat \ {0} /\ L \in Nat \ {0} /\ MaxKey \in Nat

Bytes == 0 .. Base - 1
Keys == UNION {[1 .. n -> Bytes] : n \in 0 .. MaxKey}

VARIABLES
    family, key, seed,
    digest          \* its two halves, or << >> before the call

hashVars == <<family, key, seed, digest>>

-----------------------------------------------------------------------------
\* u64::from_le_bytes, and the shifts of the tail: the first byte is the lowest.
Word(bytes) ==
    LET n == Len(bytes)
        last[i \in 0 .. n] == IF i = 0 THEN 0 ELSE bytes[n + 1 - i] + Base * last[i - 1]
    IN  last[n]

\* h ^= k times, rotated and times the constants of its lane.
XorWord(h, lane, k) == IF k = 0 THEN h ELSE <<lane, k, h>>

\* One block: each lane takes its word, rotates, adds the other lane.
Block(h, k1, k2) ==
    LET h1 == <<"mix1", XorWord(h[1], "k1", k1), h[2]>>
        h2 == <<"mix2", XorWord(h[2], "k2", k2), h1>>
    IN  <<h1, h2>>

NBlocks(k) == Len(k) \div (2 * L)

Lane(k, i) == Word(SubSeq(k, L * i + 1, L * i + L))

Body(k, s) ==
    LET body[n \in 0 .. NBlocks(k)] ==
            IF n = 0 THEN << <<"seed", s>>, <<"seed", s>> >>
            ELSE Block(body[n - 1], Lane(k, 2 * n - 2), Lane(k, 2 * n - 1))
    IN  body[NBlocks(k)]

AbsorbTail(h, k) ==
    LET tail == SubSeq(k, 2 * L * NBlocks(k) + 1, Len(k))
    IN  << XorWord(h[1], "k1", Word(SubSeq(tail, 1, IF Len(tail) < L THEN Len(tail) ELSE L))),
           XorWord(h[2], "k2", Word(SubSeq(tail, L + 1, Len(tail)))) >>

Fmix64(k) == <<"fmix", k>>

\* Mutant of Finalize: the length is not taken in.
FinalizeWithoutLength(h, length) ==
    LET h1 == <<"add", h[1], h[2]>>
        h2 == <<"add", h[2], h1>>
        lo == <<"add", Fmix64(h1), Fmix64(h2)>>
    IN  <<lo, <<"add", Fmix64(h2), lo>>>>

Finalize(h, length) ==
    LET x1 == XorWord(h[1], "len", length)
        x2 == XorWord(h[2], "len", length)
        h1 == <<"add", x1, x2>>
        h2 == <<"add", x2, h1>>
        lo == <<"add", Fmix64(h1), Fmix64(h2)>>
    IN  <<lo, <<"add", Fmix64(h2), lo>>>>

Murmur3x64x128(k, s) == Finalize(AbsorbTail(Body(k, s), k), Len(k))

\* xxh3 is a library: its digest is a value of its own, of which each half is taken.
Xxh3(k, s) == << <<"xxh3 low", k, s>>, <<"xxh3 high", k, s>> >>

Hash128(f, k, s) == IF f = "Murmur" THEN Murmur3x64x128(k, s) ELSE Xxh3(k, s)

-----------------------------------------------------------------------------
HashInit ==
    family \in {"Murmur", "Xxh3"} /\ key \in Keys /\ seed \in HashSeeds /\ digest = << >>

Hash ==
    /\ digest = << >>
    /\ digest' = Hash128(family, key, seed)
    /\ UNCHANGED <<family, key, seed>>

HashSpec == HashInit /\ [][Hash]_hashVars

-----------------------------------------------------------------------------
(* Every byte of a key is taken in once, at its place: another key, another seed or
   the other family goes through other mixing steps, in both halves of the digest.
   That holds for keys that differ in the zero bytes at their end too, at every split
   into blocks and tail, and by the length alone (hash.rs:131-206).  What is left to
   chance is the arithmetic. *)
AllIsTakenIn ==
    digest # << >> =>
        /\ digest[1] # digest[2]
        /\ \A f \in {"Murmur", "Xxh3"}, k \in Keys, s \in HashSeeds :
              LET d == Hash128(f, k, s)
              IN  d[1] = digest[1] \/ d[2] = digest[2] => f = family /\ k = key /\ s = seed
=============================================================================
