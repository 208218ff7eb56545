------------------------------ MODULE SimHash64 ------------------------------
(***************************************************************************)
(* A SimHash signature at rest and compared (src/src/classical/simhash/:   *)
(* sig.rs and distance.rs).  A word is the set of its bits, 0 the lowest;  *)
(* it has Width bytes of ByteBits bits.                                    *)
(***************************************************************************)
EXTENDS Integers, FiniteSets, SequencesExt

CONSTANTS
    Width, ByteBits

ASSUME WordAssumption == Width \in Nat /\ ByteBits \in Nat \ {0}

BitNumbers == 0 .. Width * ByteBits - 1

VARIABLES
    sig,        \* the signature that was stored
    bytes,      \* where it is stored
    loaded      \* what was loaded again, or Refused, or Unread

storedVars == <<sig, bytes, loaded>>

Refused == [failed |-> "error"]
Unread == [failed |-> "unread"]
Sig(bits) == [bits |-> bits]

-----------------------------------------------------------------------------
\* SimHash64::new, bits and the conversions from and to u64.
NewSimHash(bits) == Sig(bits)
BitsOf(s) == s.bits

\* The bytes of the word, lowest first.
AsBytes(s) ==
    [i \in 1 .. Width |-> {b \in 0 .. ByteBits - 1 : (i - 1) * ByteBits + b \in s.bits}]

\* Mutant of FromBytes: highest first.
FromBytesBigEndian(bs) ==
    IF Len(bs) # Width THEN Refused
    ELSE Sig({n \in BitNumbers : n % ByteBits \in bs[Width - (n \div ByteBits)]})

FromBytes(bs) ==
    IF Len(bs) # Width THEN Refused
    ELSE Sig({n \in BitNumbers : n % ByteBits \in bs[(n \div ByteBits) + 1]})

\* count_ones of the exclusive or.
Hamming(s, t) == Cardinality((s.bits \ t.bits) \cup (t.bits \ s.bits))

\* The angle whose cosine is estimated, as a part of the half turn.
CosineAngle(s, t) == <<Hamming(s, t), Width * ByteBits>>

-----------------------------------------------------------------------------
StoredInit ==
    /\ sig \in {NewSimHash(bits) : bits \in SUBSET BitNumbers}
    /\ bytes = AsBytes(sig) /\ loaded = Unread

\* The place it is stored in loses its last bytes or holds more than the signature.
Resize ==
    /\ loaded = Unread /\ Len(bytes) = Width
    /\ bytes' \in {SubSeq(bytes, 1, n) : n \in 0 .. Width - 1} \cup {Append(bytes, {})}
    /\ UNCHANGED <<sig, loaded>>

\* from_bytes, and try_from of a slice.
Load ==
    /\ loaded = Unread
    /\ loaded' = FromBytes(bytes)
    /\ UNCHANGED <<sig, bytes>>

StoredNext == Resize \/ Load

StoredSpec == StoredInit /\ [][StoredNext]_storedVars

-----------------------------------------------------------------------------
(* A stored signature that was cut or padded is refused, any other loads as what was
   stored: it is at distance zero from it, at the same distance and the same angle
   from every other signature, and its complement is at the half turn. *)
LoadsOrRefuses ==
    loaded # Unread =>
        /\ loaded = Refused <=> Len(bytes) # Width
        /\ loaded # Refused =>
              \A bits \in SUBSET BitNumbers :
                  /\ CosineAngle(loaded, NewSimHash(bits)) = CosineAngle(NewSimHash(bits), sig)
                  /\ CosineAngle(loaded, NewSimHash(bits))[1] = 0 <=> bits = BitsOf(sig)
                  /\ CosineAngle(loaded, NewSimHash(bits))[1] = Width * ByteBits
                        <=> bits = BitNumbers \ BitsOf(sig)
=============================================================================
