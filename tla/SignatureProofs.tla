-------------------------- MODULE SignatureProofs --------------------------
(***************************************************************************)
(* The slots of a signature.  A partition of them into bands, found for a  *)
(* threshold, is one the index accepts and the best there is, for every    *)
(* width, word size and error function.  A stored signature loads as it    *)
(* was written or not at all, for any number of slots, words and schemas   *)
(* and any order of the fields.                                            *)
(***************************************************************************)
EXTENDS LshBuilder, SignatureCodec, SequenceTheorems, TLAPS

(* The partition. *)

(* A divisor and its quotient. *)
LEMMA Quotient ==
    ASSUME NEW w \in Nat \ {0}, NEW n \in 1 .. w, w % n = 0
    PROVE  w \div n \in 1 .. w /\ n * (w \div n) = w
<1>1. w = n * (w \div n) + (w % n) /\ w \div n \in Nat
    OBVIOUS
<1>2. n * (w \div n) = w
    BY <1>1
<1>3. w \div n # 0
    BY <1>2
<1>4. w \div n <= n * (w \div n)
    BY <1>1, Z3
<1> QED  BY <1>1, <1>2, <1>3, <1>4

LEMMA PastTheEnd ==
    ASSUME NEW w \in Nat, NEW x \in 1 .. w + 1, x > w
    PROVE  x = w + 1
OBVIOUS

\* What the search knows when it is about to try b bands.
Searched ==
    h # None =>
        /\ best = None => bestError = Infinity
        /\ best # None =>
              /\ best \in 1 .. b - 1 /\ h % best = 0 /\ bestError = error[best]
              /\ \A x \in 1 .. b - 1 : h % x = 0 /\ x < best => error[best] < error[x]
        /\ \A x \in 1 .. b - 1 : h % x = 0 => bestError <= error[x]

\* Where the builder comes from.
Built ==
    /\ bands = None <=> rows = None
    /\ h = None => best = None /\ bestError = Infinity
    /\ h # None /\ bands # None => b = h + 1 /\ bands = best /\ rows = h \div best
    /\ outcome = "index" => bands # None /\ Accepts(bands, rows)
    /\ h # None /\ bands # None /\ outcome = "config error" => ~Accepts(bands, rows)

IInv == TypeOK /\ Searched /\ Built

LEMMA InitIInv == Init => IInv
BY BuilderAssumption DEF Init, IInv, TypeOK, Searched, Built, Words

LEMMA NextIInv == IInv /\ [Next]_vars => IInv'
<1> SUFFICES ASSUME IInv, [Next]_vars PROVE IInv'
    OBVIOUS
<1>a. /\ TypeOK /\ Searched /\ Built
      /\ W \in Nat \ {0} /\ None \notin Words /\ 0 \in Words
      /\ Asked \subseteq Words
      /\ Infinity \in Nat
      /\ Errors \cup {Infinity} \subseteq Nat
      /\ \A e \in Errors \cup {Infinity} : e <= Infinity
    BY BuilderAssumption DEF IInv, Words
<1>b. \A w \in Words : w \in Nat /\ w # None
    BY <1>a DEF Words
<1>c. ASSUME NEW w \in Words, NEW x \in 1 .. w PROVE x \in Words
    <2>1. W \in Nat
        BY <1>a
    <2> QED  BY <2>1 DEF Words
<1>1. CASE New
    <2>1. TypeOK'
        BY <1>1, <1>a DEF New, Idle, TypeOK
    <2>2. Searched'
        BY <1>1, <1>a DEF New, Idle, Searched
    <2>3. Built'
        BY <1>1, <1>a DEF New, Idle, Built
    <2> QED  BY <2>1, <2>2, <2>3 DEF IInv
<1>2. CASE ForThreshold
    <2>1. Idle /\ UNCHANGED <<best, bestError, bands, rows>>
        BY <1>2 DEF ForThreshold
    <2>2. best = None /\ bestError = Infinity /\ bands = None /\ rows = None
        BY <1>a, <2>1 DEF Built, Idle
    <2>3. CASE outcome' = "config error" /\ UNCHANGED <<h, error, b>>
        BY <2>1, <2>2, <2>3, <1>a DEF IInv, Idle, TypeOK, Searched, Built
    <2>4. ASSUME NEW width \in Asked, width # 0, h' = width, b' = 1, outcome' = outcome,
                 error' \in [1 .. width -> Errors \cup {Infinity}]
          PROVE  IInv'
        <3>1. width \in Nat /\ width \in Words /\ width # None
            BY <1>a, <1>b
        <3>2. TypeOK'
            BY <1>a, <2>1, <2>2, <2>4, <3>1 DEF TypeOK, Idle
        <3>3. Searched'
            BY <2>1, <2>2, <2>4 DEF Searched
        <3>4. Built'
            BY <1>a, <2>1, <2>2, <2>4, <3>1 DEF Built, Idle
        <3> QED  BY <3>2, <3>3, <3>4 DEF IInv
    <2> QED  BY <1>2, <2>3, <2>4 DEF ForThreshold
<1>3. CASE Try
    <2> USE <1>3 DEF Try
    <2>1. /\ h \in Nat /\ h \in Words /\ b \in 1 .. h /\ b \in Nat /\ b \in Words
          /\ error \in [1 .. h -> Errors \cup {Infinity}]
          /\ bestError \in Errors \cup {Infinity}
          /\ \A x \in 1 .. h : error[x] \in Nat /\ error[x] <= Infinity /\ x # None
        BY <1>a, <1>b DEF TypeOK, Words
    <2>2. \A x \in 1 .. b' - 1 : x \in 1 .. b - 1 \/ x = b
        BY <2>1
    <2>3. CASE h % b = 0 /\ error[b] < bestError
        <3>1. TypeOK'
            BY <1>a, <2>1, <2>3 DEF TypeOK
        <3>2. ASSUME NEW x \in 1 .. b' - 1, h % x = 0
              PROVE  bestError' <= error[x] /\ (x < best' => error[best'] < error[x])
            <4>1. x = b \/ (x \in 1 .. b - 1 /\ bestError <= error[x])
                BY <1>a, <2>1, <2>2, <3>2 DEF Searched
            <4> QED  BY <1>a, <2>1, <2>3, <4>1
        <3>3. Searched'
            BY <1>a, <2>1, <2>3, <3>2 DEF Searched
        <3>4. Built'
            BY <1>a, <2>1, <2>3 DEF Built
        <3> QED  BY <3>1, <3>3, <3>4 DEF IInv
    <2>4. CASE ~(h % b = 0 /\ error[b] < bestError)
        <3>1. TypeOK'
            BY <1>a, <2>1, <2>4 DEF TypeOK
        <3>2. bestError \in Nat /\ (h % b = 0 => bestError <= error[b])
            BY <1>a, <2>1, <2>4
        <3>3. Searched'
            BY <1>a, <2>1, <2>2, <2>4, <3>2 DEF Searched
        <3>4. Built'
            BY <1>a, <2>1, <2>4 DEF Built
        <3> QED  BY <3>1, <3>3, <3>4 DEF IInv
    <2> QED  BY <2>3, <2>4
<1>4. CASE Choose
    <2> USE <1>4 DEF Choose
    <2>1. h \in Nat \ {0} /\ h \in Words /\ b = h + 1
        <3>1. h \in Words /\ h # 0 /\ b \in 1 .. h + 1 /\ b > h
            BY <1>a DEF TypeOK
        <3>2. h \in Nat
            BY <1>b, <3>1
        <3>3. b = h + 1
            BY <3>1, <3>2, PastTheEnd, Zenon
        <3> QED  BY <3>1, <3>2, <3>3, Zenon
    <2>2. CASE best = None
        BY <1>a, <2>1, <2>2 DEF IInv, TypeOK, Searched, Built
    <2>3. CASE best # None
        <3>1. best \in 1 .. h /\ h % best = 0
            BY <1>a, <2>1, <2>3 DEF Searched
        <3>2. h \div best \in 1 .. h
            BY <2>1, <3>1, Quotient
        <3>3. best \in Words /\ h \div best \in Words
            BY <1>c, <2>1, <3>1, <3>2
        <3>4. best # None /\ h \div best # None
            BY <1>b, <3>3
        <3>5. TypeOK'
            BY <1>a, <2>1, <2>3, <3>3 DEF TypeOK
        <3>6. Searched' /\ Built'
            BY <1>a, <2>1, <2>3, <3>4 DEF Searched, Built
        <3> QED  BY <3>5, <3>6 DEF IInv
    <2> QED  BY <2>2, <2>3
<1>5. CASE TryBuild
    <2> USE <1>5 DEF TryBuild
    <2>1. TypeOK' /\ Searched'
        BY <1>a DEF TypeOK, Searched
    <2>2. Built'
        BY <1>a DEF Built, Accepts
    <2> QED  BY <2>1, <2>2 DEF IInv
<1>6. CASE UNCHANGED vars
    BY <1>6 DEF vars, IInv, TypeOK, Searched, Built
<1> QED  BY <1>1, <1>2, <1>3, <1>4, <1>5, <1>6 DEF Next

LEMMA Invariance == Spec => []IInv
BY InitIInv, NextIInv, PTL DEF Spec

(* A partition from for_threshold is never refused by the index it was made for. *)
LEMMA NoPanicAfterThreshold == Spec => []ThresholdBuilds
<1>1. ASSUME IInv PROVE ThresholdBuilds
    <2> SUFFICES ASSUME bands # None, h = H PROVE outcome # "config error"
        BY DEF ThresholdBuilds
    <2>a. TypeOK /\ Searched /\ Built /\ H \in Words /\ H # None /\ W \in Nat \ {0}
        BY <1>1, BuilderAssumption DEF IInv
    <2>1. h \in Nat \ {0} /\ h < W
        <3>1. h \in Words /\ h # 0
            BY <2>a DEF TypeOK
        <3> QED  BY <2>a, <3>1 DEF Words
    <2>2. b = h + 1 /\ bands = best /\ rows = h \div best
        BY <2>a DEF Built
    <2>3. best \in 1 .. h /\ h % best = 0
        BY <2>a, <2>1, <2>2 DEF Searched
    <2>4. rows \in 1 .. h /\ bands * rows = h
        BY <2>1, <2>2, <2>3, Quotient
    <2>5. Accepts(bands, rows)
        BY <2>1, <2>2, <2>3, <2>4 DEF Accepts
    <2> QED  BY <2>a, <2>5 DEF Built
<1> QED  BY Invariance, <1>1, PTL

(* Of all factor pairs the one chosen has the least error, and the fewest bands among
   its equals. *)
LEMMA BestPair == Spec => []LeastError
<1>1. ASSUME IInv PROVE LeastError
    <2> SUFFICES ASSUME bands # None, h # None, NEW x \in 1 .. h, h % x = 0
                 PROVE  error[bands] <= error[x] /\ (x < bands => error[bands] < error[x])
        BY DEF LeastError
    <2>a. TypeOK /\ Searched /\ Built
        BY <1>1 DEF IInv
    <2>1. b = h + 1 /\ bands = best /\ best # None
        BY <2>a DEF Built
    <2>2. h \in Nat /\ x \in 1 .. b - 1
        <3>1. h \in Words /\ W \in Nat
            BY <2>a, BuilderAssumption DEF TypeOK
        <3>2. h \in Nat
            BY <3>1 DEF Words
        <3> QED  BY <2>1, <3>2
    <2> QED  BY <2>a, <2>1, <2>2 DEF Searched
<1> QED  BY Invariance, <1>1, PTL

(* What for_threshold chooses (builder.rs:83-113) can be built and is the best there is, for
   every width, word size and error function. *)
THEOREM ThresholdChooses == Spec => []ThresholdChoice
BY NoPanicAfterThreshold, BestPair, PTL DEF ThresholdChoice

(* Multiples of a positive number are spread apart by it. *)
LEMMA Multiples ==
    ASSUME NEW r \in Nat \ {0}, NEW m \in Nat, NEW n \in Nat, m < n
    PROVE  (m + 1) * r <= n * r
BY Z3

(* Every slot of an index that is made lies in exactly one band. *)
THEOREM BandsPartition == Spec => []Partition
<1>1. ASSUME IInv PROVE Partition
    <2> SUFFICES ASSUME outcome = "index", NEW s \in 0 .. H - 1
                 PROVE  \E n \in 0 .. bands - 1 :
                            /\ n * rows <= s /\ s < (n + 1) * rows /\ (n + 1) * rows <= H
                            /\ \A x \in 0 .. bands - 1 :
                                   x # n => s < x * rows \/ (x + 1) * rows <= s
        BY DEF Partition
    <2>1. /\ bands \in Nat \ {0} /\ rows \in Nat \ {0} /\ bands * rows = H /\ H \in Nat
        BY <1>1, BuilderAssumption DEF IInv, Built, TypeOK, Accepts, Words
    <2> DEFINE n == s \div rows
    <2>2. n \in Nat /\ s = rows * n + (s % rows) /\ s % rows \in 0 .. rows - 1
        BY <2>1
    <2>3. n * rows = rows * n /\ (n + 1) * rows = rows * n + rows
        BY <2>1, <2>2
    <2> HIDE DEF n
    <2>4. n * rows <= s /\ s < (n + 1) * rows
        BY <2>1, <2>2, <2>3
    <2>5. n < bands
        <3> SUFFICES ASSUME ~(n < bands) PROVE FALSE
            OBVIOUS
        <3>1. CASE n = bands
            BY <2>1, <2>4, <3>1
        <3>2. CASE bands < n
            <4>1. (bands + 1) * rows <= n * rows
                BY <2>1, <2>2, <3>2, Multiples
            <4>2. (bands + 1) * rows = bands * rows + rows
                BY <2>1
            <4> QED  BY <2>1, <2>2, <2>3, <2>4, <4>1, <4>2
        <3> QED  BY <2>1, <2>2, <3>1, <3>2
    <2>6. (n + 1) * rows <= H
        BY <2>1, <2>2, <2>5, Multiples
    <2>7. ASSUME NEW x \in 0 .. bands - 1, x # n
          PROVE  s < x * rows \/ (x + 1) * rows <= s
        <3>1. CASE x < n
            <4>1. (x + 1) * rows <= n * rows
                BY <2>1, <2>2, <3>1, Multiples
            <4> QED  BY <2>1, <2>2, <2>3, <2>4, <4>1
        <3>2. CASE n < x
            <4>1. (n + 1) * rows <= x * rows
                BY <2>1, <2>2, <3>2, Multiples
            <4> QED  BY <2>1, <2>2, <2>3, <2>4, <4>1
        <3> QED  BY <2>2, <2>7, <3>1, <3>2
    <2>8. n \in 0 .. bands - 1
        BY <2>1, <2>2, <2>5
    <2> QED  BY <2>4, <2>6, <2>7, <2>8, Zenon
<1> QED  BY Invariance, <1>1, PTL

-----------------------------------------------------------------------------
(* The stored signature. *)

\* What is left of a sequence that lost its tail.
Rest(s, t) == Len(s) <= Len(t) /\ \A i \in 1 .. Len(s) : s[i] = t[i]

\* What is stored belongs to what was written; bytes that miss nothing have no odd tail.
StoredBytes ==
    /\ cell = [form |-> "bytes", schema |-> written.schema, hashes |-> cell.hashes, extra |-> cell.extra]
    /\ cell.hashes \in Seq(WordSet) /\ cell.extra \in 0 .. 7
    /\ Rest(cell.hashes, written.hashes)

StoredMap ==
    cell = [form |-> "map", schema |-> written.schema, hashes |-> written.hashes, fields |-> cell.fields]

StoredTuple ==
    /\ cell = [form |-> "tuple", elements |-> cell.elements]
    /\ cell.elements \in Seq(Schemas \cup WordSet)
    /\ Rest(cell.elements, <<written.schema>> \o written.hashes)

CInv ==
    /\ written \in [schema : Schemas, hashes : Seq(WordSet)]
    /\ StoredBytes \/ StoredMap \/ StoredTuple
    /\ LoadedOK /\ LoadedIsWritten /\ BytesGuardSchema /\ RoundTrip

LEMMA RestIsPrefix ==
    ASSUME NEW S, NEW s \in Seq(S), NEW t \in Seq(S), Rest(s, t)
    PROVE  IsPrefix(s, t)
<1>1. Len(s) \in Nat /\ Len(t) \in Nat
    BY LenProperties
<1>2. \A i \in 1 .. Len(s) : s[i] \in S /\ t[i] \in S
    BY <1>1, ElementOfSeq DEF Rest
<1>3. /\ SubSeq(t, 1, Len(s)) \in Seq(S) /\ Len(SubSeq(t, 1, Len(s))) = Len(s)
      /\ \A i \in 1 .. Len(s) : SubSeq(t, 1, Len(s))[i] = t[i]
    BY <1>1, <1>2, SubSeqProperties
<1>4. SubSeq(t, 1, Len(s)) = s
    BY <1>3, SeqEqual DEF Rest
<1>5. SubSeq(s, 1, Len(s)) = s
    BY SubSeqFull
<1>6. QED
    BY <1>1, <1>4, <1>5 DEF Rest, IsPrefix

LEMMA CutRest ==
    ASSUME NEW S, NEW s \in Seq(S), NEW t, Rest(s, t), NEW n \in 0 .. Len(s) - 1,
           Len(t) \in Nat
    PROVE  /\ SubSeq(s, 1, n) \in Seq(S) /\ Len(SubSeq(s, 1, n)) = n
           /\ Rest(SubSeq(s, 1, n), t)
<1>1. Len(s) \in Nat /\ \A i \in 1 .. n : s[i] \in S
    BY LenProperties, ElementOfSeq
<1>2. /\ SubSeq(s, 1, n) \in Seq(S) /\ Len(SubSeq(s, 1, n)) = n
      /\ \A i \in 1 .. n : SubSeq(s, 1, n)[i] = s[i]
    BY <1>1, SubSeqProperties
<1>3. QED
    BY <1>1, <1>2 DEF Rest

-----------------------------------------------------------------------------
LEMMA Elements ==
    ASSUME NEW schema \in Schemas, NEW hashes \in Seq(WordSet)
    PROVE  /\ <<schema>> \o hashes \in Seq(Schemas \cup WordSet)
           /\ Len(<<schema>> \o hashes) = 1 + Len(hashes)
           /\ (<<schema>> \o hashes)[1] = schema
           /\ \A i \in 1 .. Len(hashes) : (<<schema>> \o hashes)[i + 1] = hashes[i]
<1>1. /\ <<schema>> \in Seq(Schemas \cup WordSet) /\ Len(<<schema>>) = 1 /\ <<schema>>[1] = schema
      /\ hashes \in Seq(Schemas \cup WordSet) /\ Len(hashes) \in Nat
    BY SeqMonotonic, LenProperties
<1>2. QED
    BY <1>1, ConcatProperties

LEMMA InitCInv == CodecInit => CInv
<1> SUFFICES ASSUME NEW schema \in Schemas, NEW n \in Widths, NEW hashes \in [1 .. n -> WordSet],
                    written = [schema |-> schema, hashes |-> hashes],
                    cell \in {AsBytes(schema, hashes), AsMap(schema, hashes), AsTuple(schema, hashes)},
                    loaded = NotLoaded
             PROVE  CInv
    BY DEF CodecInit
<1>1. hashes \in Seq(WordSet) /\ Len(hashes) \in Nat
    BY SeqDef, LenProperties, CodecAssumption
<1>2. loaded.kind = "none"
    BY DEF NotLoaded, Failed
<1>3. LoadedOK /\ LoadedIsWritten /\ BytesGuardSchema /\ RoundTrip
    BY <1>2 DEF LoadedOK, NotLoaded, LoadedIsWritten, BytesGuardSchema, RoundTrip
<1>4. CASE cell = AsBytes(schema, hashes)
    BY <1>1, <1>3, <1>4 DEF AsBytes, CInv, StoredBytes, Rest
<1>5. CASE cell = AsMap(schema, hashes)
    BY <1>1, <1>3, <1>5 DEF AsMap, CInv, StoredMap
<1>6. CASE cell = AsTuple(schema, hashes)
    BY <1>1, <1>3, <1>6, Elements DEF AsTuple, CInv, StoredTuple, Rest
<1>7. QED
    BY <1>4, <1>5, <1>6

LEMMA StoreCInv == ASSUME CInv, LoseTail \/ RewriteFields PROVE CInv'
<1>1. (LoadedOK /\ LoadedIsWritten /\ BytesGuardSchema /\ RoundTrip)'
    <2>1. loaded' = NotLoaded
        BY Zenon DEF LoseTail, RewriteFields
    <2>2. LoadedOK'
        BY <2>1 DEF LoadedOK, NotLoaded
    <2>3. QED
        BY <2>1, <2>2 DEF LoadedIsWritten, BytesGuardSchema, RoundTrip, NotLoaded, Failed
<1>2. written' = written
    BY DEF LoseTail, RewriteFields
<1>3. ASSUME cell.form = "bytes", NEW n \in 0 .. Len(cell.hashes) - 1, NEW extra \in 0 .. 7,
             cell' = [cell EXCEPT !.hashes = SubSeq(@, 1, n), !.extra = extra]
      PROVE  StoredBytes'
    <2>1. StoredBytes
        BY <1>3 DEF CInv, StoredMap, StoredTuple
    <2>2. cell' = [form |-> "bytes", schema |-> written.schema,
                   hashes |-> SubSeq(cell.hashes, 1, n), extra |-> extra]
        <3>1. PICK hashes, rest : cell = [form |-> "bytes", schema |-> written.schema,
                                          hashes |-> hashes, extra |-> rest]
            BY <2>1 DEF StoredBytes
        <3>2. QED
            BY <1>3, <3>1
    <2>3. Len(written.hashes) \in Nat
        BY LenProperties DEF CInv
    <2>4. /\ SubSeq(cell.hashes, 1, n) \in Seq(WordSet)
          /\ Rest(SubSeq(cell.hashes, 1, n), written.hashes)
        BY <2>1, <2>3, CutRest DEF StoredBytes
    <2>5. QED
        BY <1>2, <2>2, <2>4 DEF StoredBytes, Rest
<1>4. ASSUME cell.form = "tuple", NEW n \in 0 .. Len(cell.elements) - 1,
             cell' = [cell EXCEPT !.elements = SubSeq(@, 1, n)]
      PROVE  StoredTuple'
    <2>1. StoredTuple
        BY <1>4 DEF CInv, StoredMap, StoredBytes
    <2>2. cell' = [form |-> "tuple", elements |-> SubSeq(cell.elements, 1, n)]
        BY <1>4, <2>1 DEF StoredTuple
    <2>3. Len(<<written.schema>> \o written.hashes) \in Nat
        BY Elements, LenProperties DEF CInv
    <2>4. /\ SubSeq(cell.elements, 1, n) \in Seq(Schemas \cup WordSet)
          /\ Rest(SubSeq(cell.elements, 1, n), <<written.schema>> \o written.hashes)
        BY <2>1, <2>3, CutRest DEF StoredTuple
    <2>5. QED
        BY <1>2, <2>2, <2>4 DEF StoredTuple, Rest
<1>5. ASSUME cell.form = "map", NEW fields, cell' = [cell EXCEPT !.fields = fields]
      PROVE  StoredMap'
    <2>1. StoredMap
        BY <1>5 DEF CInv, StoredBytes, StoredTuple
    <2>2. QED
        BY <1>2, <1>5, <2>1 DEF StoredMap
<1>6. QED
    BY <1>1, <1>2, <1>3, <1>4, <1>5 DEF LoseTail, RewriteFields, CInv

\* from_bytes: the length decides that nothing is missing.
LEMMA BytesCInv == ASSUME CInv, LoadBytes PROVE CInv'
<1>1. StoredBytes /\ written' = written /\ cell' = cell
    BY DEF LoadBytes, CInv, StoredMap, StoredTuple
<1>2. PICK aligned \in BOOLEAN : loaded' = FromBytes(cell, aligned)
    BY DEF LoadBytes
<1>3. /\ Slots \in Nat /\ Len(cell.hashes) \in Nat /\ Len(written.hashes) \in Nat /\ cell.extra \in 0 .. 7
      /\ cell.schema = written.schema /\ cell.form = "bytes"
    BY <1>1, LenProperties, CodecAssumption DEF CInv, StoredBytes
<1>4. LoadedIsWritten' /\ BytesGuardSchema'
    <2> SUFFICES ASSUME loaded'.kind = "ok" PROVE LoadedIsWritten' /\ BytesGuardSchema'
        BY DEF LoadedIsWritten, BytesGuardSchema
    <2>1. /\ cell.schema = SCHEMA_VERSION
          /\ loaded'.schema = SCHEMA_VERSION /\ loaded'.hashes = cell.hashes
        BY <1>2 DEF FromBytes, Failed, Ok
    <2>2. IsPrefix(cell.hashes, written.hashes)
        BY <1>1, RestIsPrefix DEF CInv, StoredBytes
    <2>3. Intact => cell.hashes = written.hashes
        BY <1>3 DEF Intact, AsBytes, AsMap, AsTuple
    <2>4. QED
        BY <1>1, <1>3, <2>1, <2>2, <2>3 DEF LoadedIsWritten, BytesGuardSchema, Intact
<1>5. RoundTrip'
    <2> SUFFICES ASSUME written.schema = SCHEMA_VERSION, Len(written.hashes) = Slots, Intact
                 PROVE  loaded'.kind \in {"ok", "panic"}
        BY <1>1, <1>3 DEF RoundTrip, Intact
    <2>1. cell.hashes = written.hashes /\ cell.extra = 0
        BY <1>3 DEF Intact, AsBytes, AsMap, AsTuple
    <2>2. ByteSize(cell) = ExpectedSize
        BY <1>3, <2>1 DEF ByteSize, ExpectedSize
    <2>3. QED
        BY <1>2, <1>3, <2>2 DEF FromBytes, Failed, Ok
<1>6. LoadedOK'
    <2>1. CASE loaded' \in {Failed(e) : e \in {"InvalidInput", "SchemaMismatch", "panic"}}
        BY <2>1 DEF LoadedOK
    <2>2. CASE ByteSize(cell) = ExpectedSize /\ loaded' = Ok(SCHEMA_VERSION, cell.hashes)
        <3>1. Len(cell.hashes) = Slots
            BY <1>3, <2>2 DEF ByteSize, ExpectedSize
        <3>2. cell.hashes \in [1 .. Slots -> WordSet]
            BY <1>1, <3>1, LenProperties, ElementOfSeq, SeqDef DEF StoredBytes
        <3>3. QED
            BY <2>2, <3>2, CodecAssumption DEF LoadedOK, Ok
    <2>3. QED
        BY <1>2, <2>1, <2>2 DEF FromBytes
<1>7. QED
    BY <1>1, <1>4, <1>5, <1>6 DEF CInv, StoredBytes, StoredMap, StoredTuple, Rest

LEMMA MapCInv == ASSUME CInv, LoadMap PROVE CInv'
<1>1. StoredMap /\ written' = written /\ cell' = cell /\ loaded' = VisitMap(cell)
    BY DEF LoadMap, CInv, StoredBytes, StoredTuple
<1>2. cell.form = "map" /\ cell.schema = written.schema /\ cell.hashes = written.hashes
    BY <1>1 DEF StoredMap
<1>3. Rest(written.hashes, written.hashes) /\ IsPrefix(written.hashes, written.hashes)
    <2>1. Len(written.hashes) \in Nat
        BY LenProperties DEF CInv
    <2>2. QED
        BY <2>1, RestIsPrefix DEF Rest, CInv
<1>4. (LoadedIsWritten /\ BytesGuardSchema)'
    BY <1>1, <1>2, <1>3 DEF LoadedIsWritten, BytesGuardSchema, VisitMap, Ok, Failed
<1>5. RoundTrip'
    <2> SUFFICES ASSUME Len(written.hashes) = Slots,
                        Intact \/ Range(cell.fields) = {"schema", "hashes"}
                 PROVE  loaded'.kind = "ok"
        BY <1>1, <1>2 DEF RoundTrip, Intact
    <2>1. Range(cell.fields) = {"schema", "hashes"}
        <3>1. CASE Intact
            <4>1. cell.fields = <<"schema", "hashes">>
                BY <1>2, <3>1 DEF Intact, AsBytes, AsMap, AsTuple
            <4>2. DOMAIN cell.fields = {1, 2} /\ cell.fields[1] = "schema" /\ cell.fields[2] = "hashes"
                BY <4>1
            <4>3. QED
                BY <4>2 DEF Range
        <3>2. QED
            BY <3>1
    <2>2. QED
        BY <1>1, <1>2, <2>1 DEF VisitMap, Ok
<1>6. LoadedOK'
    <2>1. CASE loaded' = Failed("serde")
        BY <2>1 DEF LoadedOK
    <2>2. CASE Len(cell.hashes) = Slots /\ loaded' = Ok(cell.schema, cell.hashes)
        <3>1. written.hashes \in [1 .. Slots -> WordSet] /\ written.schema \in Schemas
            BY <1>2, <2>2, LenProperties, ElementOfSeq, SeqDef DEF CInv
        <3>2. QED
            BY <1>2, <2>2, <3>1 DEF LoadedOK, Ok
    <2>3. QED
        BY <1>1, <2>1, <2>2 DEF VisitMap
<1>7. QED
    BY <1>1, <1>4, <1>5, <1>6 DEF CInv, StoredBytes, StoredMap, StoredTuple, Rest

LEMMA TupleCInv == ASSUME CInv, LoadTuple PROVE CInv'
<1>1. StoredTuple /\ written' = written /\ cell' = cell /\ cell.form = "tuple"
    BY DEF LoadTuple, CInv, StoredBytes, StoredMap
<1>2. PICK refuses \in BOOLEAN : loaded' = VisitTuple(cell, refuses)
    BY DEF LoadTuple
<1> DEFINE all == <<written.schema>> \o written.hashes
<1>3. /\ Slots \in Nat /\ Len(cell.elements) \in Nat /\ Len(written.hashes) \in Nat
      /\ Len(all) = 1 + Len(written.hashes)
      /\ all[1] = written.schema /\ \A i \in 1 .. Len(written.hashes) : all[i + 1] = written.hashes[i]
      /\ Rest(cell.elements, all)
    BY <1>1, Elements, LenProperties, CodecAssumption DEF CInv, StoredTuple
<1>4. (LoadedOK /\ LoadedIsWritten /\ BytesGuardSchema)'
    <2> SUFFICES ASSUME loaded'.kind = "ok"
                 PROVE  /\ loaded'.schema \in Schemas /\ loaded'.hashes \in [1 .. Slots -> WordSet]
                        /\ IsPrefix(loaded'.hashes, written.hashes) /\ loaded'.schema = written.schema
        <3>1. loaded'.kind # "ok" => loaded' = Failed("serde")
            BY <1>2 DEF VisitTuple, Ok
        <3>2. QED
            BY <1>1, <3>1 DEF LoadedOK, LoadedIsWritten, BytesGuardSchema
    <2>1. /\ Len(cell.elements) >= 1 + Slots
          /\ loaded'.schema = cell.elements[1]
          /\ loaded'.hashes = SubSeq(cell.elements, 2, 1 + Slots)
        BY <1>2, <1>3 DEF VisitTuple, Ok, Failed
    <2> DEFINE part == SubSeq(cell.elements, 2, 1 + Slots)
    <2>2. \A i \in 2 .. 1 + Slots : cell.elements[i] = written.hashes[i - 1]
        <3> SUFFICES ASSUME NEW i \in 2 .. 1 + Slots PROVE cell.elements[i] = written.hashes[i - 1]
            OBVIOUS
        <3>1. i \in 1 .. Len(cell.elements) /\ i - 1 \in 1 .. Len(written.hashes) /\ (i - 1) + 1 = i
            BY <1>3, <2>1 DEF Rest
        <3> HIDE DEF all
        <3>2. cell.elements[i] = all[i]
            BY <1>3, <3>1 DEF Rest
        <3>3. QED
            BY <1>3, <3>1, <3>2
    <2>3. 1 + Len(written.hashes) >= 1 + Slots
        BY <1>3, <2>1 DEF Rest
    <2>4. \A i \in 1 .. Len(written.hashes) : written.hashes[i] \in WordSet
        BY ElementOfSeq DEF CInv
    <2>5. \A i \in 2 .. 1 + Slots : cell.elements[i] \in WordSet
        <3> SUFFICES ASSUME NEW i \in 2 .. 1 + Slots PROVE cell.elements[i] \in WordSet
            OBVIOUS
        <3>1. i - 1 \in 1 .. Len(written.hashes)
            BY <1>3, <2>3
        <3>2. QED
            BY <2>2, <2>4, <3>1
    <2>6. /\ part \in Seq(WordSet) /\ Len(part) = Slots
          /\ \A i \in 1 .. Slots : part[i] = cell.elements[i + 1]
        <3>1. 2 \in Int /\ 1 + Slots \in Int /\ (1 + Slots) - 2 + 1 = Slots
              /\ (2 <= 1 + Slots => (1 + Slots) - 2 + 1 = Slots) /\ (~(2 <= 1 + Slots) => Slots = 0)
            BY <1>3
        <3>2. QED
            BY <1>3, <2>5, <3>1, SubSeqProperties
    <2>7. Rest(part, written.hashes)
        BY <1>3, <2>2, <2>3, <2>6 DEF Rest
    <2>8. IsPrefix(part, written.hashes)
        BY <2>6, <2>7, RestIsPrefix DEF CInv
    <2>9. cell.elements[1] = written.schema
        BY <1>3, <2>1 DEF Rest
    <2>10. part \in [1 .. Slots -> WordSet]
        BY <2>6, LenProperties, ElementOfSeq, SeqDef
    <2>11. QED
        BY <2>1, <2>8, <2>9, <2>10 DEF CInv
<1>5. RoundTrip'
    <2> SUFFICES ASSUME Len(written.hashes) = Slots, Intact PROVE loaded'.kind = "ok"
        BY <1>1 DEF RoundTrip, Intact
    <2>1. Len(cell.elements) = 1 + Slots
        BY <1>1, <1>3 DEF Intact, AsBytes, AsMap, AsTuple
    <2>2. QED
        BY <1>2, <1>3, <2>1 DEF VisitTuple, Ok
<1>6. QED
    BY <1>1, <1>4, <1>5 DEF CInv, StoredBytes, StoredMap, StoredTuple, Rest

LEMMA CodecInvariance == CodecSpec => []CInv
<1>1. CodecInit => CInv
    BY InitCInv
<1>2. CInv /\ [CodecNext]_codecVars => CInv'
    <2> SUFFICES ASSUME CInv, [CodecNext]_codecVars PROVE CInv'
        OBVIOUS
    <2>1. CASE UNCHANGED codecVars
        BY <2>1 DEF codecVars, CInv, StoredBytes, StoredMap, StoredTuple, Rest, LoadedIsWritten,
                    BytesGuardSchema, RoundTrip, Intact, LoadedOK
    <2>2. QED
        BY <2>1, StoreCInv, BytesCInv, MapCInv, TupleCInv DEF CodecNext
<1>3. QED
    BY <1>1, <1>2, PTL DEF CodecSpec

(* Whatever lost its tail or was rewritten in between (sig.rs:162-366), for any number
   of slots in either build: a signature that loads has this build's width and begins
   the one that was written, and bytes of another schema never load. *)
THEOREM LoadedWasWritten == CodecSpec => []WhatLoadsWasWritten
<1>1. CInv => WhatLoadsWasWritten
    BY DEF CInv, CodecTypeOK, StoredBytes, StoredMap, StoredTuple, WhatLoadsWasWritten
<1>2. QED
    BY <1>1, CodecInvariance, PTL

(* as_bytes and from_bytes, and the serde visitors (sig.rs:127-366), are inverse to each
   other for every number of slots, up to the order of a map's fields. *)
THEOREM LoadsItsOwn == CodecSpec => []RoundTrip
<1>1. CInv => RoundTrip
    BY DEF CInv
<1>2. QED
    BY <1>1, CodecInvariance, PTL
=============================================================================
