--------------------------- MODULE LshIndexProofs ---------------------------
(***************************************************************************)
(* Safety of the LSH index, for every set of ids and signatures, every     *)
(* partition into bands and every key function; that the search misses     *)
(* nothing above the sure threshold; and that the index implements         *)
(* SignatureStore.                                                         *)
(***************************************************************************)
EXTENDS LshIndexRefinement, FiniteSetTheorems, TLAPS

(* A slot of band b is a slot of the signature: b * Rows + r < H. *)
LEMMA SlotOfBand ==
    ASSUME NEW b \in Band, NEW r \in Row
    PROVE  b * Rows + r \in Slots
<1>1. Bands \in Nat /\ Rows \in Nat /\ b \in Nat /\ r \in Nat /\ b + 1 <= Bands /\ r < Rows
  BY LshAssumption DEF Band, Row
<1>2. PICK d \in Nat : Bands = b + 1 + d
  <2>1. Bands - (b + 1) \in Nat /\ Bands = b + 1 + (Bands - (b + 1))  BY <1>1
  <2> QED  BY <2>1
<1>3. Bands * Rows = b * Rows + Rows + d * Rows  BY <1>1, <1>2
<1>4. d * Rows \in Nat /\ b * Rows \in Nat  BY <1>1, <1>2
<1>5. b * Rows + r >= 0 /\ b * Rows + r <= Bands * Rows - 1  BY <1>1, <1>3, <1>4
<1> QED  BY <1>1, <1>4, <1>5 DEF Slots, H

(* Every signature has a key in every band. *)
LEMMA BandKeyType ==
    ASSUME NEW sig \in Sigs, NEW b \in Band
    PROVE  BandKey(sig, b) \in Keys
<1>1. sig \in [Slots -> Values]  BY LshAssumption
<1>2. [r \in Row |-> sig[b * Rows + r]] \in [Row -> Values]  BY <1>1, SlotOfBand
<1> QED  BY <1>2, LshAssumption DEF BandKey

(* The type of a band table. *)
IsTable(t) == IsMap(t, Keys, [Ids -> Nat])

(* A table with no key nobody is filed under. *)
Tight(t) == \A k \in DOMAIN t : t[k] # Nobody

(* push adds one entry, to one bucket, for one id. *)
LEMMA PushEffect ==
    ASSUME NEW t, IsTable(t), NEW key \in Keys, NEW id \in Ids
    PROVE  /\ IsTable(Push(t, key, id))
           /\ \A k \in Keys, i \in Ids :
                Bucket(Push(t, key, id), k)[i]
                    = IF k = key /\ i = id THEN Bucket(t, k)[i] + 1 ELSE Bucket(t, k)[i]
           /\ Tight(t) => Tight(Push(t, key, id))
<1> DEFINE new == [Bucket(t, key) EXCEPT ![id] = @ + 1]
<1>1. Bucket(t, key) \in [Ids -> Nat]  BY DEF IsTable, IsMap, Bucket, Nobody
<1>2. new \in [Ids -> Nat] /\ new[id] = Bucket(t, key)[id] + 1
      /\ \A i \in Ids \ {id} : new[i] = Bucket(t, key)[i]
  BY <1>1
<1>3. new # Nobody  BY <1>1, <1>2 DEF Nobody
<1>4. Push(t, key, id) = [k \in DOMAIN t \cup {key} |-> IF k = key THEN new ELSE t[k]]
  BY DEF Push
<1> HIDE DEF new
<1>5. IsTable(Push(t, key, id))  BY <1>2, <1>4 DEF IsTable, IsMap
<1>6. ASSUME NEW k \in Keys
      PROVE  Bucket(Push(t, key, id), k) = IF k = key THEN new ELSE Bucket(t, k)
  BY <1>4 DEF Bucket
<1>7. \A k \in Keys, i \in Ids :
         Bucket(Push(t, key, id), k)[i]
             = IF k = key /\ i = id THEN Bucket(t, k)[i] + 1 ELSE Bucket(t, k)[i]
  BY <1>2, <1>6
<1>8. Tight(t) => Tight(Push(t, key, id))  BY <1>3, <1>4 DEF Tight
<1> QED  BY <1>5, <1>7, <1>8

(* scrub drops every entry of one id from one bucket and touches no other. *)
LEMMA ScrubEffect ==
    ASSUME NEW t, IsTable(t), NEW key \in Keys, NEW id \in Ids
    PROVE  /\ IsTable(Scrub(t, key, id))
           /\ \A k \in Keys, i \in Ids :
                Bucket(Scrub(t, key, id), k)[i]
                    = IF k = key /\ i = id THEN 0 ELSE Bucket(t, k)[i]
           /\ Tight(t) => Tight(Scrub(t, key, id))
<1> DEFINE rest == [Bucket(t, key) EXCEPT ![id] = 0]
           kept == IF rest = Nobody THEN DOMAIN t \ {key} ELSE DOMAIN t
<1>1. Bucket(t, key) \in [Ids -> Nat]  BY DEF IsTable, IsMap, Bucket, Nobody
<1>2. rest \in [Ids -> Nat] /\ rest[id] = 0
      /\ \A i \in Ids \ {id} : rest[i] = Bucket(t, key)[i]
  BY <1>1
<1>3. Scrub(t, key, id) = [k \in kept |-> IF k = key THEN rest ELSE t[k]]
  BY DEF Scrub
<1>4. key \notin DOMAIN t => rest = Nobody  BY <1>2 DEF Bucket, Nobody
<1>5. kept \subseteq DOMAIN t /\ (key \in kept => rest # Nobody)
      /\ \A k \in DOMAIN t \ {key} : k \in kept
  BY <1>4
<1>5a. key \notin kept => rest = Nobody  BY <1>4
<1> HIDE DEF rest, kept
<1>6. IsTable(Scrub(t, key, id))  BY <1>2, <1>3, <1>5 DEF IsTable, IsMap
<1>7. ASSUME NEW k \in Keys
      PROVE  Bucket(Scrub(t, key, id), k) = IF k = key THEN rest ELSE Bucket(t, k)
  BY <1>3, <1>5, <1>5a DEF Bucket
<1>8. \A k \in Keys, i \in Ids :
         Bucket(Scrub(t, key, id), k)[i] = IF k = key /\ i = id THEN 0 ELSE Bucket(t, k)[i]
  BY <1>2, <1>7
<1>9. Tight(t) => Tight(Scrub(t, key, id))  BY <1>3, <1>5 DEF Tight
<1> QED  BY <1>6, <1>8, <1>9

-----------------------------------------------------------------------------
(* Scrubbing an id under its stored signature, over all bands. *)
LEMMA ScrubBandsEffect ==
    ASSUME TypeOK, NoEmptyBucket, NEW id \in Ids, NEW sig \in Sigs
    PROVE  /\ ScrubBands(id, sig) = [b \in Band |-> ScrubBands(id, sig)[b]]
           /\ \A b \in Band :
                /\ IsTable(ScrubBands(id, sig)[b])
                /\ Tight(ScrubBands(id, sig)[b])
                /\ \A k \in Keys, i \in Ids :
                     Bucket(ScrubBands(id, sig)[b], k)[i]
                        = IF k = BandKey(sig, b) /\ i = id THEN 0 ELSE Copies(b, k, i)
<1>1. ScrubBands(id, sig) = [b \in Band |-> Scrub(tables[b], BandKey(sig, b), id)]
  BY DEF ScrubBands
<1>2. ASSUME NEW b \in Band
      PROVE  IsTable(tables[b]) /\ Tight(tables[b]) /\ BandKey(sig, b) \in Keys
  BY BandKeyType DEF TypeOK, NoEmptyBucket, IsTable, Tight
<1> QED  BY <1>1, <1>2, ScrubEffect DEF Copies

(* The maps from ids to signatures keep their type. *)
LEMMA StoreType ==
    ASSUME NEW map, IsMap(map, Ids, Sigs), NEW id \in Ids, NEW sig \in Sigs
    PROVE  /\ IsMap(Store(map, id, sig), Ids, Sigs)
           /\ DOMAIN Store(map, id, sig) = DOMAIN map \cup {id}
           /\ Store(map, id, sig)[id] = sig
           /\ \A i \in DOMAIN map \ {id} : Store(map, id, sig)[i] = map[i]
BY DEF Store, IsMap

LEMMA InitIInv == Init => IInv
<1> SUFFICES ASSUME Init PROVE IInv  OBVIOUS
<1> USE DEF Init
<1>1. TypeOK
  <2>1. IsMap(<< >>, Ids, Sigs) /\ IsMap(<< >>, Keys, [Ids -> Nat])  BY DEF IsMap
  <2>2. Len(<< >>) = 0 /\ << >> \in Seq(Ids \X Sigs)  OBVIOUS
  <2> QED  BY <2>1, <2>2 DEF TypeOK
<1>2. InFlight  BY DEF InFlight, Idle
<1>3. \A b \in Band : DOMAIN tables[b] = {}  OBVIOUS
<1>4. DOMAIN sigs = {}  OBVIOUS
<1>5. Complete  BY <1>4 DEF Complete
<1>6. NoEmptyBucket  BY <1>3 DEF NoEmptyBucket
<1>7. DamageConfined
  BY <1>3, <1>4 DEF DamageConfined, Copies, Bucket, Nobody
<1> QED  BY <1>1, <1>2, <1>5, <1>6, <1>7 DEF IInv

(* insert *)
LEMMA InsertIInv ==
    ASSUME IInv, NEW id \in Ids, NEW sig \in Sigs, Insert(id, sig)
    PROVE  IInv'
<1> DEFINE cleared == IF id \in DOMAIN sigs THEN ScrubBands(id, sigs[id]) ELSE tables
<1> USE DEF IInv
<1>1. /\ Idle /\ tables' = [b \in Band |-> Push(cleared[b], BandKey(sig, b), id)]
      /\ sigs' = Store(sigs, id, sig) /\ visible' = sigs'
      /\ UNCHANGED <<call, batch, filled, cursor, tainted>>
  BY DEF Insert
<1>2. IsMap(sigs, Ids, Sigs) /\ (id \in DOMAIN sigs => sigs[id] \in Sigs)
  BY DEF TypeOK, IsMap
<1>3. ASSUME NEW b \in Band
      PROVE  /\ IsTable(cleared[b]) /\ Tight(cleared[b])
             /\ \A k \in Keys, i \in Ids :
                   Bucket(cleared[b], k)[i]
                      = IF id \in DOMAIN sigs /\ k = BandKey(sigs[id], b) /\ i = id
                        THEN 0 ELSE Copies(b, k, i)
  <2>1. CASE id \in DOMAIN sigs  BY <2>1, <1>2, ScrubBandsEffect
  <2>2. CASE id \notin DOMAIN sigs
    BY <2>2 DEF TypeOK, NoEmptyBucket, IsTable, Tight, Copies
  <2> QED  BY <2>1, <2>2
<1> HIDE DEF cleared
<1>4. ASSUME NEW b \in Band
      PROVE  /\ IsTable(tables'[b]) /\ Tight(tables'[b])
             /\ \A k \in Keys, i \in Ids :
                   Bucket(tables'[b], k)[i]
                      = IF k = BandKey(sig, b) /\ i = id
                        THEN Bucket(cleared[b], k)[i] + 1 ELSE Bucket(cleared[b], k)[i]
  <2>1. BandKey(sig, b) \in Keys  BY BandKeyType
  <2>2. tables'[b] = Push(cleared[b], BandKey(sig, b), id)  BY <1>1
  <2> QED  BY <2>1, <2>2, <1>3, PushEffect
<1>5. /\ IsMap(sigs', Ids, Sigs) /\ DOMAIN sigs' = DOMAIN sigs \cup {id}
      /\ sigs'[id] = sig /\ \A i \in DOMAIN sigs \ {id} : sigs'[i] = sigs[i]
  BY <1>1, <1>2, StoreType
<1>6. batch = << >> /\ Len(batch) = 0 /\ filled = 0 /\ \A b \in Band : cursor[b] = 0
  BY <1>1 DEF TypeOK, InFlight
<1>7. TypeOK'
  <2>1. tables' = [b \in Band |-> tables'[b]]  BY <1>1
  <2> QED  BY <1>1, <1>4, <1>5, <2>1 DEF TypeOK, IsTable
<1>8. InFlight'  BY <1>1, <1>6 DEF InFlight, Idle
<1>9. \A b \in Band : Pending(b) = {} /\ Pending(b)' = {}
  BY <1>1, <1>6 DEF Pending
<1>10. ASSUME NEW i \in DOMAIN sigs', NEW b \in Band
       PROVE  Copies(b, BandKey(sigs[i], b), i)' > 0
  <2>0. i \in Ids /\ sigs'[i] \in Sigs  BY <1>5 DEF IsMap
  <2>1. BandKey(sigs'[i], b) \in Keys  BY <2>0, BandKeyType
  <2>2. Copies(b, BandKey(sigs[i], b), i)' = Bucket(tables'[b], BandKey(sigs'[i], b))[i]
    BY DEF Copies, Bucket, Nobody, BandKey
  <2>3. CASE i = id
    <3>1. Bucket(cleared[b], BandKey(sig, b)) \in [Ids -> Nat]
      BY <1>3 DEF IsTable, IsMap, Bucket, Nobody
    <3> QED  BY <2>0, <2>1, <2>2, <2>3, <1>4, <1>5, <3>1
  <2>4. CASE i # id
    <3>1. i \in DOMAIN sigs /\ sigs'[i] = sigs[i]  BY <2>4, <1>5
    <3>2. Copies(b, BandKey(sigs[i], b), i) > 0  BY <3>1, <1>9 DEF Complete
    <3> QED  BY <2>0, <2>1, <2>2, <2>4, <3>1, <3>2, <1>3, <1>4
  <2> QED  BY <2>3, <2>4
<1>11. Complete'  BY <1>10 DEF Complete
<1>12. DamageConfined'
  <2> SUFFICES ASSUME NEW i \in Ids \ tainted, NEW b \in Band, NEW k \in Keys
               PROVE  Bucket(tables'[b], k)[i]
                         = IF i \in DOMAIN sigs' /\ k = BandKey(sigs'[i], b) THEN 1 ELSE 0
    BY <1>1, <1>9 DEF DamageConfined, Copies, Bucket, Nobody, BandKey
  <2>1. Copies(b, k, i) = IF i \in DOMAIN sigs /\ k = BandKey(sigs[i], b) THEN 1 ELSE 0
    BY <1>9 DEF DamageConfined
  <2> QED  BY <2>1, <1>3, <1>4, <1>5
<1>13. NoEmptyBucket'  BY <1>4 DEF NoEmptyBucket, Tight, Nobody
<1> QED  BY <1>7, <1>8, <1>11, <1>12, <1>13

(* remove *)
LEMMA RemoveIInv ==
    ASSUME IInv, NEW id \in Ids, Remove(id)
    PROVE  IInv'
<1> USE DEF IInv
<1>1. /\ Idle /\ id \in DOMAIN sigs /\ tables' = ScrubBands(id, sigs[id])
      /\ sigs' = [i \in DOMAIN sigs \ {id} |-> sigs[i]] /\ visible' = sigs'
      /\ UNCHANGED <<call, batch, filled, cursor, tainted>>
  BY DEF Remove
<1>2. IsMap(sigs, Ids, Sigs) /\ sigs[id] \in Sigs  BY <1>1 DEF TypeOK, IsMap
<1>3. /\ tables' = [b \in Band |-> tables'[b]]
      /\ \A b \in Band :
            /\ IsTable(tables'[b]) /\ Tight(tables'[b])
            /\ \A k \in Keys, i \in Ids :
                  Bucket(tables'[b], k)[i]
                     = IF k = BandKey(sigs[id], b) /\ i = id THEN 0 ELSE Copies(b, k, i)
  BY <1>1, <1>2, ScrubBandsEffect
<1>4. /\ IsMap(sigs', Ids, Sigs) /\ DOMAIN sigs' = DOMAIN sigs \ {id}
      /\ \A i \in DOMAIN sigs' : sigs'[i] = sigs[i]
  BY <1>1, <1>2 DEF IsMap
<1>5. batch = << >> /\ Len(batch) = 0 /\ filled = 0 /\ \A b \in Band : cursor[b] = 0
  BY <1>1 DEF TypeOK, InFlight
<1>6. TypeOK'  BY <1>1, <1>3, <1>4 DEF TypeOK, IsTable
<1>7. InFlight'  BY <1>1, <1>5 DEF InFlight, Idle
<1>8. \A b \in Band : Pending(b) = {} /\ Pending(b)' = {}
  BY <1>1, <1>5 DEF Pending
<1>9. Complete'
  <2> SUFFICES ASSUME NEW i \in DOMAIN sigs', NEW b \in Band
               PROVE  Bucket(tables'[b], BandKey(sigs'[i], b))[i] > 0
    BY DEF Complete, Copies, Bucket, Nobody, BandKey
  <2>1. i \in Ids /\ i # id /\ i \in DOMAIN sigs /\ sigs'[i] = sigs[i] /\ sigs[i] \in Sigs
    BY <1>2, <1>4 DEF IsMap
  <2>2. Copies(b, BandKey(sigs[i], b), i) > 0  BY <2>1, <1>8 DEF Complete
  <2> QED  BY <2>1, <2>2, <1>3, BandKeyType
<1>10. DamageConfined'
  <2> SUFFICES ASSUME NEW i \in Ids \ tainted, NEW b \in Band, NEW k \in Keys
               PROVE  Bucket(tables'[b], k)[i]
                         = IF i \in DOMAIN sigs' /\ k = BandKey(sigs'[i], b) THEN 1 ELSE 0
    <3>1. ASSUME NEW i \in Ids \ tainted', NEW b \in Band, NEW k \in Keys
          PROVE  Copies(b, k, i)' =
                    IF i \in DOMAIN sigs' /\ k = BandKey(sigs[i], b)' THEN 1 ELSE 0
      <4>1. i \in Ids \ tainted  BY <1>1
      <4>2. Copies(b, k, i)' = Bucket(tables'[b], k)[i]  BY DEF Copies, Bucket, Nobody
      <4>3. BandKey(sigs[i], b)' = BandKey(sigs'[i], b)  BY DEF BandKey
      <4> QED  BY <4>1, <4>2, <4>3
    <3> QED  BY <3>1, <1>8 DEF DamageConfined
  <2>1. Copies(b, k, i) = IF i \in DOMAIN sigs /\ k = BandKey(sigs[i], b) THEN 1 ELSE 0
    BY <1>8 DEF DamageConfined
  <2> QED  BY <2>1, <1>1, <1>3, <1>4
<1>11. NoEmptyBucket'  BY <1>3 DEF NoEmptyBucket, Tight, Nobody
<1> QED  BY <1>6, <1>7, <1>9, <1>10, <1>11

(* extend_par and try_extend_par: the checks passed, the batch is collected. *)
LEMMA BeginIInv ==
    ASSUME IInv, Idle, NEW name \in {"extend_par", "try_extend_par"}, NEW n \in 1 .. MaxBatch,
           NEW items \in Items(n), Begin(name, items)
    PROVE  IInv'
<1> USE DEF IInv
<1>1. /\ call' = name /\ batch' = items
      /\ tainted' = tainted \cup Repeated(items)
            \cup {id \in DOMAIN sigs : \E p \in DOMAIN items : items[p][1] = id}
      /\ UNCHANGED <<sigs, tables, filled, cursor, visible>>
  BY DEF Begin
<1>2. /\ batch' \in Seq(Ids \X Sigs) /\ Len(batch') = n /\ DOMAIN batch' = 1 .. n
      /\ n \in Nat /\ n > 0
  BY <1>1, LshAssumption DEF Items
<1>3. batch = << >> /\ filled = 0 /\ visible = sigs /\ \A b \in Band : cursor[b] = 0
  BY DEF TypeOK, InFlight
<1>4. TypeOK'
  <2>1. cursor' \in [Band -> 0 .. n] /\ filled' \in 0 .. n
    BY <1>1, <1>2, <1>3 DEF TypeOK
  <2>2. tainted' \subseteq Ids
    BY <1>1 DEF TypeOK, IsMap, Repeated
  <2>3. IsMap(sigs', Ids, Sigs) /\ IsMap(visible', Ids, Sigs)  BY <1>1 DEF TypeOK
  <2>4. /\ tables' = [b \in Band |-> tables'[b]]
        /\ \A b \in Band : IsMap(tables'[b], Keys, [Ids -> Nat])
    BY <1>1 DEF TypeOK
  <2>5. call' \in {"none", "extend_par", "try_extend_par"}  BY <1>1
  <2> QED  BY <1>2, <2>1, <2>2, <2>3, <2>4, <2>5 DEF TypeOK
<1>5. InFlight'
  <2>1. ~Idle'  BY <1>1 DEF Idle
  <2>2. filled' = 0 /\ \A b \in Band : cursor'[b] = 0  BY <1>1, <1>3
  <2>3. ASSUME NEW p \in DOMAIN batch', batch'[p][1] \notin tainted'
        PROVE  /\ \A q \in DOMAIN batch' : batch'[q][1] = batch'[p][1] => q = p
               /\ ~(p <= filled') /\ batch'[p][1] \notin DOMAIN sigs'
    <3>1. batch'[p][1] \in Ids  BY <1>2, <2>3
    <3>2. batch'[p][1] \notin Repeated(items)  BY <1>1, <2>3
    <3>3. \A q \in DOMAIN batch' : batch'[q][1] = batch'[p][1] => q = p
      BY <1>1, <3>1, <3>2 DEF Repeated
    <3>4. batch'[p][1] \notin DOMAIN sigs'  BY <1>1, <2>3
    <3>5. ~(p <= filled')  BY <1>2, <2>2
    <3> QED  BY <3>3, <3>4, <3>5
  <2> QED  BY <2>1, <2>2, <2>3 DEF InFlight
<1>6. \A b \in Band : Pending(b) = {} /\ Pending(b)' = {}
  BY <1>1, <1>3 DEF Pending
<1>7. \A b, k, i : Copies(b, k, i)' = Copies(b, k, i)  BY <1>1 DEF Copies, Bucket, Nobody
<1>8. \A i, b : BandKey(sigs[i], b)' = BandKey(sigs[i], b)  BY <1>1 DEF BandKey
<1>9. Complete'  BY <1>1, <1>6, <1>7, <1>8 DEF Complete
<1>10. DamageConfined'
  <2> SUFFICES ASSUME NEW i \in Ids \ tainted', NEW b \in Band, NEW k \in Keys
               PROVE  Copies(b, k, i) = IF i \in DOMAIN sigs /\ k = BandKey(sigs[i], b)
                                        THEN 1 ELSE 0
    BY <1>1, <1>6, <1>7, <1>8 DEF DamageConfined
  <2> QED  BY <1>1, <1>6 DEF DamageConfined
<1>11. NoEmptyBucket'  BY <1>1 DEF NoEmptyBucket, Nobody
<1> QED  BY <1>4, <1>5, <1>9, <1>10, <1>11

(* one round of the serial fill *)
LEMMA FillIInv ==
    ASSUME IInv, Fill
    PROVE  IInv'
<1> USE DEF IInv
<1> DEFINE item == batch[filled + 1]
           id == item[1]
<1>1. /\ ~Idle /\ filled < Len(batch) /\ filled \in Nat /\ Len(batch) \in Nat
      /\ sigs' = Store(sigs, id, item[2]) /\ filled' = filled + 1
      /\ UNCHANGED <<tables, call, batch, cursor, visible, tainted>>
  BY DEF Fill, TypeOK
<1>2. /\ filled + 1 \in DOMAIN batch /\ DOMAIN batch = 1 .. Len(batch)
      /\ item \in Ids \X Sigs /\ item = <<id, item[2]>>
  BY <1>1 DEF TypeOK
<1>3. /\ IsMap(sigs', Ids, Sigs) /\ DOMAIN sigs' = DOMAIN sigs \cup {id}
      /\ sigs'[id] = item[2] /\ \A i \in DOMAIN sigs \ {id} : sigs'[i] = sigs[i]
  <2>1. id \in Ids /\ item[2] \in Sigs  BY <1>2
  <2>2. IsMap(sigs, Ids, Sigs)  BY DEF TypeOK
  <2>3. /\ IsMap(Store(sigs, id, item[2]), Ids, Sigs)
        /\ DOMAIN Store(sigs, id, item[2]) = DOMAIN sigs \cup {id}
        /\ Store(sigs, id, item[2])[id] = item[2]
        /\ \A i \in DOMAIN sigs \ {id} : Store(sigs, id, item[2])[i] = sigs[i]
    <3> HIDE DEF item, id
    <3> QED  BY <2>1, <2>2, StoreType
  <2>4. sigs' = Store(sigs, id, item[2])  BY <1>1
  <2> QED  BY <2>3, <2>4
<1>4. \A b \in Band : cursor[b] = 0  BY <1>1 DEF TypeOK, InFlight
<1>5. \A b \in Band : Pending(b) = 1 .. filled /\ Pending(b)' = 1 .. filled + 1
  BY <1>1, <1>4 DEF Pending
<1>6. TypeOK'
  <2>1. filled' \in 0 .. Len(batch')  BY <1>1
  <2>2. /\ tables' = [b \in Band |-> tables'[b]]
        /\ \A b \in Band : IsMap(tables'[b], Keys, [Ids -> Nat])
    BY <1>1 DEF TypeOK
  <2> QED  BY <1>1, <1>3, <2>1, <2>2 DEF TypeOK
<1> HIDE DEF item, id
<1>7. InFlight'
  <2>1. ~Idle'  BY <1>1 DEF Idle
  <2>2. \A b \in Band : ~(cursor'[b] > 0)  BY <1>1, <1>4
  <2>3. \A p \in 1 .. filled' : batch'[p][1] \in DOMAIN sigs'
    BY <1>1, <1>3 DEF InFlight, id, item
  <2>4. ASSUME NEW p \in DOMAIN batch', batch'[p][1] \notin tainted'
        PROVE  /\ \A q \in DOMAIN batch' : batch'[q][1] = batch'[p][1] => q = p
               /\ IF p <= filled' THEN sigs'[batch'[p][1]] = batch'[p][2]
                                  ELSE batch'[p][1] \notin DOMAIN sigs'
    <3>1. /\ \A q \in DOMAIN batch : batch[q][1] = batch[p][1] => q = p
          /\ IF p <= filled THEN sigs[batch[p][1]] = batch[p][2]
                            ELSE batch[p][1] \notin DOMAIN sigs
      BY <1>1, <2>4 DEF InFlight
    <3>2. CASE p = filled + 1  BY <1>1, <1>3, <3>1, <3>2 DEF id, item
    <3>3. CASE p # filled + 1
      <4>1. batch[p][1] # id  BY <1>1, <1>2, <3>1, <3>3 DEF id, item
      <4>2. p \in Nat /\ (p <= filled' <=> p <= filled)  BY <1>1, <1>2, <3>3
      <4>3. p <= filled => batch[p][1] \in DOMAIN sigs
        <5>1. p \in 1 .. Len(batch)  BY <1>1, <1>2
        <5>2. p <= filled => p \in 1 .. filled  BY <1>1, <5>1
        <5> QED  BY <5>2 DEF InFlight
      <4> QED  BY <1>1, <1>3, <3>1, <4>1, <4>2, <4>3
    <3> QED  BY <3>2, <3>3
  <2> QED  BY <2>1, <2>2, <2>3, <2>4 DEF InFlight
<1>8. \A b, k, i : Copies(b, k, i)' = Copies(b, k, i)  BY <1>1 DEF Copies, Bucket, Nobody
<1>9. \A i, b : BandKey(sigs[i], b)' = BandKey(sigs'[i], b)  BY DEF BandKey
<1>10. Complete'
  <2> SUFFICES ASSUME NEW i \in DOMAIN sigs', NEW b \in Band
               PROVE  \/ Copies(b, BandKey(sigs'[i], b), i) > 0
                      \/ \E p \in Pending(b)' : batch[p] = <<i, sigs'[i]>>
    BY <1>1, <1>8, <1>9 DEF Complete
  <2>1. CASE i = id
    <3>1. filled + 1 \in Pending(b)'  BY <1>1, <1>5
    <3>2. batch[filled + 1] = <<i, sigs'[i]>>  BY <1>2, <1>3, <2>1 DEF item
    <3> QED  BY <3>1, <3>2
  <2>2. CASE i # id
    <3>1. i \in DOMAIN sigs /\ sigs'[i] = sigs[i]  BY <1>3, <2>2
    <3>2. Pending(b) \subseteq Pending(b)'  BY <1>1, <1>5
    <3> QED  BY <3>1, <3>2 DEF Complete
  <2> QED  BY <2>1, <2>2
<1>11. DamageConfined'
  <2> SUFFICES ASSUME NEW i \in Ids \ tainted, NEW b \in Band, NEW k \in Keys
               PROVE  Copies(b, k, i) =
                         IF /\ i \in DOMAIN sigs' /\ k = BandKey(sigs'[i], b)
                            /\ \A p \in Pending(b)' : batch[p][1] # i
                         THEN 1 ELSE 0
    BY <1>1, <1>8, <1>9 DEF DamageConfined
  <2>1. Copies(b, k, i) =
           IF /\ i \in DOMAIN sigs /\ k = BandKey(sigs[i], b)
              /\ \A p \in Pending(b) : batch[p][1] # i
           THEN 1 ELSE 0
    BY DEF DamageConfined
  <2>2. CASE i = id
    <3>1. i \notin DOMAIN sigs
      <4>1. ~(filled + 1 <= filled)  BY <1>1
      <4>2. batch[filled + 1][1] = i  BY <2>2 DEF id, item
      <4> QED  BY <1>2, <4>1, <4>2 DEF InFlight
    <3>2. filled + 1 \in Pending(b)' /\ batch[filled + 1][1] = i
      BY <1>1, <1>5, <2>2 DEF id, item
    <3> QED  BY <2>1, <3>1, <3>2
  <2>3. CASE i # id
    <3>1. \A p \in Pending(b)' : p \in Pending(b) \/ p = filled + 1  BY <1>1, <1>5
    <3>2. Pending(b) \subseteq Pending(b)'  BY <1>1, <1>5
    <3>3. batch[filled + 1][1] # i  BY <2>3 DEF id, item
    <3>4. (\A p \in Pending(b)' : batch[p][1] # i) <=> (\A p \in Pending(b) : batch[p][1] # i)
      BY <3>1, <3>2, <3>3
    <3>5. (i \in DOMAIN sigs' <=> i \in DOMAIN sigs) /\ (i \in DOMAIN sigs => sigs'[i] = sigs[i])
      BY <1>3, <2>3
    <3> QED  BY <2>1, <3>4, <3>5
  <2> QED  BY <2>2, <2>3
<1>12. NoEmptyBucket'  BY <1>1 DEF NoEmptyBucket, Nobody
<1> QED  BY <1>6, <1>7, <1>10, <1>11, <1>12

(* one round of a band worker *)
LEMMA FileItemIInv ==
    ASSUME IInv, NEW b \in Band, FileItem(b)
    PROVE  IInv'
<1> DEFINE next == cursor[b] + 1
           item == batch[next]
           id == item[1]
           key == BandKey(item[2], b)
<1>1. /\ ~Idle /\ filled = Len(batch) /\ cursor[b] < Len(batch)
      /\ tables' = [tables EXCEPT ![b] = Push(tables[b], key, id)]
      /\ cursor' = [cursor EXCEPT ![b] = cursor[b] + 1]
      /\ UNCHANGED <<sigs, call, batch, filled, visible, tainted>>
  BY DEF FileItem
<1>2. /\ IInv /\ TypeOK /\ InFlight /\ Complete /\ DamageConfined /\ NoEmptyBucket
  BY DEF IInv
<1>3. /\ Len(batch) \in Nat /\ cursor \in [Band -> 0 .. Len(batch)]
      /\ \A c \in Band : cursor[c] \in Nat /\ cursor[c] <= Len(batch)
  BY <1>2 DEF TypeOK
<1>4. next \in 1 .. Len(batch) /\ DOMAIN batch = 1 .. Len(batch) /\ next \in Nat
  BY <1>1, <1>2, <1>3 DEF TypeOK
<1>5. item \in Ids \X Sigs /\ item = <<id, item[2]>> /\ id \in Ids /\ item[2] \in Sigs
  BY <1>2, <1>4 DEF TypeOK
<1>6. key \in Keys  BY <1>5, BandKeyType
<1>7. \A c \in Band : IsTable(tables[c]) /\ Tight(tables[c])
  BY <1>2 DEF TypeOK, NoEmptyBucket, IsTable, Tight
<1> HIDE DEF item, id, key, next
<1>8. tables = [c \in Band |-> tables[c]]  BY <1>2 DEF TypeOK
<1>9. /\ tables' = [c \in Band |-> tables'[c]]
      /\ tables'[b] = Push(tables[b], key, id)
      /\ \A c \in Band \ {b} : tables'[c] = tables[c]
  BY <1>1, <1>8
<1>10. ASSUME NEW c \in Band
       PROVE  /\ IsTable(tables'[c]) /\ Tight(tables'[c])
              /\ \A k \in Keys, i \in Ids :
                    Bucket(tables'[c], k)[i]
                       = IF c = b /\ k = key /\ i = id THEN Copies(c, k, i) + 1
                                                       ELSE Copies(c, k, i)
  <2>1. CASE c = b  BY <1>5, <1>6, <1>7, <1>9, <2>1, PushEffect DEF Copies
  <2>2. CASE c # b  BY <1>7, <1>9, <2>2 DEF Copies
  <2> QED  BY <2>1, <2>2
<1>11. \A c, k, i : Copies(c, k, i)' = Bucket(tables'[c], k)[i]
  BY DEF Copies, Bucket, Nobody
<1>12. \A i, c : BandKey(sigs[i], c)' = BandKey(sigs[i], c)  BY <1>1 DEF BandKey
<1>13. /\ cursor' \in [Band -> 0 .. Len(batch)] /\ cursor'[b] = next
       /\ \A c \in Band \ {b} : cursor'[c] = cursor[c]
  BY <1>1, <1>3, <1>4 DEF next
<1>14. /\ \A c \in Band \ {b} : Pending(c)' = Pending(c)
       /\ \A p \in Pending(b) : p \in Pending(b)' \/ p = next
       /\ next \in Pending(b) /\ next \notin Pending(b)'
       /\ Pending(b)' \subseteq Pending(b) /\ Pending(b) \subseteq DOMAIN batch
  <2>1. Pending(b) = next .. Len(batch)  BY <1>1 DEF Pending, next
  <2>2. Pending(b)' = next + 1 .. Len(batch)  BY <1>1, <1>13 DEF Pending
  <2>3. \A c \in Band \ {b} : Pending(c)' = Pending(c)  BY <1>1, <1>13 DEF Pending
  <2> QED  BY <1>3, <1>4, <2>1, <2>2, <2>3
<1>15. TypeOK'
  <2>1. cursor' \in [Band -> 0 .. Len(batch')]  BY <1>1, <1>13
  <2>2. \A c \in Band : IsMap(tables'[c], Keys, [Ids -> Nat])  BY <1>10 DEF IsTable
  <2> QED  BY <1>1, <1>2, <1>9, <2>1, <2>2 DEF TypeOK
<1>16. InFlight'
  <2>1. ~Idle'  BY <1>1 DEF Idle
  <2> QED  BY <1>1, <1>2, <2>1 DEF InFlight
<1>17. Complete'
  <2> SUFFICES ASSUME NEW i \in DOMAIN sigs, NEW c \in Band
               PROVE  \/ Bucket(tables'[c], BandKey(sigs[i], c))[i] > 0
                      \/ \E p \in Pending(c)' : batch[p] = <<i, sigs[i]>>
    BY <1>1, <1>11, <1>12 DEF Complete
  <2>1. i \in Ids /\ sigs[i] \in Sigs /\ BandKey(sigs[i], c) \in Keys
    BY <1>2, BandKeyType DEF TypeOK, IsMap
  <2>2. Copies(c, BandKey(sigs[i], c), i) \in Nat
    BY <1>7, <2>1 DEF Copies, Bucket, Nobody, IsTable, IsMap
  <2>3. CASE Copies(c, BandKey(sigs[i], c), i) > 0  BY <1>10, <2>1, <2>2, <2>3
  <2>4. CASE \E p \in Pending(c) : batch[p] = <<i, sigs[i]>>
    <3>1. PICK p \in Pending(c) : batch[p] = <<i, sigs[i]>>  BY <2>4
    <3>2. CASE p \in Pending(c)'  BY <3>1, <3>2
    <3>3. CASE p \notin Pending(c)'
      <4>1. c = b /\ p = next  BY <1>14, <3>3
      <4>2. id = i /\ key = BandKey(sigs[i], c)  BY <3>1, <4>1 DEF id, key, item
      <4> QED  BY <1>10, <2>1, <2>2, <4>1, <4>2
    <3> QED  BY <3>2, <3>3
  <2> QED  BY <1>2, <2>3, <2>4 DEF Complete
<1>18. DamageConfined'
  <2> SUFFICES ASSUME NEW i \in Ids \ tainted, NEW c \in Band, NEW k \in Keys
               PROVE  Bucket(tables'[c], k)[i] =
                         IF /\ i \in DOMAIN sigs /\ k = BandKey(sigs[i], c)
                            /\ \A p \in Pending(c)' : batch[p][1] # i
                         THEN 1 ELSE 0
    BY <1>1, <1>11, <1>12 DEF DamageConfined
  <2>1. Copies(c, k, i) =
           IF /\ i \in DOMAIN sigs /\ k = BandKey(sigs[i], c)
              /\ \A p \in Pending(c) : batch[p][1] # i
           THEN 1 ELSE 0
    BY <1>2 DEF DamageConfined
  <2>2. CASE c = b /\ i = id
    <3>1. batch[next][1] = i /\ next \in Pending(c)  BY <1>14, <2>2 DEF id, item
    <3>2. Copies(c, k, i) = 0  BY <2>1, <3>1
    <3>3. /\ i \in DOMAIN sigs /\ sigs[i] = item[2]
          /\ \A q \in DOMAIN batch : batch[q][1] = i => q = next
      BY <1>1, <1>2, <1>4, <3>1 DEF InFlight, item
    <3>4. \A p \in Pending(c)' : batch[p][1] # i  BY <1>14, <2>2, <3>3
    <3>5. key = BandKey(sigs[i], c)  BY <2>2, <3>3 DEF key
    <3> QED  BY <1>10, <2>2, <3>2, <3>3, <3>4, <3>5
  <2>3. CASE ~(c = b /\ i = id)
    <3>1. Bucket(tables'[c], k)[i] = Copies(c, k, i)  BY <1>10, <2>3
    <3>2. (\A p \in Pending(c)' : batch[p][1] # i) <=> (\A p \in Pending(c) : batch[p][1] # i)
      BY <1>14, <2>3 DEF id, item
    <3> QED  BY <2>1, <3>1, <3>2
  <2> QED  BY <2>2, <2>3
<1>19. NoEmptyBucket'  BY <1>10 DEF NoEmptyBucket, Tight, Nobody
<1> QED  BY <1>15, <1>16, <1>17, <1>18, <1>19 DEF IInv

(* the bulk call returns *)
LEMMA JoinIInv ==
    ASSUME IInv, Join
    PROVE  IInv'
<1>1. /\ ~Idle /\ \A b \in Band : cursor[b] = Len(batch)
      /\ call' = "none" /\ batch' = << >> /\ filled' = 0 /\ visible' = sigs
      /\ cursor' = [b \in Band |-> 0] /\ UNCHANGED <<sigs, tables, tainted>>
  BY DEF Join
<1>2. TypeOK /\ InFlight /\ Complete /\ DamageConfined /\ NoEmptyBucket  BY DEF IInv
<1>3. Len(batch) \in Nat /\ filled \in Nat /\ filled <= Len(batch)  BY <1>2 DEF TypeOK
<1>4. \A b \in Band : Pending(b) = {} /\ Pending(b)' = {}
  BY <1>1, <1>3 DEF Pending
<1>5. \A b, k, i : Copies(b, k, i)' = Copies(b, k, i)  BY <1>1 DEF Copies, Bucket, Nobody
<1>6. \A i, b : BandKey(sigs[i], b)' = BandKey(sigs[i], b)  BY <1>1 DEF BandKey
<1>7. TypeOK'
  <2>1. batch' \in Seq(Ids \X Sigs) /\ Len(batch') = 0  BY <1>1
  <2>2. cursor' \in [Band -> 0 .. Len(batch')] /\ filled' \in 0 .. Len(batch')
    BY <1>1, <2>1
  <2>3. /\ tables' = [b \in Band |-> tables'[b]]
        /\ \A b \in Band : IsMap(tables'[b], Keys, [Ids -> Nat])
    BY <1>1, <1>2 DEF TypeOK
  <2> QED  BY <1>1, <1>2, <2>1, <2>2, <2>3 DEF TypeOK
<1>8. InFlight'
  <2>1. \A b \in Band : ~(cursor'[b] > 0)  BY <1>1
  <2>2. DOMAIN batch' = {} /\ 1 .. filled' = {}  BY <1>1
  <2> QED  BY <1>1, <2>1, <2>2 DEF InFlight
<1>9. Complete'  BY <1>1, <1>2, <1>4, <1>5, <1>6 DEF Complete
<1>10. DamageConfined'  BY <1>1, <1>2, <1>4, <1>5, <1>6 DEF DamageConfined
<1>11. NoEmptyBucket'  BY <1>1, <1>2 DEF NoEmptyBucket, Nobody
<1> QED  BY <1>7, <1>8, <1>9, <1>10, <1>11 DEF IInv

LEMMA StutterIInv ==
    ASSUME IInv, UNCHANGED vars
    PROVE  IInv'
<1> USE DEF vars
<1>1. TypeOK'  BY DEF IInv, TypeOK
<1>2. InFlight'  BY DEF IInv, InFlight, Idle
<1>3. Complete'  BY DEF IInv, Complete, Copies, Bucket, Nobody, BandKey, Pending
<1>4. DamageConfined'  BY DEF IInv, DamageConfined, Copies, Bucket, Nobody, BandKey, Pending
<1>5. NoEmptyBucket'  BY DEF IInv, NoEmptyBucket, Nobody
<1> QED  BY <1>1, <1>2, <1>3, <1>4, <1>5 DEF IInv

(* IInv is an invariant of the index: one step per operation of the code. *)
THEOREM Invariance == Spec => []IInv
<1>1. Init => IInv  BY InitIInv
<1>2. IInv /\ [Next]_vars => IInv'
  <2> SUFFICES ASSUME IInv, [Next]_vars PROVE IInv'  OBVIOUS
  <2>1. ASSUME NEW id \in Ids, NEW sig \in Sigs, Insert(id, sig) PROVE IInv'
    BY <2>1, InsertIInv
  <2>2. ASSUME NEW id \in Ids, Remove(id) PROVE IInv'  BY <2>2, RemoveIInv
  <2>3. ASSUME NEW n \in 1 .. MaxBatch, NEW items \in Items(n), ExtendPar(items) PROVE IInv'
    <3>1. Idle /\ Begin("extend_par", items)  BY <2>3 DEF ExtendPar
    <3> QED  BY <3>1, BeginIInv
  <2>4. ASSUME NEW n \in 1 .. MaxBatch, NEW items \in Items(n), TryExtendPar(items) PROVE IInv'
    <3>1. Idle /\ Begin("try_extend_par", items)  BY <2>4 DEF TryExtendPar
    <3> QED  BY <3>1, BeginIInv
  <2>5. CASE Fill  BY <2>5, FillIInv
  <2>6. ASSUME NEW b \in Band, FileItem(b) PROVE IInv'  BY <2>6, FileItemIInv
  <2>7. CASE Join  BY <2>7, JoinIInv
  <2>8. CASE UNCHANGED vars  BY <2>8, StutterIInv
  <2> QED  BY <2>1, <2>2, <2>3, <2>4, <2>5, <2>6, <2>7, <2>8 DEF Next
<1> QED  BY <1>1, <1>2, PTL DEF Spec

(* The structures of the index keep their types. *)
THEOREM TypeCorrect == Spec => []TypeOK
<1>1. IInv => TypeOK  BY DEF IInv
<1> QED  BY <1>1, Invariance, PTL

(* No stored document is lost to a lookup, whatever calls were made. *)
THEOREM NothingLost == Spec => []Complete
<1>1. IInv => Complete  BY DEF IInv
<1> QED  BY <1>1, Invariance, PTL

(* Misuse of a bulk call damages the entries of the misused ids only. *)
THEOREM MisuseConfined == Spec => []DamageConfined
<1>1. IInv => DamageConfined  BY DEF IInv
<1> QED  BY <1>1, Invariance, PTL

(* The tables never keep a key without an entry. *)
THEOREM MemoryReclaimed == Spec => []NoEmptyBucket
<1>1. IInv => NoEmptyBucket  BY DEF IInv
<1> QED  BY <1>1, Invariance, PTL

-----------------------------------------------------------------------------
(* Two bands share no slot. *)
LEMMA BandsDisjoint ==
    ASSUME NEW c \in Band, NEW d \in Band, NEW r \in Row, NEW s \in Row,
           c * Rows + r = d * Rows + s
    PROVE  c = d
<1>1. Rows \in Nat /\ c \in Nat /\ d \in Nat /\ r \in 0 .. Rows - 1 /\ s \in 0 .. Rows - 1
  BY LshAssumption DEF Band, Row
<1>2. ASSUME NEW x \in Nat, NEW y \in Nat, NEW u \in 0 .. Rows - 1, NEW v \in 0 .. Rows - 1,
             x < y
      PROVE  x * Rows + u # y * Rows + v
  <2>1. PICK e \in Nat : y = x + 1 + e
    <3>1. y - (x + 1) \in Nat /\ y = x + 1 + (y - (x + 1))  BY <1>2
    <3> QED  BY <3>1
  <2>2. y * Rows = x * Rows + Rows + e * Rows  BY <1>1, <2>1
  <2>3. e * Rows \in Nat /\ x * Rows \in Nat  BY <1>1
  <2>4. u \in Nat /\ v \in Nat /\ u < Rows /\ Rows \in Nat  BY <1>1
  <2> QED  BY <2>2, <2>3, <2>4
<1>3. ~(c < d) /\ ~(d < c)  BY <1>1, <1>2
<1> QED  BY <1>1, <1>3

(* The pigeonhole behind banding: signatures that differ in fewer slots than
   there are bands agree on all rows of some band, so they share its key. *)
LEMMA SharedBand ==
    ASSUME NEW a \in Sigs, NEW b \in Sigs, Matches(a, b) > H - Bands
    PROVE  \E c \in Band : BandKey(a, c) = BandKey(b, c)
<1> DEFINE same == {s \in Slots : a[s] = b[s]}
           diff == Slots \ same
<1>1. /\ Bands \in Nat \ {0} /\ Rows \in Nat \ {0} /\ H \in Nat
  <2>1. Bands \in Nat \ {0} /\ Rows \in Nat \ {0}  BY LshAssumption
  <2> QED  BY <2>1 DEF H
<1>2. IsFiniteSet(Slots) /\ Cardinality(Slots) = H
  <2>1. IsFiniteSet(0 .. H - 1) /\ Cardinality(0 .. H - 1) = IF 0 > H - 1 THEN 0 ELSE H - 1 - 0 + 1
    BY <1>1, FS_Interval
  <2> QED  BY <1>1, <2>1 DEF Slots
<1>3. IsFiniteSet(Band) /\ Cardinality(Band) = Bands
  <2>1. IsFiniteSet(0 .. Bands - 1)
        /\ Cardinality(0 .. Bands - 1) = IF 0 > Bands - 1 THEN 0 ELSE Bands - 1 - 0 + 1
    BY <1>1, FS_Interval
  <2> QED  BY <1>1, <2>1 DEF Band
<1>4. IsFiniteSet(diff) /\ Cardinality(diff) < Bands
  <2>1. IsFiniteSet(diff) /\ Cardinality(diff) = Cardinality(Slots) - Cardinality(Slots \cap same)
    BY <1>2, FS_Difference
  <2>2. Slots \cap same = same  OBVIOUS
  <2>3. Cardinality(same) > H - Bands  BY DEF Matches
  <2>4. IsFiniteSet(same) /\ Cardinality(same) \in Nat
    BY <1>2, FS_Subset, FS_CardinalityType
  <2> QED  BY <1>1, <1>2, <2>1, <2>2, <2>3, <2>4
<1>5. SUFFICES ASSUME \A c \in Band : \E r \in Row : a[c * Rows + r] # b[c * Rows + r]
               PROVE  FALSE
  BY DEF BandKey
<1> DEFINE row(c) == CHOOSE r \in Row : a[c * Rows + r] # b[c * Rows + r]
           f == [c \in Band |-> c * Rows + row(c)]
<1>6. ASSUME NEW c \in Band
      PROVE  row(c) \in Row /\ a[c * Rows + row(c)] # b[c * Rows + row(c)]
  BY <1>5
<1> HIDE DEF row
<1>7. f \in [Band -> diff]  BY <1>6, SlotOfBand
<1> HIDE DEF diff
<1>8. \E c, d \in Band : c # d /\ f[c] = f[d]
  <2> HIDE DEF f
  <2>1. Cardinality(diff) < Cardinality(Band)  BY <1>3, <1>4
  <2>2. IsFiniteSet(Band) /\ IsFiniteSet(diff)  BY <1>3, <1>4
  <2> QED  BY <1>7, <2>1, <2>2, FS_PigeonHole
<1> QED  BY <1>6, <1>8, BandsDisjoint

(* In every reachable state the search agrees with a scan. *)
LEMMA SearchIsScan ==
    ASSUME IInv, Idle, NEW sig \in Sigs, NEW t \in Thresholds, t > H - Bands
    PROVE  QueryWithThreshold(sig, t) = BruteForce(sigs, sig, t)
<1>1. QueryWithThreshold(sig, t) \subseteq BruteForce(sigs, sig, t)
  BY DEF QueryWithThreshold, BruteForce
<1>2. ASSUME NEW id \in DOMAIN sigs, Matches(sig, sigs[id]) >= t
      PROVE  id \in Query(sig)
  <2>1. id \in Ids /\ sigs[id] \in Sigs  BY DEF IInv, TypeOK, IsMap
  <2>2. Matches(sig, sigs[id]) > H - Bands
    <3>1. Bands \in Nat /\ H \in Nat /\ t \in Nat
      <4>1. Bands \in Nat /\ Rows \in Nat  BY LshAssumption
      <4>2. H \in Nat  BY <4>1 DEF H
      <4> QED  BY <4>1, <4>2 DEF Thresholds
    <3>2. Matches(sig, sigs[id]) \in Nat
      <4>1. IsFiniteSet(Slots)  BY <3>1, FS_Interval DEF Slots
      <4> DEFINE same == {s \in Slots : sig[s] = sigs[id][s]}
      <4>2. same \subseteq Slots  OBVIOUS
      <4>3. IsFiniteSet(same)  BY <4>1, <4>2, FS_Subset
      <4> QED  BY <4>3, FS_CardinalityType DEF Matches
    <3> QED  BY <1>2, <3>1, <3>2
  <2>3. PICK b \in Band : BandKey(sig, b) = BandKey(sigs[id], b)
    BY <2>1, <2>2, SharedBand
  <2>4. Pending(b) = {}
    <3>1. filled = 0 /\ cursor[b] = 0  BY DEF IInv, TypeOK, InFlight
    <3> QED  BY <3>1 DEF Pending
  <2>5. Copies(b, BandKey(sigs[id], b), id) > 0  BY <2>4 DEF IInv, Complete
  <2> QED  BY <2>1, <2>3, <2>5 DEF Query
<1> QED  BY <1>1, <1>2 DEF QueryWithThreshold, BruteForce

(* Above H - Bands matching slots a threshold query returns what a scan over
   all stored signatures returns, after any history of calls. *)
THEOREM SureRecall == Spec => []AgreesWithScan
<1>1. IInv => AgreesWithScan  BY SearchIsScan DEF AgreesWithScan
<1> QED  BY <1>1, Invariance, PTL

-----------------------------------------------------------------------------
(* While a bulk call runs, sigs is what the caller last saw plus the filled
   items. *)
FilledIds == {batch[p][1] : p \in 1 .. filled}

Origin(id) ==
    \/ \E p \in 1 .. filled : batch[p] = <<id, sigs[id]>>
    \/ id \in DOMAIN visible \ FilledIds /\ sigs[id] = visible[id]

Merging ==
    /\ ~Idle => Len(batch) \in 1 .. MaxBatch
    /\ DOMAIN sigs = DOMAIN visible \cup FilledIds
    /\ \A id \in DOMAIN sigs : Origin(id)

RInv == IInv /\ Merging

LEMMA MergingInit == Init => Merging
<1> SUFFICES ASSUME Init PROVE Merging  OBVIOUS
<1>1. FilledIds = {}  BY DEF Init, FilledIds
<1> QED  BY <1>1 DEF Init, Merging, Idle

LEMMA MergingFrame ==
    ASSUME Merging, UNCHANGED <<sigs, visible, batch, filled, call>>
    PROVE  Merging'
<1>1. FilledIds' = FilledIds  BY DEF FilledIds
<1>2. \A id : Origin(id)' = Origin(id)
  <2> SUFFICES ASSUME NEW id PROVE Origin(id)' <=> Origin(id)  BY DEF Origin
  <2> QED  BY <1>1 DEF Origin
<1>3. Idle' = Idle  BY DEF Idle
<1> QED  BY <1>1, <1>2, <1>3 DEF Merging

LEMMA MergingNext ==
    ASSUME IInv, Merging, [Next]_vars
    PROVE  Merging'
<1>1. /\ IsMap(sigs, Ids, Sigs) /\ batch \in Seq(Ids \X Sigs)
      /\ filled \in Nat /\ Len(batch) \in Nat /\ filled <= Len(batch)
      /\ DOMAIN batch = 1 .. Len(batch)
      /\ (Idle => batch = << >> /\ filled = 0 /\ visible = sigs)
  BY DEF IInv, TypeOK, InFlight
<1>2. ASSUME Idle, Idle', visible' = sigs', UNCHANGED filled PROVE Merging'
  <2>1. 1 .. filled' = {}  BY <1>1, <1>2
  <2>2. FilledIds' = {}  BY <2>1 DEF FilledIds
  <2> QED  BY <1>2, <2>2 DEF Merging, Origin
<1>3. ASSUME NEW id \in Ids, NEW sig \in Sigs, Insert(id, sig) PROVE Merging'
  <2>1. Idle' = Idle /\ Idle /\ visible' = sigs' /\ UNCHANGED filled
    BY <1>3 DEF Insert, Idle
  <2> QED  BY <1>2, <2>1
<1>4. ASSUME NEW id \in Ids, Remove(id) PROVE Merging'
  <2>1. Idle' = Idle /\ Idle /\ visible' = sigs' /\ UNCHANGED filled
    BY <1>4 DEF Remove, Idle
  <2> QED  BY <1>2, <2>1
<1>5. ASSUME NEW n \in 1 .. MaxBatch, NEW items \in Items(n), NEW name, Idle, Begin(name, items)
      PROVE  Merging'
  <2>1. Len(batch') = n
    BY <1>5, LshAssumption DEF Begin, Items
  <2>2. 1 .. filled' = {} /\ sigs' = sigs /\ visible' = sigs
    BY <1>1, <1>5 DEF Begin
  <2>3. FilledIds' = {}  BY <2>2 DEF FilledIds
  <2> QED  BY <1>5, <2>1, <2>2, <2>3 DEF Merging, Origin
<1>6. CASE Fill
  <2> DEFINE item == batch[filled + 1]
  <2>1. /\ ~Idle /\ sigs' = Store(sigs, item[1], item[2]) /\ filled' = filled + 1
        /\ UNCHANGED <<call, batch, visible>> /\ filled < Len(batch)
    BY <1>6 DEF Fill
  <2>2. item \in Ids \X Sigs /\ item = <<item[1], item[2]>>
    BY <1>1, <2>1
  <2>3. 1 .. filled' = (1 .. filled) \cup {filled + 1}  BY <1>1, <2>1
  <2>4. /\ DOMAIN sigs' = DOMAIN sigs \cup {item[1]} /\ sigs'[item[1]] = item[2]
        /\ \A id \in DOMAIN sigs \ {item[1]} : sigs'[id] = sigs[id]
    BY <2>1 DEF Store
  <2>5. FilledIds' = FilledIds \cup {item[1]}
    <3> HIDE DEF item
    <3>1. FilledIds' = {batch[p][1] : p \in (1 .. filled) \cup {filled + 1}}
      BY <2>1, <2>3 DEF FilledIds
    <3> QED  BY <3>1 DEF FilledIds, item
  <2>6. ASSUME NEW id \in DOMAIN sigs' PROVE Origin(id)'
    <3>1. CASE id = item[1]
      <4>1. batch'[filled + 1] = <<id, sigs'[id]>>  BY <2>1, <2>2, <2>4, <3>1
      <4>2. filled + 1 \in 1 .. filled'  BY <2>3
      <4> QED  BY <4>1, <4>2 DEF Origin
    <3>2. CASE id # item[1]
      <4>1. id \in DOMAIN sigs /\ sigs'[id] = sigs[id]  BY <2>4, <3>2
      <4>2. Origin(id)  BY <4>1 DEF Merging
      <4>3. CASE \E p \in 1 .. filled : batch[p] = <<id, sigs[id]>>
        <5>1. PICK p \in 1 .. filled : batch[p] = <<id, sigs[id]>>  BY <4>3
        <5>2. p \in 1 .. filled' /\ batch'[p] = <<id, sigs'[id]>>
          BY <2>1, <2>3, <4>1, <5>1
        <5> QED  BY <5>2 DEF Origin
      <4>4. CASE id \in DOMAIN visible \ FilledIds /\ sigs[id] = visible[id]
        <5>1. id \in DOMAIN visible' \ FilledIds' /\ sigs'[id] = visible'[id]
          BY <2>1, <2>5, <3>2, <4>1, <4>4
        <5> QED  BY <5>1 DEF Origin
      <4> QED  BY <4>2, <4>3, <4>4 DEF Origin
    <3> QED  BY <3>1, <3>2
  <2>7. ~Idle' /\ Len(batch') = Len(batch)  BY <2>1 DEF Idle
  <2>8. DOMAIN sigs' = DOMAIN visible' \cup FilledIds'
    BY <2>1, <2>4, <2>5 DEF Merging
  <2> QED  BY <2>1, <2>6, <2>7, <2>8 DEF Merging
<1>7. ASSUME NEW b \in Band, FileItem(b) PROVE Merging'
  <2>1. UNCHANGED <<sigs, call, batch, filled, visible>>  BY <1>7 DEF FileItem
  <2> QED  BY <2>1, MergingFrame
<1>8. CASE Join
  <2>1. Idle' /\ filled' = 0 /\ visible' = sigs /\ sigs' = sigs  BY <1>8 DEF Join, Idle
  <2>2. FilledIds' = {}  BY <2>1 DEF FilledIds
  <2> QED  BY <2>1, <2>2 DEF Merging, Origin
<1>9. CASE UNCHANGED vars  BY <1>9, MergingFrame DEF vars
<1> QED  BY <1>3, <1>4, <1>5, <1>6, <1>7, <1>8, <1>9 DEF Next, ExtendPar, TryExtendPar

LEMMA RefinementInvariance == Spec => []RInv
<1>1. Init => Merging  BY MergingInit
<1>2. IInv /\ Merging /\ [Next]_vars => Merging'  BY MergingNext
<1> QED  BY <1>1, <1>2, Invariance, PTL DEF Spec, RInv

(* What a search returns is always what the abstract map would return. *)
LEMMA AnswersAreFound == IInv => Answers = Abstract!Found(visible)
<1> SUFFICES ASSUME IInv PROVE Answers = Abstract!Found(visible)  OBVIOUS
<1>1. IsMap(visible, Ids, Sigs)  BY DEF IInv, TypeOK
<1>2. SureThreshold \in Thresholds /\ SureThreshold > H - Bands
  <2>1. Bands \in Nat \ {0} /\ Rows \in Nat \ {0}  BY LshAssumption
  <2>2. H \in Nat /\ Bands <= H
    <3>1. PICK r \in Nat : Rows = r + 1
      <4>1. Rows - 1 \in Nat /\ Rows = (Rows - 1) + 1  BY <2>1
      <4> QED  BY <4>1
    <3>2. Bands * Rows = Bands * r + Bands /\ Bands * r \in Nat  BY <2>1, <3>1
    <3> QED  BY <2>1, <3>2 DEF H
  <2> QED  BY <2>1, <2>2 DEF SureThreshold, Thresholds
<1>3. ASSUME NEW q \in Sigs
      PROVE  Answers[q] = BruteForce(visible, q, SureThreshold)
  <2>1. CASE Idle
    <3>1. visible = sigs  BY <2>1 DEF IInv, InFlight
    <3> QED  BY <1>2, <2>1, <3>1, SearchIsScan DEF Answers
  <2>2. CASE ~Idle  BY <2>2 DEF Answers
  <2> QED  BY <2>1, <2>2
<1>4. ASSUME NEW q \in Sigs
      PROVE  BruteForce(visible, q, SureThreshold)
                = {id \in DOMAIN visible : visible[id] \in SureClose[q]}
  <2>1. \A id \in DOMAIN visible : visible[id] \in Sigs  BY <1>1 DEF IsMap
  <2> QED  BY <2>1 DEF BruteForce, SureClose
<1>5. Answers = [q \in Sigs |-> Answers[q]]  BY DEF Answers
<1> QED  BY <1>3, <1>4, <1>5 DEF Abstract!Found

LEMMA InitRefines == Init => Abstract!Init
<1> SUFFICES ASSUME Init PROVE Abstract!Init  OBVIOUS
<1>1. IInv  BY InitIInv
<1>2. visible = << >> /\ batch = << >> /\ call = "none"  BY DEF Init
<1> QED  BY <1>1, <1>2, AnswersAreFound DEF Abstract!Init

(* Every step of the index is one operation of the store, or none. *)
LEMMA StepRefines ==
    ASSUME RInv, RInv', [Next]_vars
    PROVE  [Abstract!Next]_<<visible, Answers, call, batch>>
<1>1. IInv /\ Merging  BY DEF RInv
<1>2. Answers = Abstract!Found(visible)  BY <1>1, AnswersAreFound
<1>3. Answers' = Abstract!Found(visible')
  <2>1. IInv'  BY DEF RInv
  <2>2. (Answers = Abstract!Found(visible))'
    <3>1. (IInv => Answers = Abstract!Found(visible))'  BY AnswersAreFound, PTL
    <3> QED  BY <2>1, <3>1
  <2> QED  BY <2>2 DEF Abstract!Found
<1>4. ASSUME visible' = visible PROVE Answers' = Answers  BY <1>2, <1>3, <1>4
<1>5. ASSUME NEW id \in Ids, NEW sig \in Sigs, Insert(id, sig)
      PROVE  Abstract!Put(id, sig)
  <2>1. visible = sigs  BY <1>1, <1>5 DEF Insert, IInv, InFlight
  <2>2. visible' = Abstract!Set(visible, id, sig)
    BY <1>5, <2>1 DEF Insert, Store, Abstract!Set
  <2>3. batch = << >> /\ batch' = batch /\ call' = call  BY <1>1, <1>5 DEF Insert, IInv, InFlight
  <2> QED  BY <1>3, <2>2, <2>3 DEF Abstract!Put
<1>6. ASSUME NEW id \in Ids, Remove(id)
      PROVE  Abstract!Delete(id)
  <2>1. visible = sigs  BY <1>1, <1>6 DEF Remove, IInv, InFlight
  <2>2. batch = << >> /\ batch' = batch /\ call' = call  BY <1>1, <1>6 DEF Remove, IInv, InFlight
  <2> QED  BY <1>3, <1>6, <2>1, <2>2 DEF Remove, Abstract!Delete
<1>7. CASE Join
  <2>1. /\ visible' = sigs /\ ~Idle /\ \A b \in Band : cursor[b] = Len(batch)
    BY <1>7 DEF Join
  <2>2. filled = Len(batch)
    <3>1. 0 \in Band
      <4>1. Bands \in Nat \ {0}  BY LshAssumption
      <4> QED  BY <4>1 DEF Band
    <3>2. Len(batch) \in 1 .. MaxBatch  BY <1>1, <2>1 DEF Merging
    <3>3. cursor[0] > 0  BY <2>1, <3>1, <3>2, LshAssumption
    <3> QED  BY <1>1, <3>1, <3>3 DEF IInv, InFlight
  <2>3. /\ batch \in Seq(Ids \X Sigs) /\ Len(batch) \in 1 .. MaxBatch
        /\ DOMAIN batch = 1 .. Len(batch) /\ batch \in [1 .. Len(batch) -> Ids \X Sigs]
    BY <1>1, <2>1 DEF IInv, TypeOK, Merging
  <2>3a. FilledIds = {batch[p][1] : p \in DOMAIN batch}  BY <2>2, <2>3 DEF FilledIds
  <2>4. /\ DOMAIN sigs = DOMAIN visible \cup {batch[p][1] : p \in DOMAIN batch}
        /\ sigs \in [DOMAIN sigs -> Sigs]
    BY <1>1, <2>3a DEF Merging, IInv, TypeOK, IsMap
  <2>5. ASSUME NEW id \in {batch[p][1] : p \in DOMAIN batch}
        PROVE  sigs[id] \in {batch[p][2] : p \in {q \in DOMAIN batch : batch[q][1] = id}}
    <3>1. id \in DOMAIN sigs  BY <2>4
    <3>2. \E p \in DOMAIN batch : batch[p] = <<id, sigs[id]>>
      BY <1>1, <2>2, <2>3, <2>3a, <3>1 DEF Merging, Origin
    <3> QED  BY <3>2
  <2>6. ASSUME NEW id \in DOMAIN visible \ {batch[p][1] : p \in DOMAIN batch}
        PROVE  sigs[id] = visible[id]
    <3>1. id \in DOMAIN sigs  BY <2>4
    <3>2. ~\E p \in DOMAIN batch : batch[p] = <<id, sigs[id]>>  OBVIOUS
    <3> QED  BY <1>1, <2>2, <2>3, <3>1, <3>2 DEF Merging, Origin
  <2>7. batch # << >> /\ batch' = << >> /\ call' = "none"  BY <1>7, <2>3 DEF Join
  <2>8. Abstract!PutAll
    BY <1>3, <2>1, <2>4, <2>5, <2>6, <2>7 DEF Abstract!PutAll
  <2> QED  BY <2>8 DEF Abstract!Next
<1>8. ASSUME Fill \/ (\E b \in Band : FileItem(b)) \/ UNCHANGED vars
      PROVE  visible' = visible /\ call' = call /\ batch' = batch
  BY <1>8 DEF Fill, FileItem, vars
<1>9. ASSUME NEW n \in 1 .. MaxBatch, NEW items \in Items(n), ExtendPar(items) \/ TryExtendPar(items)
      PROVE  /\ \E name \in Abstract!BulkCalls : Abstract!Submit(name, items)
             /\ items \in [1 .. n -> Ids \X Sigs]
  <2>1. batch = << >> /\ visible = sigs  BY <1>1, <1>9 DEF ExtendPar, TryExtendPar, IInv, InFlight
  <2>2. batch' = items /\ visible' = visible
    BY <1>9 DEF ExtendPar, TryExtendPar, Begin
  <2>3. CASE ExtendPar(items)
    <3>1. call' = "extend_par"  BY <2>3 DEF ExtendPar, Begin
    <3>2. Abstract!Submit("extend_par", items)
      BY <1>4, <2>1, <2>2, <3>1 DEF Abstract!Submit
    <3> QED  BY <3>2 DEF Items, Abstract!BulkCalls
  <2>4. CASE TryExtendPar(items)
    <3>1. call' = "try_extend_par"  BY <2>4 DEF TryExtendPar, Begin
    <3>2. \A p \in DOMAIN items : items[p][1] \notin DOMAIN visible
      BY <2>1, <2>4 DEF TryExtendPar, Fresh
    <3>3. Abstract!Submit("try_extend_par", items)
      BY <1>4, <2>1, <2>2, <3>1, <3>2 DEF Abstract!Submit
    <3> QED  BY <3>3 DEF Items, Abstract!BulkCalls
  <2> QED  BY <1>9, <2>3, <2>4
<1> QED  BY <1>4, <1>5, <1>6, <1>7, <1>8, <1>9 DEF Next, Abstract!Next

(* The index implements the plain map of signatures: whatever the callers do,
   each call is one operation of the store, a bulk call all at once. *)
THEOREM Refinement == Spec => ImplementsStore
<1>1. Init => Abstract!Init  BY InitRefines
<1>2. RInv /\ RInv' /\ [Next]_vars => [Abstract!Next]_<<visible, Answers, call, batch>>
  BY StepRefines
<1> QED  BY <1>1, <1>2, RefinementInvariance, PTL DEF Spec, ImplementsStore, Abstract!Spec
=============================================================================
