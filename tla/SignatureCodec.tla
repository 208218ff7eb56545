--------------------------- MODULE SignatureCodec ---------------------------
(***************************************************************************)
(* Storing a MinHash signature and loading it again                        *)
(* (src/src/classical/minhash/sig.rs): as the bytes of the struct, through *)
(* serde as a map (human-readable formats) or as a tuple (binary ones).    *)
(* The writer may be another build of the program, with another schema or  *)
(* another number of slots; between the two the column may lose its tail,  *)
(* and a map's fields may be reordered, dropped or added to.               *)
(* The formats' own framing is outside: a map is its fields, a tuple its   *)
(* elements, and the bytes of a word are not told apart.                   *)
(***************************************************************************)
EXTENDS Integers, SequencesExt

CONSTANTS
    Slots,              \* slots of the loading build's signatures
    Widths,         \* slots of the writing builds' signatures
    WordSet,        \* values of a slot
    Schemas,        \* schema versions of the writing builds
    SCHEMA_VERSION, \* that of the loading build
    FieldLists      \* the orders and sets of fields a stored map may have

ASSUME CodecAssumption ==
    /\ Slots \in Nat /\ Widths \subseteq Nat
    /\ SCHEMA_VERSION \in Schemas
    /\ FieldLists \subseteq Seq({"schema", "hashes", "other"})

VARIABLES
    written,    \* the signature that was stored: its schema and its slots
    cell,       \* what is stored, in one of the three forms
    loaded      \* what the last load returned, or NotLoaded

codecVars == <<written, cell, loaded>>

Ok(schema, hashes) == [kind |-> "ok", schema |-> schema, hashes |-> hashes]
Failed(error) == [kind |-> error, schema |-> 0, hashes |-> << >>]
NotLoaded == Failed("none")

-----------------------------------------------------------------------------
\* as_bytes: a header of eight bytes and eight for every slot.
AsBytes(schema, hashes) ==
    [form |-> "bytes", schema |-> schema, hashes |-> hashes, extra |-> 0]

\* Serialize: a struct of two fields, or a tuple of all the elements.
AsMap(schema, hashes) ==
    [form |-> "map", schema |-> schema, hashes |-> hashes, fields |-> <<"schema", "hashes">>]

AsTuple(schema, hashes) ==
    [form |-> "tuple", elements |-> <<schema>> \o hashes]

CodecInit ==
    \E schema \in Schemas, n \in Widths : \E hashes \in [1 .. n -> WordSet] :
        /\ written = [schema |-> schema, hashes |-> hashes]
        /\ cell \in {AsBytes(schema, hashes), AsMap(schema, hashes), AsTuple(schema, hashes)}
        /\ loaded = NotLoaded

\* The tail is lost: whole slots, and with bytes part of another one.
LoseTail ==
    /\ loaded = NotLoaded
    /\ \/ /\ cell.form = "bytes"
          /\ \E n \in 0 .. Len(cell.hashes) - 1, extra \in 0 .. 7 :
                cell' = [cell EXCEPT !.hashes = SubSeq(@, 1, n), !.extra = extra]
       \/ /\ cell.form = "tuple"
          /\ \E n \in 0 .. Len(cell.elements) - 1 :
                cell' = [cell EXCEPT !.elements = SubSeq(@, 1, n)]
    /\ UNCHANGED <<written, loaded>>

\* Another program rewrites the map.
RewriteFields ==
    /\ loaded = NotLoaded /\ cell.form = "map"
    /\ \E fields \in FieldLists : cell' = [cell EXCEPT !.fields = fields]
    /\ UNCHANGED <<written, loaded>>

-----------------------------------------------------------------------------
ExpectedSize == 8 + 8 * Slots
ByteSize(c) == 8 + 8 * Len(c.hashes) + c.extra

\* Mutants of FromBytes: the length is a lower bound; the schema is not read.
FromBytesOfPrefix(c, aligned) ==
    IF ByteSize(c) < ExpectedSize THEN Failed("InvalidInput")
    ELSE IF c.schema # SCHEMA_VERSION THEN Failed("SchemaMismatch")
    ELSE IF ~aligned THEN Failed("panic")
    ELSE Ok(SCHEMA_VERSION, SubSeq(c.hashes, 1, Slots))

FromBytesStamping(c, aligned) ==
    IF ByteSize(c) # ExpectedSize THEN Failed("InvalidInput")
    ELSE IF ~aligned THEN Failed("panic")
    ELSE Ok(SCHEMA_VERSION, c.hashes)

\* from_bytes.  The payload is cast to words in place, which panics unless it lies on
\* a multiple of eight in memory.
FromBytes(c, aligned) ==
    IF ByteSize(c) # ExpectedSize THEN Failed("InvalidInput")
    ELSE IF c.schema # SCHEMA_VERSION THEN Failed("SchemaMismatch")
    ELSE IF ~aligned THEN Failed("panic")
    ELSE Ok(SCHEMA_VERSION, c.hashes)

LoadBytes ==
    /\ cell.form = "bytes" /\ loaded = NotLoaded
    /\ \E aligned \in BOOLEAN : loaded' = FromBytes(cell, aligned)
    /\ UNCHANGED <<written, cell>>

\* Mutant of VisitMap: the fields are taken in the order they are written in.
VisitMapInOrder(c) ==
    IF c.fields = <<"schema", "hashes">> /\ Len(c.hashes) = Slots
    THEN Ok(c.schema, c.hashes)
    ELSE Failed("serde")

\* StructVisitor: any order, no field but the two, the array with exactly Slots words.
VisitMap(c) ==
    IF Range(c.fields) = {"schema", "hashes"} /\ Len(c.hashes) = Slots
    THEN Ok(c.schema, c.hashes)
    ELSE Failed("serde")

LoadMap ==
    /\ cell.form = "map" /\ loaded = NotLoaded
    /\ loaded' = VisitMap(cell)
    /\ UNCHANGED <<written, cell>>

\* TupleVisitor: the schema and Slots words are read and nothing else is asked for; what
\* is left over is the format's affair, which may refuse it or pass over it.
VisitTuple(c, formatRefusesRest) ==
    IF Len(c.elements) < 1 + Slots \/ (formatRefusesRest /\ Len(c.elements) > 1 + Slots)
    THEN Failed("serde")
    ELSE Ok(c.elements[1], SubSeq(c.elements, 2, 1 + Slots))

LoadTuple ==
    /\ cell.form = "tuple" /\ loaded = NotLoaded
    /\ \E formatRefusesRest \in BOOLEAN : loaded' = VisitTuple(cell, formatRefusesRest)
    /\ UNCHANGED <<written, cell>>

CodecNext == LoseTail \/ RewriteFields \/ LoadBytes \/ LoadMap \/ LoadTuple

CodecSpec == CodecInit /\ [][CodecNext]_codecVars

-----------------------------------------------------------------------------
\* What is returned is a signature of this build or one of the known failures.
LoadedOK ==
    \/ loaded.kind = "ok" /\ loaded.schema \in Schemas /\ loaded.hashes \in [1 .. Slots -> WordSet]
    \/ loaded \in {Failed(e) : e \in {"none", "InvalidInput", "SchemaMismatch", "panic", "serde"}}

CodecTypeOK ==
    /\ written \in [schema : Schemas, hashes : Seq(WordSet)]
    /\ cell.form \in {"bytes", "map", "tuple"}
    /\ LoadedOK

Intact ==
    cell \in {AsBytes(written.schema, written.hashes), AsMap(written.schema, written.hashes),
              AsTuple(written.schema, written.hashes)}

\* Only a column that lost its tail, and a tuple, which does not say how many slots it
\* has, can pass for the signature of its first slots.
LoadedIsWritten ==
    loaded.kind = "ok" =>
        /\ IsPrefix(loaded.hashes, written.hashes)
        /\ loaded.schema = written.schema
        /\ cell.form = "map" \/ (cell.form = "bytes" /\ Intact) => loaded.hashes = written.hashes

BytesGuardSchema ==
    cell.form = "bytes" /\ loaded.kind = "ok" => written.schema = SCHEMA_VERSION

(* A signature that loads is the one that was written, of this build's width, or begins
   it; and bytes of another schema never become one, which would compare fine and be
   wrong (sig.rs:134-138). *)
WhatLoadsWasWritten == CodecTypeOK /\ LoadedIsWritten /\ BytesGuardSchema

(* What a build writes it can load again, by every route, after the fields of a map
   were put into another order too; bytes have to lie aligned. *)
RoundTrip ==
    /\ written.schema = SCHEMA_VERSION /\ Len(written.hashes) = Slots
    /\ Intact \/ (cell.form = "map" /\ Range(cell.fields) = {"schema", "hashes"})
    => loaded.kind \in {"none", "ok", "panic"} /\ (loaded.kind = "panic" => cell.form = "bytes")

-----------------------------------------------------------------------------
(* Documented: "Wrong schema version on deser: Error::SchemaMismatch" (txt.md:908). *)
EveryRouteGuardsSchema == loaded.kind = "ok" => written.schema = SCHEMA_VERSION

(* Documented under "Errors" (sig.rs:140-146): from_bytes returns InvalidInput for a
   wrong length and SchemaMismatch for a wrong schema, and otherwise a signature. *)
FromBytesReturns ==
    cell.form = "bytes" => loaded.kind \in {"none", "ok", "InvalidInput", "SchemaMismatch"}
=============================================================================
