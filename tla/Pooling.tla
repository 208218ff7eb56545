------------------------------ MODULE Pooling ------------------------------
(***************************************************************************)
(* From hidden states to an embedding and its comparison (src/src/semantic:*)
(* pooling.rs, embedding.rs, provider.rs, and the end of run in local.rs). *)
(*                                                                         *)
(* A float is an integer or one of Inf, NegInf and NaN: what is finite     *)
(* stays within MaxFloat.  Rounding is left out.  A pooled vector is its   *)
(* entries over a common count; a unit vector is the direction of entries. *)
(***************************************************************************)
EXTENDS Integers, SequencesExt

CONSTANTS
    Hidden,         \* outputs of the model: a vector for every token
    Masks,          \* attention masks, and Nothing
    Stored,         \* embeddings to compare with
    ModelId,        \* the provider's
    MaxFloat,       \* f32::MAX
    Inf, NegInf, NaN, Nothing

Refused == [failed |-> "error"]

Strategies == {"Cls", "Mean", "MeanNoNorm", "Max"}

VARIABLES
    hidden, mask, pooling,
    rank,           \* of the output: 2 if the model has pooled already
    vector,         \* what was pooled
    embedding,      \* the embedding, or Refused
    other,          \* the embedding it is compared with
    similarity

poolingVars == <<hidden, mask, pooling, rank, vector, embedding, other, similarity>>

-----------------------------------------------------------------------------
Finite == -MaxFloat .. MaxFloat
Floats == Finite \cup {Inf, NegInf, NaN}

IsFinite(x) == x \notin {Inf, NegInf, NaN}

\* What a sum or a product that was computed exactly comes out as.
Float(x) == IF x > MaxFloat THEN Inf ELSE IF x < -MaxFloat THEN NegInf ELSE x

Plus(x, y) ==
    IF IsFinite(x) /\ IsFinite(y) THEN Float(x + y)
    ELSE IF x = NaN \/ y = NaN \/ {x, y} = {Inf, NegInf} THEN NaN
    ELSE IF IsFinite(x) THEN y ELSE x

\* v > best.
Exceeds(v, best) ==
    IF IsFinite(v) /\ IsFinite(best) THEN v > best
    ELSE v # NaN /\ best # NaN /\ v # best /\ (v = Inf \/ best = NegInf)

Vector(entries, count) == [entries |-> entries, count |-> count, unit |-> FALSE]

Dot(x, y) ==
    LET sum[d \in 0 .. Len(x)] == IF d = 0 THEN 0 ELSE sum[d - 1] + x[d] * y[d]
    IN  sum[Len(x)]

Products(u, v) == Dot(u.entries, v.entries)

\* The sum of the squares, times the square of the count; not a number stands for
\* itself, and infinity for a sum that is past the largest float as well.
SumOfSquares(v) ==
    IF NaN \in {v.entries[d] : d \in DOMAIN v.entries} THEN NaN
    ELSE IF \E d \in DOMAIN v.entries : ~IsFinite(v.entries[d]) THEN Inf
    ELSE IF Products(v, v) > MaxFloat * v.count * v.count THEN Inf
    ELSE Products(v, v)

L2Normalize(v) ==
    IF v.unit \/ SumOfSquares(v) \in {0, Inf, NaN} THEN v ELSE [v EXCEPT !.unit = TRUE]

Normalizes(s) == s \in {"Cls", "Mean", "Max"}

\* Mutant of Keep: tokens the mask does not reach are kept.
KeepBeyondMask(m, tok) == IF m = Nothing \/ tok > Len(m) THEN TRUE ELSE m[tok] # 0

Keep(m, tok) ==
    IF m = Nothing THEN TRUE ELSE tok <= Len(m) /\ m[tok] # 0

Zeros(h) == [d \in DOMAIN h[1] |-> 0]

\* The vectors the loops over the tokens do not pass over.
Kept(h, m) ==
    LET kept[tok \in 0 .. Len(h)] ==
            IF tok = 0 THEN << >>
            ELSE IF Keep(m, tok) THEN Append(kept[tok - 1], h[tok]) ELSE kept[tok - 1]
    IN  kept[Len(h)]

Add(sum, row) == [d \in DOMAIN sum |-> Plus(sum[d], row[d])]

SumOf(rows, start) ==
    LET sum[i \in 0 .. Len(rows)] == IF i = 0 THEN start ELSE Add(sum[i - 1], rows[i])
    IN  sum[Len(rows)]

MeanOf(h, m) ==
    Vector(SumOf(Kept(h, m), Zeros(h)), IF Kept(h, m) = << >> THEN 1 ELSE Len(Kept(h, m)))

Raise(best, row) ==
    [d \in DOMAIN best |-> IF Exceeds(row[d], best[d]) THEN row[d] ELSE best[d]]

BestOf(rows, start) ==
    LET best[i \in 0 .. Len(rows)] == IF i = 0 THEN start ELSE Raise(best[i - 1], rows[i])
    IN  best[Len(rows)]

MaxOf(h, m) ==
    Vector(IF Kept(h, m) = << >> THEN Zeros(h)
           ELSE BestOf(Kept(h, m), [d \in DOMAIN h[1] |-> -MaxFloat]), 1)

Apply(s, h, m) ==
    IF h = << >> THEN Vector(<< >>, 1)
    ELSE LET pooled == CASE s = "Cls" -> Vector(h[1], 1)
                         [] s \in {"Mean", "MeanNoNorm"} -> MeanOf(h, m)
                         [] s = "Max" -> MaxOf(h, m)
         IN  IF Normalizes(s) THEN L2Normalize(pooled) ELSE pooled

\* Mutant of WithModel: only what is not a number is refused.
WithModelUnlessNaN(v, model) ==
    IF v.entries = << >> \/ NaN \in {v.entries[d] : d \in DOMAIN v.entries} THEN Refused
    ELSE [entries |-> v.entries, count |-> v.count, unit |-> v.unit, model |-> model]

WithModel(v, model) ==
    IF v.entries = << >> \/ \E d \in DOMAIN v.entries : ~IsFinite(v.entries[d]) THEN Refused
    ELSE [entries |-> v.entries, count |-> v.count, unit |-> v.unit, model |-> model]

Dim(e) == Len(e.entries)

Compatible(a, b) ==
    /\ a.model # Nothing /\ b.model # Nothing => a.model = b.model
    /\ Dim(a) = Dim(b)

\* A norm, by its square; that of a unit vector is one.
ZeroNorm(e) == SumOfSquares(e) = 0
HugeNorm(e) == ~e.unit /\ SumOfSquares(e) = Inf

\* Mutant of SemanticSimilarity: an answer unless both sides are zero.
SimilarityUnlessBothZero(a, b) ==
    IF ~Compatible(a, b) \/ (ZeroNorm(a) /\ ZeroNorm(b)) THEN Refused
    ELSE [products |-> Products(a, b), left |-> SumOfSquares(a), right |-> SumOfSquares(b)]

\* The cosine, as the product of the entries and the squares of the two norms.
SemanticSimilarity(a, b) ==
    IF ~Compatible(a, b) \/ ZeroNorm(a) \/ ZeroNorm(b) THEN Refused
    ELSE [products |-> Products(a, b), left |-> SumOfSquares(a), right |-> SumOfSquares(b)]

\* What an embedding is a record of.
Embeddings(models) ==
    [entries : Seq(Finite), count : Nat \ {0}, unit : BOOLEAN, model : models]

\* Rows of one width; what is compared is an embedding, and of norm one only if its
\* entries have a norm.
ASSUME PoolingAssumption ==
    /\ MaxFloat \in Nat /\ {Inf, NegInf, NaN} \cap Int = {} /\ Inf # NaN
    /\ Hidden \subseteq Seq(Seq(Floats))
    /\ \A h \in Hidden : \A i, j \in DOMAIN h : Len(h[i]) = Len(h[j])
    /\ Masks \subseteq Seq(Nat) \cup {Nothing}
    /\ Nothing \notin Seq(Nat) /\ ModelId # Nothing /\ Nothing \notin Embeddings({ModelId})
    /\ \A e \in Stored :
          /\ e \in Embeddings({e.model})
          /\ e.unit => SumOfSquares(e) \notin {0, Inf, NaN}

-----------------------------------------------------------------------------
PoolingInit ==
    /\ hidden \in Hidden /\ mask \in Masks /\ pooling \in Strategies
    /\ rank \in {2, 3}
    /\ rank = 2 => Len(hidden) = 1 /\ mask = Nothing
    /\ vector = Nothing /\ embedding = Nothing /\ other = Nothing /\ similarity = Nothing

\* The two cases of run: an output that is pooled already, or one vector per token.
PoolOutput ==
    /\ vector = Nothing
    /\ vector' = IF rank = 3 THEN Apply(pooling, hidden, mask)
                 ELSE IF Normalizes(pooling) THEN L2Normalize(Vector(hidden[1], 1))
                 ELSE Vector(hidden[1], 1)
    /\ UNCHANGED <<hidden, mask, pooling, rank, embedding, other, similarity>>

EmbedVector ==
    /\ vector # Nothing /\ embedding = Nothing
    /\ embedding' = WithModel(vector, ModelId)
    /\ UNCHANGED <<hidden, mask, pooling, rank, vector, other, similarity>>

IsEmbedding(e) == e # Nothing /\ e # Refused

Compare ==
    /\ IsEmbedding(embedding) /\ other = Nothing
    /\ other' \in Stored
    /\ similarity' = SemanticSimilarity(embedding, other')
    /\ UNCHANGED <<hidden, mask, pooling, rank, vector, embedding>>

\* Embedding::normalize, on an embedding that has been compared.
Normalize ==
    /\ IsEmbedding(embedding) /\ other # Nothing
    /\ embedding' = L2Normalize(embedding)
    /\ similarity' = SemanticSimilarity(embedding', other)
    /\ UNCHANGED <<hidden, mask, pooling, rank, vector, other>>

PoolingNext == PoolOutput \/ EmbedVector \/ Compare \/ Normalize

PoolingSpec == PoolingInit /\ [][PoolingNext]_poolingVars

-----------------------------------------------------------------------------
\* The tokens a strategy reads.
ReadTokens ==
    IF rank = 2 \/ (pooling = "Cls" /\ hidden # << >>) THEN {1}
    ELSE {tok \in DOMAIN hidden : mask # Nothing => tok <= Len(mask) /\ mask[tok] # 0}

(* Padding does not show: what comes of Mean, MeanNoNorm and Max is what comes of the
   tokens that count, in their order, with the others not there at all.  A token past
   the end of a mask that was cut off does not count, and where none counts the
   vector is zero and has the same width (pooling.rs:61-106, 119-125). *)
PaddingDoesNotShow ==
    vector # Nothing /\ rank = 3 /\ pooling # "Cls" /\ hidden # << >> =>
        \A n \in 0 .. Len(hidden) : \A counting \in [1 .. n -> DOMAIN hidden] :
            /\ Range(counting) = ReadTokens
            /\ \A i, j \in 1 .. n : i < j => counting[i] < counting[j]
            => vector = IF n = 0 THEN Vector(Zeros(hidden), 1)
                        ELSE Apply(pooling, [i \in 1 .. n |-> hidden[counting[i]]], Nothing)

(* No infinity, and nothing that is not a number, gets into an embedding: a value of
   that kind in a token that counts refuses the text, under every strategy but Max,
   which passes over negative infinity and over what is not a number.  The embedding
   of a normalizing strategy has norm one, unless it is zero or the squares leave the
   range of floats (pooling.rs:61-106, 119-125). *)
EmbeddingsSound ==
    IsEmbedding(embedding) =>
        /\ \A d \in DOMAIN embedding.entries : IsFinite(embedding.entries[d])
        /\ pooling # "Max" =>
              \A tok \in ReadTokens : \A d \in DOMAIN hidden[tok] : IsFinite(hidden[tok][d])
        /\ Normalizes(pooling) =>
              embedding.unit \/ SumOfSquares(embedding) = 0 \/ HugeNorm(embedding)

Huge == HugeNorm(embedding) \/ HugeNorm(other)

(* A comparison is answered by a cosine or refused: an answer comes of two vectors of
   one width and not known to be of different models, it lies between -1 and 1 unless
   squares leave the range of floats, and both sides have a direction; turning the
   sides around changes nothing (provider.rs:88-110). *)
SimilaritySound ==
    other # Nothing =>
        /\ similarity = Refused \/ Huge \/
              /\ similarity.products * similarity.products <= similarity.left * similarity.right
              /\ similarity.left > 0 /\ similarity.right > 0
        /\ similarity # Refused =>
              Dim(embedding) = Dim(other) /\ other.model \in {Nothing, ModelId}
        /\ (similarity = Refused) = (SemanticSimilarity(other, embedding) = Refused)
=============================================================================
