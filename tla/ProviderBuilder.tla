--------------------------- MODULE ProviderBuilder ---------------------------
(***************************************************************************)
(* How a LocalProvider comes to be and what it asks of its model           *)
(* (src/src/semantic/local.rs): the builder with its tables, the three     *)
(* ways to construct a provider, the download of a model, the prefixes and *)
(* the truncation of a text.  Inference is in LocalProvider.               *)
(*                                                                         *)
(* Models that share their rows in the tables are one model here: "bge",   *)
(* "arctic", "e5", "minilm", and one that no table knows.                  *)
(***************************************************************************)
EXTENDS Integers, SequencesExt

CONSTANTS
    Ids,            \* model ids that callers name
    Poolings,       \* strategies they ask for
    SeqLens,        \* caps on the sequence
    ThreadCounts,   \* and thread counts they ask for
    Lengths,        \* tokens a text may have
    DEFAULT_MAX_SEQ_LEN,
    MaxSetters,     \* bound on the setters called
    None

VARIABLES
    asked,          \* setters called so far: <<name, value>>
    builder,
    fetching,       \* candidates of the Hub tried so far; None if nothing is downloaded
    repo,           \* those that the repository has
    missed,         \* those of them whose download failed
    provider,       \* the provider, or Failed
    served          \* the last text that was embedded: what it asked for and what became of it

builderVars == <<asked, builder, fetching, repo, missed, provider, served>>

Failed == [failed |-> "error"]

-----------------------------------------------------------------------------
POOLING_TABLE == [bge |-> "Cls", e5 |-> "Mean", minilm |-> "Mean", arctic |-> "Cls"]
QUERY_PREFIXES == [bge |-> "represent", e5 |-> "query"]
DOC_PREFIXES == [e5 |-> "passage"]
ONNX_CANDIDATES == <<"onnx/model.onnx", "onnx/model_quantized.onnx", "model.onnx">>

\* What callers may ask for.
Settings ==
    {"model_id", "onnx_path", "tokenizer_path", "pooling", "query_prefix", "doc_prefix",
     "max_seq_len", "intra_threads"}
Wishes == Ids \cup Poolings \cup SeqLens \cup ThreadCounts \cup {"mine.onnx", "mine.json", "mine"}

ASSUME BuilderAssumption ==
    /\ SeqLens \subseteq Nat /\ ThreadCounts \subseteq Nat /\ Lengths \subseteq Nat
    /\ DEFAULT_MAX_SEQ_LEN \in Nat \ {0}
    /\ None \notin Nat /\ None \notin Ids /\ None \notin Poolings
    /\ None \notin {"mine.onnx", "mine.json", "mine"} \cup Range(ONNX_CANDIDATES)

PoolingFor(id) == IF id \in DOMAIN POOLING_TABLE THEN POOLING_TABLE[id] ELSE "Mean"
QueryPrefixFor(id) == IF id \in DOMAIN QUERY_PREFIXES THEN QUERY_PREFIXES[id] ELSE None
DocPrefixFor(id) == IF id \in DOMAIN DOC_PREFIXES THEN DOC_PREFIXES[id] ELSE None

NewBuilder ==
    [ model_id |-> None, onnx_path |-> None, tokenizer_path |-> None, pooling |-> None,
      query_prefix |-> None, doc_prefix |-> None,
      max_seq_len |-> DEFAULT_MAX_SEQ_LEN, intra_threads |-> None ]

AtLeastOne(n) == IF n < 1 THEN 1 ELSE n

BuilderInit ==
    /\ asked = << >> /\ builder = NewBuilder
    /\ fetching = None /\ repo = {} /\ missed = {}
    /\ provider = None /\ served = None

Building == provider = None /\ fetching = None

\* Every setter stores its value and leaves the rest alone.
Set(setter, value, stored) ==
    /\ Building /\ Len(asked) < MaxSetters
    /\ builder' = [builder EXCEPT ![setter] = stored]
    /\ asked' = Append(asked, <<setter, value>>)
    /\ UNCHANGED <<fetching, repo, missed, provider, served>>

\* Mutant of SetModelId: the tables of the model are looked up at once.
SetModelIdEagerly ==
    \E id \in Ids :
        /\ Building /\ Len(asked) < MaxSetters
        /\ builder' = [builder EXCEPT !.model_id = id, !.pooling = PoolingFor(id)]
        /\ asked' = Append(asked, <<"model_id", id>>)
        /\ UNCHANGED <<fetching, repo, missed, provider, served>>

SetModelId == \E id \in Ids : Set("model_id", id, id)
SetOnnxPath == Set("onnx_path", "mine.onnx", "mine.onnx")
SetTokenizerPath == Set("tokenizer_path", "mine.json", "mine.json")
SetPooling == \E p \in Poolings : Set("pooling", p, p)
SetQueryPrefix == Set("query_prefix", "mine", "mine")
SetDocPrefix == Set("doc_prefix", "mine", "mine")

\* Mutant of SetMaxSeqLen: as asked.
SetMaxSeqLenUnchecked == \E n \in SeqLens : Set("max_seq_len", n, n)

SetMaxSeqLen == \E n \in SeqLens : Set("max_seq_len", n, AtLeastOne(n))
SetIntraThreads == \E n \in ThreadCounts : Set("intra_threads", n, AtLeastOne(n))

OrElse(value, default) == IF value # None THEN value ELSE default

ModelIdOf(b) == OrElse(b.model_id, "local-onnx")

\* The provider that comes of builder b if its two files load.
Built(b) ==
    [ graph        |-> b.onnx_path,
      model_id     |-> ModelIdOf(b),
      pooling      |-> OrElse(b.pooling, PoolingFor(ModelIdOf(b))),
      query_prefix |-> OrElse(b.query_prefix, QueryPrefixFor(ModelIdOf(b))),
      doc_prefix   |-> OrElse(b.doc_prefix, DocPrefixFor(ModelIdOf(b))),
      max_seq_len  |-> b.max_seq_len ]

\* The session or the tokenizer may fail to load.
BuildOf(b) ==
    \/ b.onnx_path # None /\ b.tokenizer_path # None /\ provider' = Built(b)
    \/ provider' = Failed

BuildProvider ==
    /\ Building
    /\ BuildOf(builder)
    /\ UNCHANGED <<asked, builder, fetching, repo, missed, served>>

FromOnnx ==
    /\ Building /\ asked = << >>
    /\ \E p \in Poolings :
          /\ builder' = [NewBuilder EXCEPT !.onnx_path = "mine.onnx", !.tokenizer_path = "mine.json", !.pooling = p]
          /\ asked' = << <<"onnx_path", "mine.onnx">>, <<"tokenizer_path", "mine.json">>, <<"pooling", p>> >>
    /\ BuildOf(builder')
    /\ UNCHANGED <<fetching, repo, missed, served>>

\* from_pretrained: the Hub is reached or not.
FromPretrained ==
    /\ Building /\ asked = << >>
    /\ \/ /\ \E id \in Ids : asked' = << <<"model_id", id>> >>
          /\ repo' \in SUBSET Range(ONNX_CANDIDATES)
          /\ fetching' = 0 /\ UNCHANGED provider
       \/ provider' = Failed /\ UNCHANGED <<asked, fetching, repo>>
    /\ UNCHANGED <<builder, missed, served>>

\* repo.get of one candidate: obtained, or not though the repository has it, or not
\* because it has none; the code does not tell the last two apart.
Get(candidate) ==
    \/ candidate \in repo /\ builder' = [builder EXCEPT !.onnx_path = candidate] /\ UNCHANGED missed
    \/ candidate \in repo /\ missed' = missed \cup {candidate} /\ UNCHANGED builder
    \/ candidate \notin repo /\ UNCHANGED <<builder, missed>>

Fetching ==
    /\ provider = None /\ fetching # None /\ builder.onnx_path = None
    /\ fetching < Len(ONNX_CANDIDATES)

\* Mutant of Fetch: from the last candidate to the first.
FetchFromLast ==
    /\ Fetching
    /\ fetching' = fetching + 1 /\ Get(Reverse(ONNX_CANDIDATES)[fetching + 1])
    /\ UNCHANGED <<asked, repo, provider, served>>

Fetch ==
    /\ Fetching
    /\ fetching' = fetching + 1 /\ Get(ONNX_CANDIDATES[fetching + 1])
    /\ UNCHANGED <<asked, repo, provider, served>>

\* No graph or no tokenizer.json was obtained, or the provider is built from them.
FinishFetch ==
    /\ provider = None /\ fetching # None
    /\ \/ /\ builder.onnx_path # None
          /\ builder' = [builder EXCEPT !.model_id = asked[1][2], !.tokenizer_path = "tokenizer.json"]
          /\ BuildOf(builder')
       \/ /\ builder.onnx_path # None \/ fetching = Len(ONNX_CANDIDATES)
          /\ provider' = Failed /\ UNCHANGED builder
    /\ UNCHANGED <<asked, fetching, repo, missed, served>>

-----------------------------------------------------------------------------
Prefixed(prefix, input) == IF prefix = None THEN <<input>> ELSE <<prefix, input>>

\* Mutant of EmbedQuery: falls back to the prefix of documents.
EmbedQueryOrDocument(p, input) == Prefixed(OrElse(p.query_prefix, p.doc_prefix), input)

EmbedDocument(p, input) == Prefixed(p.doc_prefix, input)
EmbedQuery(p, input) == Prefixed(p.query_prefix, input)

\* ids.len().min(max_seq_len).
Taken(p, length) == IF length <= p.max_seq_len THEN length ELSE p.max_seq_len

\* A text that becomes so many tokens, embedded as a document or a query; embed is
\* embed_document.
Embed ==
    /\ provider # None /\ provider # Failed /\ served = None
    /\ \E side \in {"document", "query"}, length \in Lengths :
          served' = [ side   |-> side,
                      text   |-> IF side = "query" THEN EmbedQuery(provider, "input")
                                 ELSE EmbedDocument(provider, "input"),
                      length |-> length,
                      taken  |-> Taken(provider, length),
                      outcome |-> IF Taken(provider, length) = 0 THEN Failed
                                  ELSE [model |-> provider.model_id, pooling |-> provider.pooling] ]
    /\ UNCHANGED <<asked, builder, fetching, repo, missed, provider>>

BuilderNext ==
    \/ SetModelId \/ SetOnnxPath \/ SetTokenizerPath \/ SetPooling \/ SetQueryPrefix
    \/ SetDocPrefix \/ SetMaxSeqLen \/ SetIntraThreads
    \/ BuildProvider \/ FromOnnx \/ FromPretrained \/ Fetch \/ FinishFetch \/ Embed

BuilderSpec == BuilderInit /\ [][BuilderNext]_builderVars

-----------------------------------------------------------------------------
\* What the last of the calls of a setter asked for.
LastIn(calls, setter, default) ==
    LET places == {i \in DOMAIN calls : calls[i][1] = setter}
    IN  IF places = {} THEN default ELSE calls[Max(places)][2]

LastAsked(setter, default) == LastIn(asked, setter, default)

AskedId == LastAsked("model_id", "local-onnx")

(* What a caller asked for last is what an embedding is made with, in whatever order
   the setters were called; what was left open is decided by the model named in the
   end, also when it was named last (local.rs:162-236). *)
MadeAsAsked ==
    served # None /\ served.outcome # Failed =>
        /\ served.outcome.model = AskedId
        /\ served.outcome.pooling = LastAsked("pooling", PoolingFor(AskedId))
        /\ fetching = None => provider.graph = LastAsked("onnx_path", None)

(* Each side has its own prefix, once and in front: a model without a prefix for a
   side gets the bare text there, so that documents and queries of a model without
   prefixes are the same texts (local.rs:399-434). *)
SidesKeptApart ==
    served # None =>
        LET prefix == IF served.side = "query"
                      THEN LastAsked("query_prefix", QueryPrefixFor(AskedId))
                      ELSE LastAsked("doc_prefix", DocPrefixFor(AskedId))
        IN  served.text = (IF prefix = None THEN << >> ELSE <<prefix>>) \o <<"input">>

(* Truncation keeps a text within the cap and never makes an empty one of it: a text
   is refused as empty only if the tokenizer found nothing in it, whatever cap was
   asked for (local.rs:198-203, 446-458). *)
NeverCutToNothing ==
    LET cap == AtLeastOne(LastAsked("max_seq_len", DEFAULT_MAX_SEQ_LEN))
    IN  served # None =>
            /\ served.outcome = Failed <=> served.length = 0
            /\ served.taken <= cap
            /\ served.taken < served.length => served.taken = cap

(* The graph of a downloaded provider is the first of the candidates the repository
   has, unless downloads failed: one of lower priority under the same model id is the
   price of a failed download and of nothing else (local.rs:342-348). *)
FirstCandidateLoads ==
    fetching # None /\ builder.onnx_path # None =>
        \E i \in DOMAIN ONNX_CANDIDATES :
            /\ builder.onnx_path = ONNX_CANDIDATES[i] /\ ONNX_CANDIDATES[i] \in repo
            /\ repo \cap {ONNX_CANDIDATES[j] : j \in 1 .. i - 1} \subseteq missed

\* A text is embedded by the graph and with the model's id, the pooling, the prefix and
\* the cap that were asked for last.
ServedAsAsked == MadeAsAsked /\ SidesKeptApart /\ NeverCutToNothing /\ FirstCandidateLoads
=============================================================================
