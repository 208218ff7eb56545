# txtfp: TLA+ models, checks and proofs

txtfp is a Rust library that turns text into fingerprints and finds near duplicates.  A
document passes through a pipeline of pure stages (markup removal, canonicalization,
tokenization, sketching); signatures are then kept in a banded LSH index.  Beside the
pipeline stand two streaming front ends, a chunker for embedding models and a provider
that runs an ONNX model for many threads.  The index, the streams, the chunker and the
provider hold the library's state, its concurrency and most of its error handling; the
pipeline decides what a fingerprint means.  Both are modelled, down to the leaf
functions and the comparison of what the pipeline makes.

Paths below are relative to the crate's own `src/` (`src/src/` in `PROJECT.json`).

## Inventory

| Component | State | Operations | What is hard | Correct means |
|---|---|---|---|---|
| **LshIndex** `classical/lsh/index.rs` | one hash table per band (key of a row slice to a list of ids), a map from id to signature | `insert`, `remove`, `extend_par`, `try_extend_par` (a rayon worker per band), `query`, `query_with_threshold` | two structures that must agree across replacement, removal and bulk calls; bulk calls whose contract is only asserted in debug builds; collisions of the band hash | no stored document is lost to a lookup, a removed one leaves nothing, misuse stays with the misused ids, a search answers what a scan answers |
| **LshBuilder** `classical/lsh/builder.rs` | bands, rows | `new`, `for_threshold`, `build`, `try_build` | overflow of the product, float ties | the partition covers the signature exactly |
| **Streaming** `classical/utf8_stream.rs`, `streaming.rs` of MinHash and SimHash | validated bytes, a carry of up to three bytes, a cap, the wrapped fingerprinter | `into_streaming`, `update`, `finalize`, `reset`, `with_max_bytes` | characters cut by chunk borders, errors with a character in flight, the cap, text that canonicalizes to nothing | a stream is judged as one text however it is cut, a refused chunk leaves no trace, its fingerprint is the offline one |
| **Chunking** `semantic/chunk.rs` | none between calls; an open chunk within one | `chunk_for_model` in three modes | overlap seeds, the fallbacks from paragraph to sentence to window | no word lost, moved or repeated beyond the overlap; the cap |
| **LocalProvider** `semantic/local.rs` | a builder, a download under way, an ONNX session behind a mutex, the advertised dimension | `embed_document`, `embed_query`, `embed`, the setters, `build`, `from_onnx`, `from_pretrained` | threads, early returns and panics while the guard is held, output selection; setters in any order, tables looked up by a model named late, downloads that fail | one inference at a time, a poisoned session never used, every call returns, dimensions agree, what serves is what was asked for last |
| **Canonicalizer** `canonical/` | configuration | `canonicalize`, `canonicalize_into` | fast paths against the full pipeline, order of the stages | fast = slow, idempotent |
| **MinHash** `classical/minhash/fingerprinter.rs`, `jaccard.rs` | configuration; H running minima within a sketch | `fingerprint`, `jaccard` | wrapping arithmetic, an accumulator that is read while it is lowered | depends on the set of shingles only |
| **Signature codec** `classical/minhash/sig.rs` | none | `as_bytes`, `from_bytes`, serde as a map or a tuple | signatures outlive the build that wrote them; alignment; lost tails | what loads is what was written, under the schema it was written in |
| **SimHash** `classical/simhash/` | configuration; 64 counters within a sketch | `fingerprint`, `hamming` | saturation, hash-map order | the same document gives the same sketch |
| **Tokenizers** `tokenize/` | a lazily built dictionary (CJK) | `tokens`, `for_each_token` | two implementations of each tokenizer, filters between library and caller | both yield the same tokens |
| **Hashing** `classical/hash.rs` | none | `hash128` | blocks, a tail of any length, zero bytes at the end | nothing of the key is left out or taken twice |
| **Fingerprint** `fingerprint.rs` and the builders | a builder, metadata stored with a fingerprint | `config_hash`, `metadata`, `metadata_with`, `with_config_hash`, `name` | three routes to metadata, setters before and after `build`, strings joined by separators | records compare exactly when what made them agrees |
| **TLSH** `classical/tlsh.rs` | a hash string in a public field | `fingerprint`, `sketch_bytes`, `new`, `tlsh_distance` | a length that counts before or after canonicalization, a string written by someone else | what is made can be compared |
| **Markup** `markup/` | scanner position, two flags | `html_to_text`, `markdown_to_text_with` | unclosed and look-alike tags | no script text survives, no other text is dropped |
| **Pooling, similarity** `semantic/` | none | `apply`, `with_model`, `normalize`, `dot`, `semantic_similarity` | masks shorter and longer than the text, values that are not finite, zero and overflowing norms | padding does not show, refuses what cannot be compared |

How they interact.  `MinHashFingerprinter` calls the canonicalizer and hands each token
to a closure that lowers the minima; the streaming variants own a fingerprinter and a
`Utf8StreamBuffer`, and on `finalize` give it the text they collected, so the offline
sketch is the meaning of the stream.  `LshIndex` takes finished signatures by reference.
Its methods that change it take `&mut self`: the only concurrency is inside a bulk call,
where each worker owns one band's table and all read the batch.  `LocalProvider` is an
`Arc`; its clones meet at the session mutex only.  Nothing is persisted and nothing goes
over a network except the one-time model download, so there is no crash recovery of data
and no message loss; the only failure that outlives a call is a poisoned mutex.

Every hazard we know of is listed with its line in `PROJECT.json`, with the properties
that cover it.

## Plan

Most important behaviour first; all but the last point is done.

1. `SignatureStore` (abstract), `LshIndex`, `LshIndexRefinement`: the index.
2. `TextStream` (abstract), `Utf8`, `Utf8Stream`, `Streamers`: streaming.
3. `Chunking`: the chunker.
4. `LocalProvider`, `ProviderService` (abstract), `ProviderBuilder`: the provider.
5. `MinHash`, `SimHash`, `SimHash64`, `SignatureCodec`: sketches and their storage.
6. `Unicode`, `Canonicalizer`: short cuts against the full pipeline.
7. `LshBuilder`, `Shingles`, `Tokenizers`: partition and tokenizers.
8. `HtmlStrip`, `MarkdownText`: the two markup scanners.
9. `Pooling`, `ConfigHash`, `Tlsh`, `Murmur3`: comparison and the leaf functions.
10. A composition of `MinHash` and `LshIndex` in which a document inserted under its
   sketch is found by every document with the same set of shingles.  Not written: it is
   `OrderDoesNotMatter` (the same set has the same sketch) followed by `SureRecall` (a
   signature that matches in all slots is above every threshold), and adds no step of
   the code to the two.

The proofs come in eight modules: `LshIndexProofs`, `Utf8StreamProofs`,
`LocalProviderProofs`, `SketchProofs`, `SignatureProofs`, `TextProofs`, `MarkupProofs`
and `ChunkingProofs`.

## Modules

| Module | Role |
|---|---|
| `LshIndex` | the index: one action per call, and the bulk calls step by step |
| `SignatureStore` | what the index promises: a map whose searches read the map itself |
| `LshIndexRefinement` | the mapping from the one to the other |
| `LshIndexProofs` | the theorems about the index |
| `Utf8` | the validator of the standard library over classes of bytes (external) |
| `Utf8Stream` / `TextStream` | the streaming buffer / one byte string judged in one piece |
| `Streamers` | the two streaming fingerprinters around the buffer, next to the offline ones |
| `Utf8StreamProofs` | where a validated text may be cut, the refinement, the theorems of the streamers |
| `Chunking` / `ChunkingProofs` | the chunker, a pure function called once / its theorems |
| `LocalProvider` | threads that share one provider |
| `ProviderService` / `LocalProviderRefinement` | what a provider promises the threads that share it / the mapping to it |
| `LocalProviderProofs` | the theorems about the provider, its set-up and pooling |
| `ProviderBuilder` | setters, construction, download, prefixes and truncation |
| `Pooling` | from hidden states to an embedding and its comparison |
| `MinHash` | one sketch, token by token and slot by slot |
| `SimHash` | one sketch under the three weightings |
| `SimHash64` | a SimHash stored, loaded and compared |
| `SignatureCodec` | a MinHash stored and loaded, possibly by another build |
| `Murmur3` | how the hash takes a key in |
| `Tlsh` | TLSH fingerprints made, parsed, overwritten and compared |
| `SketchProofs` | the theorems about `MinHash`, `SimHash`, `SimHash64`, `Tlsh`, `Murmur3` and `ConfigHash` |
| `ConfigHash` | configurations, what is stored of them, and which records compare |
| `Unicode` | normal forms, fold and skeleton on a closed alphabet (external) |
| `Canonicalizer` | the pipeline, its short cuts and its buffer |
| `LshBuilder` | choosing and checking a partition |
| `SignatureProofs` | the theorems about `LshBuilder` and `SignatureCodec` |
| `Shingles` | the two implementations of the shingle tokenizer |
| `Tokenizers` | the tokenizers that rest on a library, and the stream they share |
| `TextProofs` | the theorems about `Canonicalizer`, `Shingles` and `Tokenizers` |
| `HtmlStrip` | the scanner that cuts script and style regions out of HTML |
| `MarkdownText` | the fold over the Markdown parser's events |
| `MarkupProofs` | the theorems about both |
| `MC*` | bounded instances; `MCSketches`, `MCFingerprints`, `MCSemantic` and `MCParts` hold several parts that share nothing, of which one runs (`active`, `part`) and the others rest |

### LshIndex

`sigs` and `tables` are the code's fields.  A bucket is a multiset: its order is lost
when `query` sorts, its multiplicities matter to `scrub_bands`.  `Insert` is the whole
of `insert`: scrub of the replaced signature if there is one, one push per band, the
entry in `sigs`.  `Remove` scrubs and erases.  A bulk call starts with `ExtendPar` or
`TryExtendPar` (which hold the whole validation), fills `sigs` item by item (`Fill`),
lets each band's worker file the batch (`FileItem(b)`, in any interleaving) and returns
(`Join`).  `extend_par` on stored ids is rejected by a `debug_assert!` only, so with
`DebugAssertions = FALSE`, the release build, it goes ahead and the model follows it
into the damage.  Two history variables are not in the code: `visible` (the signatures
as last readable; a caller of a bulk call holds `&mut self`) and `tainted` (the ids for
which the contract was broken). A query is an operator: it changes nothing.  `xxh3_64`
is the constant `Hash`, with collisions.  A threshold is the number of matching slots
that reaches it.

### Utf8Stream

Bytes are the classes that the validator's table tells apart, so that surrogates,
overlong forms and code points above the maximum are covered by the restricted second
bytes.  `Update` is `BufferedStream::update`: the cap check that counts the carry, the
fast path when no carry is pending, the slow path that joins carry and chunk. `Finalize`
consumes the streamer; `New` stands for the next one.

`Streamers` wraps the same buffer for both fingerprinters: its actions are those of the
buffer with what the wrapper adds, the default cap and, in `StreamFinalize`, the sketch
of the collected text after canonicalization.  `Fingerprint` is the offline route beside
it.  `accepted` is history, the chunks that `update` took; `StreamedIsOffline` compares
what was returned with the fingerprint of the accepted bytes. A fingerprint is what it
depends on, the set of tokens or how often each occurs.

Canonicalizer and word tokenizer are reduced to what they do to the texts of this run:
its bytes stand for small letters, U+0085, code points without a character and U+061C,
of which the default canonicalizer drops the last and changes nothing else, and words
are the longest runs of letters.  Both routes use the same reduced stages, so the run
tests the buffer, the order of the stages and the checks between them, and says nothing
about the stages; those are the modules `Canonicalizer` and `Tokenizers`.

### Chunking

A text is a sequence of word numbers, 0 being any text that is not a word. `Pack` is the
packing loop that `sentence_chunks` and `recursive_chunks` share but for the piece and
the splitter.  `UnicodeSentences` is the iterator of that name, which passes over
sentences without anything alphanumeric; marks so survive only beside words in their
sentence or in a paragraph that is packed whole.  `Seed` is `apply_overlap`.  The estimate `1.3 * words` in f32 is modelled
by exact quotients, with which it agrees at the sizes used; very large inputs, where f32
rounds, are outside the model.

### LocalProvider

A call moves through `encode`, `lock`, `infer`, `pool` and `build`.  Every early return
that the code takes while the guard is alive is a `Fail`, which drops the guard; a panic
in the runtime is an `Unwind`, which drops and poisons.  A graph is the names of its
inputs and its ordered outputs; `InferHiddenDim` and `ChosenOutput` are the two rules by
which the code reads them.  Two things are assumed of the runtime, which is not under
`src/`: a rank-2 output has one row, as the input batch does, and the width of an output
is that of the loaded graph at every call.  `ProviderService` is the provider without
mutex and session: a call takes effect at one instant (`Serve`), is refused (`Refuse`)
or panics (`Break`), and after a panic only refusals are left.

`ProviderBuilder` is the way to such a provider.  Each setter is an action; `asked`
remembers the values given, so that the properties need not look into the builder.
`BuildProvider` and `FromOnnx` are the two other ways to construct one. `FromPretrained`, `Fetch` and `FinishFetch` are the download, in which any candidate may
be missing or fail.  `repo` and `missed` tell the two apart, which the code does not.
`Embed` is what a call does before and after inference: the prefix, the truncation and
the refusal of a text without tokens.

### Pooling

`Apply` is the four strategies with the mask, `PoolOutput` the two cases of `run`,
`EmbedVector` is `with_model`, `Normalize` `normalize`, and `Compare`
`semantic_similarity`.  A float is an integer up to
`MaxFloat`, or one of `Inf`, `NegInf` and `NaN`, with the sums and comparisons IEEE
defines for them; a mean keeps its count and a unit vector its direction, so that no
quotient or root has to be taken. Rounding, underflow and denormal norms are outside.

### MinHash

`Take` is the closure's call with a token: one hash, whose halves are the constants `Lo`
and `Hi` (any functions, so collisions are included).  `Lower` is one turn of the slot
loop: the slot's minimum, then the wrapping addition that leads to the next slot's hash.
`Finish` is the check for an empty document.  Canonicalizer and tokenizer are outside; a
document is its sequence of tokens.  The module header of `minhash/mod.rs` (lines 5-6)
gives another formula for the slot hashes than the code and the comment beside it; the
model follows the code.

### SimHash

`Streaming` adds each occurrence at once (`Tf`).  `Count` fills the deduplicating map,
and `AddDistinct(t)` adds its entries in any order, since a hash map promises none. Sums
saturate at `MaxSum`.  An IDF value is a fixed-point number in units of `1 / One`; a
value that is not finite is a constant of its own.  The product is exact where the
code's has an f32's precision.

### SignatureCodec

`cell` is what is stored: the bytes of the struct, a map or a tuple.  `LoseTail` and
`RewriteFields` are what storage may do in between.  `FromBytes`, `VisitMap` and
`VisitTuple` are the three ways to load; whether the bytes lie aligned, and whether the
format refuses elements that were not read, is not known to the code and so a choice.

`SimHash64` is the same for a SimHash, a word as the set of its bits, with `hamming` and
the angle whose cosine `cosine_estimate` takes.

### Murmur3, Tlsh and ConfigHash

A word of `Murmur3` is the term of the mixing steps that made it, each of which can be
undone, so two keys have equal digests exactly when the code mixes the same bytes into
the same places.  Whether different terms have the same 64 bits is chance and is left to
the reference vectors of the tests.  `Tlsh` has the three ways to a fingerprint, the
write to its public field (`Tamper`) and the distance.  `ConfigHash` lets a caller set
up a fingerprinter by `new` or a builder and any setters, store one of the three records
the API offers (`metadata`, with `with_config_hash`, `metadata_with`), set up another
and compare them; strings are joined as in the code, and only xxh3 is taken to be
injective.  The tokenizers are the crate's own, in shingle adaptors nested to any depth;
a tokenizer of a user's, which may call itself anything, is outside.

### Canonicalizer

`Stripped`, `NormalForm`, `Fold` and `Confusable` are the stages in the order of
`canonicalize_into`; `CanonicalizeInto` adds the clearing of the buffer and the two
short cuts.  A behaviour canonicalizes a text into a used buffer (`Canonicalize`) and
then the result into the buffer the text was in (`CanonicalizeResult`), so that
idempotence is a statement about two steps.  Unicode's tables and algorithms are
external: the canonical ordering and composition are modelled in full, the tables on
fifteen characters that are closed under them.  The `security` feature is on.  `LRM` and
the like behave as `rlo` does.

### LshBuilder, Shingles and Tokenizers

`ForThreshold` starts the search, `Try` looks at one number of bands, `Choose` ends it.
The error integrals are an arbitrary function of the factor pair, whose values may tie
or not compare at all.  `TryBuild` is the check in `with_bands_rows`, where a product
beyond the machine word is refused; `build` panics where `try_build` fails. `Windows` is
`tokens`; `Collect`, `EmitAll` and `EmitWindow` are `for_each_token`, with its flat
buffer, its ranges and the buffer each shingle is written to. `Tokenizers` walks a text
segment by segment (`ForEachWord`, `ForEachGrapheme`, `ForEachCjk`, and `ForEachDefault`
for a tokenizer without a walk of its own); `TokensOf` is the stream. Which segments a
library cuts a text into is any sequence, empty segments included, since the code
filters them.

### HtmlStrip and MarkdownText

A page is a sequence of lexemes, the four patterns the scanner compares with and the
characters it treats on their own; what it writes is positions of the page.  `Skip` and
`DropRegion` are the two outcomes of a turn of the loop, and `Return` hands back the
page itself if nothing was dropped. The properties do not use the scanner's operators:
they say, position by position, what a region is.  The Markdown fold has an action per
arm of the `match`, with the arms that do the same taken together.  The start of a code
block is no break in the code: text that stands directly before it, as in a tight list
item, runs on into it, and `WordsKeptApart` says so.

## Runs

| Run | Question | Bounds | Result |
|---|---|---|---|
| `lsh_index` | the index under every mix and interleaving of calls | 2 ids, 3 signatures of 4 slots, 2 bands of 2 rows, two of them colliding in one band, batches of up to 2 | passes, 268,704 states |
| `utf8_stream` | is a stream judged as one text, and fingerprinted as one? | 8 byte classes, chunks of up to 3 bytes, caps 3 and 5 | passes, 8,566 states |
| `semantic` | chunker, pooling and comparison, set-up of a provider: each alone | below | passes, 620,036 states |
| `chunking_cap` | does no chunk exceed the cap, as the comments say? | the chunker of `semantic` | violated |
| `local_provider` | mutex, poisoning, returns, dimensions; can threads tell the calls apart from single instants? | 2 threads, 2 calls each, 32 graphs | passes, 11,920 states |
| `local_dimension` | does the dimension match every embedding, as the trait demands? | 1 thread, graphs with fixed widths | violated |
| `sketches` | what do MinHash and SimHash depend on?  Tokenizers, hash, stored SimHash, TLSH and configuration: each alone | below | passes, 187,608 states |
| `simhash_weights` | is a weight TF times IDF, as the fingerprinter says? | the sketchers of `sketches` | violated |
| `parts` | builder, tokenizer, codec, canonicalizer, markup: each alone | below | passes, 203,989 states |
| `codec_schema` | does every route refuse another schema, as the design document says? | as `parts` | violated |
| `codec_alignment` | does `from_bytes` return one of its documented results? | as `parts` | violated |
| `canonical_skeleton` | does the pipeline with the skeleton stabilize, as its test says? | as `parts` | violated |

Why the bounds are enough.

* *Index*: two ids are one that is misused and one that must not suffer; of the
  three signatures the first two share a band, and the last two share half of their slots
  and no band, but are filed together in one by a collision of the hash; a batch of two can repeat an id or mix a stored id with a
  fresh one, and two workers interleave in all ways. `MaxCopies` only stops bulk calls
  once misuse has listed an id twice under one key.
* *Streaming*: a character has at most four bytes, and chunks of up to three bytes cut
  one in every way, with a cap that falls inside a character.  A byte that belongs to no
  text (FF) starts and continues nothing, as bytes of the run already do.
* *Chunking*: documents of up to four sentences of five kinds in every division into
  paragraphs; the caps lie below one word, at one, two, three and five words, so that
  every piece kind both fits and overflows somewhere; the overlaps are none, smaller and
  larger than the cap.
* *Pooling*: the values overflow when three are added or one is squared, infinities and
  NaN stand in tokens that count and in tokens that do not, and masks have up to three
  entries where texts have up to three tokens, so that a mask is cut off, full and too
  long.
* *Set-up*: three families of models, one in both tables, one with a query prefix only
  and one in none; four setters in any order, which suffices for any two to be called
  again around each other; every set of missing and failing downloads; caps of zero and
  two under texts of none, one and three tokens.
* *Sketches*: words of two bits, three slots, documents of up to three tokens; three
  tokens of four bits, documents of up to four and seven IDF tables. With one token for
  every pair of two-bit halves the documents cover every hash function, and most chains
  wrap; the clamp and the saturation of SimHash are a few units away, and its three
  tokens disagree on each bit differently.
* *Around the sketches*: texts of four segments put every kind beside every other; keys
  of up to six bytes with lanes of two have no or one block and every length of tail,
  with zero bytes in every place; a SimHash has two bytes of two bits and is cut and
  extended; TLSH texts lie on both sides of the minimum before and after
  canonicalization, and strings around the length of a hash; configurations differ from
  the default in one step of the canonicalizer or in the tokenizer (six each), nested
  shingles among them, in H, seed, family and weighting, with two setters.
* *Parts*: the builder is asked for widths up to seven, primes and one with four
  divisors, with every assignment of errors, for words of three bits so that products
  wrap to the width; documents of up to four strings and k from 0 to 5 include every
  relation of the two; the loading build has two slots, the writing ones one to three;
  texts of three characters are enough for a letter and two marks, and for two marks
  with an invisible character between them, and are taken under all 48 configurations;
  pages of four lexemes nest, mix and leave open both kinds of region, and those of six
  that begin with a script hold a closing tag with white space and text after it;
  Markdown documents of five events are a code block with text inside and on both sides,
  or three texts with breaks between.
* *Provider*: two threads of two calls each over 32 graphs; one thread panics or holds
  the guard while the other waits; the graphs contain each case of both selection rules
  and of every refusal.

`ChunksCover` says both that no word is lost and that no chunk is empty, and
`VariantsAgree` that invisible characters and spellings make no difference.
`ServedAsAsked` joins the four properties of `ProviderBuilder` (`MadeAsAsked`,
`SidesKeptApart`, `NeverCutToNothing`, `FirstCandidateLoads`), `EmbeddingsSound` and
`SimilaritySound` are those of `Pooling`, `TokensAgree` the two of `Tokenizers`,
`TlshSound` the two of `Tlsh`, `LoadsOrRefuses` those of `SimHash64`, `ThresholdChoice` two of `LshBuilder` and
`ComparableIffAlike` those of `ConfigHash`.

The runs `semantic`, `sketches` and `parts` do not check deadlock, since the calls they
model end; nor does the provider's, where the calls are bounded.

### What the violated runs show

* `chunking_cap`: a seed and a piece that each fit may not fit together, and the code
  does not check again after seeding.  `ChunksKeepCap` is what the code does keep.
* `local_dimension`: the dimension comes from the first output with a fixed width, the
  embedding from the output preferred by name.  With token embeddings first and a
  projected sentence embedding second they differ.
* `simhash_weights`: the product of TF and IDF is cast to an integer, so a token whose
  IDF is below one has no weight until it occurs often enough.  `ExactBelowSaturation`
  says what is computed instead.
* `codec_schema`: both serde visitors keep whatever schema they read; only `from_bytes`
  compares it (`BytesGuardSchema`).
* `codec_alignment`: `bytemuck::cast_slice` panics on bytes that do not lie on a
  multiple of eight, as a column inside a larger buffer may.
* `canonical_skeleton`: the prototype of the digit zero is the capital O, which is
  folded only by the next call.  Without the skeleton `Idempotent` holds for every
  configuration.

Other statements we compared with the code have no run of their own:

* That a threshold query returns what a full scan returns (`tests/property_lsh.rs`)
  holds only statistically.  With two bands of two rows a signature that agrees in two
  slots of different bands is never a candidate at threshold 0.5.  What is certain,
  above H - bands matching slots, is `AgreesWithScan`.
* `metadata_with`, "the recommended path" (`fingerprint.rs:275-278`), has no parameter
  for hash family and seed, so it stores the same record for fingerprinters that hash
  differently, which `with_config_hash` does not.  `ComparableIffAlike` says for each
  route what its records tell apart.
* A cosine lies between -1 and 1 only if neither norm overflows (`SimilaritySound` says
  so).
* `from_onnx` names no model, so that all self-hosted models share the id `local-onnx`,
  and the comparison of models by id cannot tell them apart.
* A failed download is passed over like a missing file (`local.rs:342-348`), so a
  provider may hold a quantized graph under the same id (`FirstCandidateLoads`).

### Fairness

All parts but the provider are called by their user and promise nothing about time;
their specifications have no fairness.  In `LocalProvider` a thread that has started a
call takes its next step eventually (weak fairness of each thread's steps): the
operating system schedules it and inference ends.  No fairness of the mutex is assumed.
Starvation behind it is excluded by the bounded number of calls only: `EveryCallReturns`
shows that no path keeps the guard, not that the mutex is fair.

## Proofs

The theorems hold for every value of the constants that satisfies the assumptions named
in the modules (`LshAssumption`, `PoolingAssumption` and so on).  These say what type a
parameter has and what the code takes for granted: that the rows of an output have one
width, that the words of a document are numbered from one, that a segment with the same
text is of the same kind, that a unit vector has a norm.

Most properties speak of what a finished computation returned, and none of those is
inductive: what is missing is always where the computation stands and what it has made
so far.  The inductive invariants below say that.

*Invariance of the index* (`LshIndexProofs`).  `Complete` and `DamageConfined` are not
inductive: while a bulk call runs, `sigs` is ahead of the tables.  The inductive
invariant `IInv` adds `InFlight`: the workers start after the fill, what is filled is
stored, and an item of an id that is not misused is the only one for its id.  With it
`Complete` accepts, for an id not yet filed, the very item that a worker has still in
front of it. The lemmas `PushEffect`, `ScrubEffect` and `ScrubBandsEffect` say what
happens to the number of copies of each id under each key; each action's lemma then has
a step per conjunct.  From `Invariance` follow `TypeCorrect`, `NothingLost`,
`MisuseConfined` and `MemoryReclaimed`.

*Search and refinement* (`LshIndexProofs`).  `SharedBand` is the pigeonhole: if fewer
slots differ than there are bands, some band agrees in full (otherwise each band yields
a differing slot, an injection of the bands into the differing slots). With `Complete`,
`SearchIsScan` follows, and so does `SureRecall`.  For the refinement an accepted bulk
call is a `Submit` when it begins and one `PutAll` when it returns (`Join`), so that no
batch can be dropped, and a `Submit` of `try_extend_par` has no stored id in any
position, which makes the validation part of what is refined; `Merging` relates `sigs` to `visible` and the items filled so far.
`Refinement` is `Spec => ImplementsStore`.

*Streams* (`Utf8StreamProofs`).  The validator is a function that gives the state after
every byte of a text, defined by recursion on the position.  Its laws need induction
over a text's length, for which the library's theorem cannot be used; `SetInduction`
proves it anew for a set in place of an operator, from the least element of what is left
out.  `StatesExist` to `StatesOfPrefix` say that the states of a text are those of its
parts one after the other; `Cut` and `BehindText` that a text with a valid beginning is
valid exactly if the rest is; `ShortTail` that what is not yet a character has at most
three bytes.  From them `SInv` is inductive: the buffer is valid UTF-8 and the carry the
beginning of one character; `OfflineInv` adds that a live stream holds the accepted
bytes and that what was returned is the offline fingerprint. `AlwaysWellSplit`,
`StreamRefinement` (`TextStream` is implemented, so a stream is judged as one text) and
`StreamIsOffline` follow for chunks and caps of any size, and `StreamerKeepsBufferLaws`
says that the theorems about the buffer hold of the streamers.

*Chunking* (`ChunkingProofs`).  A chunker is one step, so its invariant `CInv` says only
that the result is that of the caller's document; the work is in what the recursive
function computes.  `Laid` describes a list of chunks by two rows of numbers, where each
chunk begins and ends in the numbered words: `lo` is the first word of its seed and `hi`
its last word, and `Says` that there is a word between them, unless paragraphs are packed.
`Open` says the same of the packing loop with its chunk still open.
`PackedPiece` shows that a turn of the loop keeps `Open`, whether the piece is appended,
closes the chunk and seeds the next, or is too long and goes to the splitter, of which
`Packed` assumes only that its chunks are `Chunked`.  So the three modes compose:
windows (`FixedChunked`, where the last window ends at the last word), sentences over
windows, paragraphs over sentences; `SentencesKeepWords` says that no word is in a
sentence that is passed over.  `CeilTimes` and `SeedBounds` are the token estimate
and the seed in words.  `NoWordIsLost` and `CapUpToSeed` follow from the two rows.  The
estimate in f32 equals the exact quotient `13 * words / 10` for texts of less than about
a million words; the theorems are about the quotient.

*Provider* (`LocalProviderProofs`).  `Serialized` is not inductive without the types;
with them (`PIInv`) each action keeps it.  `MutualExclusion` holds for any set of
threads, any number of calls and any graphs; `PoisonFinal` is the action property from
the same invariant. `DimensionAsAdvertised` adds to it, in `DIInv`, that what a thread
carries between inference and return came of the loaded graph: where both rules for
reading a graph choose the same output, every embedding has the advertised dimension.
`ServesOneAtATime` is the refinement: a call's instant is when its vector has been
pooled and the guard dropped.  That `Serve` finds the service not condemned at that
instant, although the code looked at the mutex when it locked it, is what mutual
exclusion gives (a thread inside keeps every other from panicking); `RfInv` adds the
width a thread carries to its embedding, and `ChosenIsOutput` that it is one of the
graph's.

*Set-up* (`LocalProviderProofs`).  `BInv` says that each field of the builder holds the
last value asked for (`Answers`), with `LastOfLonger` for what one more setter does to
that, and that a provider is built from such a builder, in whatever order the setters
came.  While a download runs, `Downloaded` says that every candidate tried before was
missing from the repository or failed.  `ProviderServesAsAsked` follows.

*Pooling and similarity* (`LocalProviderProofs`).  `PoInv` says that the pooled vector
and the embedding are what the inputs make them.  `SumIs` and `BestTyped` are the two
accumulating loops; `FiniteSum` says that a sum that is finite at its end was finite at
every step, since `Plus` never leads back from infinity or NaN, so `EmbeddingIsSound`:
a mean that passes the check was made of finite values only.  `KeptIsCounting`
says that the rows a mask keeps are those of the counting tokens in their order, and
`PaddingIsInvisible` that the embedding depends on nothing else.  `CauchySchwarz` is
proved by induction over the entries, from the square of a difference, and gives
`SimilarityIsSound`: a cosine lies between -1 and 1 where no norm overflows.  Rounding
is not modelled, so in the code this holds up to it.

*MinHash* (`SketchProofs`).  The word size, the number of slots, the documents and the
two halves of the hash are arbitrary.  `SlotsAreMinima` needs the chain's value, and
that needs to know which slot is next, so the inductive invariant joins `TypeOK`,
`WalkIsChain`, `SlotsAreMinima` and `Progress` (a sketch is returned only after the last
token's last slot). `RemainderUnique` and `ModAdd` carry the wrapping addition over to
remainders, and `NextHash` concludes that one more addition is the hash of the next
slot. `OrderDoesNotMatter` follows: the signature is a function of the set of tokens.

*SimHash* (`SketchProofs`).  Sums over a set of tokens are summed up along any
enumeration (`SumLaws`, `SumStep`).  `SimInv` has two conjuncts about each counter: one
for documents whose weights fit (`Balanced`: the counter and what is still to come make
the exact sum, and the counter cannot have left the range on the way), and one that
holds even when sums saturate (`Leaning`: no token pulls the counter across zero against
the others).  The two are `ExactSums` and `SignsSurvive`, for any order of the map.

*Stored SimHash and TLSH* (`SketchProofs`).  `StInv`: bytes of the right number are
those of the signature, by `BytesHoldTheWord`, which recovers every bit from its byte
and place for words and bytes of any size.  `TlInv`: a fingerprint nobody wrote into is
a string that `tlsh2` reads, which is why a distance between two of them never fails.

*Hash* (`SketchProofs`).  Two digests that share a half are taken apart from the end:
`FinalizeTells` gives the states before the length went in, `XorWordTells` (a word mixed
in can be told from what was there before, as no two lanes go into a state in a row)
the length and the words of the tail, and `BodyTells`, by induction over the blocks, the
seed and every lane.  `WordTellsBytes` says that bytes of the same number make the same
word only if they are the same, and `LaneOf` that every place before the tail lies in a
lane, so the keys are the same: `NoByteIsLeftOut`, for keys of any length.

*Codec* (`SignatureProofs`).  `WhatLoadsWasWritten` does not speak of what is stored;
`CInv` adds that the stored bytes, map or tuple is a rest of what was written, with the
fields of a map in some order.  It is inductive for any number of slots of the writing
and the loading build (`LoadedWasWritten`, `LoadsItsOwn`).

*Builder of the index* (`SignatureProofs`).  `Searched` says of the numbers tried so far
that none that divides the width beats the best, nor equals it with fewer bands; `Built`
carries that to the finished builder.  With `TypeOK` they are inductive, and `Quotient`
gives the rows.  `ThresholdChooses` and `BandsPartition` hold for any
width, word size and errors.

*Tokenizers* (`TextProofs`).  `ShInv`: the ranges collected so far locate the inner
tokens in the flat buffer (`Located`), and the shingles emitted so far are the first of
the windows; so the fast path and `tokens` agree for documents and `k` of any size
(`PathsAgree`).  `TkInv`: a walk has emitted what was kept of the segments it has come
to, and of the stream's tokens none is blank and the graphemes leave out nothing
(`TokensOfBothWays`).

*Canonicalizer* (`TextProofs`).  Texts are of any length over the characters of
`Unicode` (`CanonAssumption`), the configuration is any of the 48 and the buffer holds
anything.  `CanonInv` says that the buffer holds what the stages make of the text, and
that the text of a second call came out of a first.  The rest is about the stages.
`Mapped` is taken apart character by character (`MappedAppend`, `MappedEitherWay`),
`Ordered` and `Composed` are an insertion per character (`Insert`, `Put`).  In this
alphabet the class of a mark determines the mark, so two insertions of marks commute
(`InsertEither`) and a text may be ordered before a table is applied to it or not
(`OrderedThrough`).  `Decomposed` says that decomposing undoes composing up to the order
of marks, hence that a normal form is taken once (`NormalFormOnce`).  What is left after
stripping and what is left after folding are closed under the normal forms
(`ClosedSets`), so the stages of a second call find nothing to do (`PipelineOnce`), and
`CanonIdempotent` follows.  Stripping commutes with decomposing (`Spellings`), whence
`CanonVariants`.  `ShortCut` covers both short cuts: ASCII is in every normal form
(`AsciiNormal`), and folding it is making it lower case (`AsciiFolded`).  The tables
themselves stay those of the fifteen characters.

*Markup* (`MarkupProofs`).  `HInv` accounts for every position of a page behind the
scanner: what is kept opens no region, and what is dropped lies in a region of which no
later position is kept (`DroppedBecause`).  From it `NoScriptIsLeft` and
`OnlyRegionsAreCut`.  `MInv` says of the Markdown fold that its flags are what they are
named for (inside a code block; the output ends in a break) and that the texts so far
are there, in order and apart, which is `WordsStayApart` at the end.

*Configuration hash* (`SketchProofs`).  `CfInv` says that the fingerprinter at hand and
the stored one are of one of the four kinds, complete, and that the records are those of
the stored one; it is inductive whatever setters are called.  What it takes to conclude
`Comparable` is that the joined strings can be taken apart again.  A text is a sequence
of characters, so the library's theorems about concatenation apply.  `PrefixSplit` takes
apart what begins with one of several words none of which begins another, `SplitAt` what
is cut by a separator that does not occur before it.  With the first `ConfigStringSplit`
recovers the canonicalizer's steps, with both `TokenizerNameSplit` recovers the basic
tokenizer and every shingle size, by induction over the number of adaptors;
`LineSplit` and `ClassicalSplit` cut the whole line at its bars.  `HashOfShape` and
`ShapeOfHash` are then the two directions for the fingerprinters' own hashes,
`AdmittedAlike` covers the nine pairs of records, and `NamesTell` the display names.
The provers know no literal's characters, so what is used of the literals is assumed by
name and evaluated by TLC with its own strings: `LiteralAssumption` (which characters
they are made of; none but the separator has a bar), `PrefixAssumption` (which of them
begin no other) and `DigitAssumption` (decimal numbers are written in digits, no two the
same way).

Only model-checked: `EveryCallReturns`, a liveness property, which this prover does not
reach.  Every other property of a passing run is the statement of a theorem.

## Not modelled

* HTML rendering (`html2text`) and Markdown parsing (`pulldown-cmark`); where
  `unicode-segmentation` and `jieba` cut a text; the Unicode tables beyond the closed
  alphabet; `tlsh2`; ONNX and the transport of the Hub.  Libraries do these, and the
  models allow whatever the code allows for.
* xxh3, which is any function with collisions in the sketches and the index, and
  injective for configuration strings; the arithmetic of MurmurHash3, whose terms stand
  for their values.
* Floats, except as exact quotients, fixed-point numbers, bounded integers with
  infinities and NaN, or arbitrary values (the error integrals of the builder): rounding
  and underflow show in no property.
* The framing of serde's formats, the text of errors and of `Display`, memory
  allocation.
* The crate's surface (re-exports, features, traits), fuzz targets, benches and
  examples: nothing of theirs keeps state.
