--------------------------- MODULE LocalProvider ---------------------------
(***************************************************************************)
(* One LocalProvider shared by several threads (src/src/semantic/local.rs):*)
(* every call tokenizes outside the session mutex, infers and pools inside *)
(* it, and builds the embedding after releasing it.  A panic inside the    *)
(* ONNX runtime unwinds through the guard and poisons the mutex.           *)
(*                                                                         *)
(* A graph is what ort reports of a loaded model: the names of its inputs  *)
(* and, in order, its outputs, each with a name, a rank, the width of its  *)
(* last axis at run time and whether the file fixes that width.  Vectors   *)
(* are their length; prefixes and token ids are left out.                  *)
(***************************************************************************)
EXTENDS Naturals, Sequences

CONSTANTS
    Threads,        \* threads that hold a clone of the provider
    NoThread,       \* none of them: the mutex is free
    Graphs,         \* models the provider may be built from
    FallbackDim,    \* dimension assumed when no output fixes one (384)
    MaxCalls        \* bound on the calls of each thread

Names == {"sentence_embedding", "last_hidden_state", "pooler_output", "other"}
Output == [name : Names, rank : Nat, width : Nat, fixed : BOOLEAN]

ASSUME ProviderAssumption ==
    /\ NoThread \notin Threads
    /\ \A g \in Graphs : g.outputs \in Seq(Output)
    /\ FallbackDim \in Nat \ {0}
    /\ MaxCalls \in Nat

KnownInputs == {"input_ids", "attention_mask", "token_type_ids"}
Preferred == <<"sentence_embedding", "last_hidden_state", "pooler_output">>

\* Outcomes of a call: an embedding is its length, a failure is Err or Panic.
Err == [failed |-> "error"]
Panic == [failed |-> "panic"]
Embedding(width) == [dim |-> width]

VARIABLES
    graph,      \* the loaded model
    dim,        \* the provider's advertised dimension
    holder,     \* the thread that holds the session guard
    poisoned,   \* the session mutex is poisoned
    pc,         \* where each thread is in its call
    width,      \* length of the vector a thread has pooled
    result,     \* outcome of each thread's last call
    calls       \* calls each thread has made

vars == <<graph, dim, holder, poisoned, pc, width, result, calls>>

-----------------------------------------------------------------------------
\* The first output whose last axis the file fixes decides the dimension.
FixedOutputs(g) ==
    {i \in DOMAIN g.outputs :
        g.outputs[i].rank > 0 /\ g.outputs[i].fixed /\ g.outputs[i].width > 0}

First(indices) == CHOOSE i \in indices : \A j \in indices : i <= j

\* Mutant of InferHiddenDim: the last such output decides.
InferLastDim(g) ==
    IF FixedOutputs(g) = {} THEN FallbackDim
    ELSE g.outputs[CHOOSE i \in FixedOutputs(g) : \A j \in FixedOutputs(g) : j <= i].width

InferHiddenDim(g) ==
    IF FixedOutputs(g) = {} THEN FallbackDim
    ELSE g.outputs[First(FixedOutputs(g))].width

\* The output an embedding is read from: the most preferred name, else the first.
ChosenOutput(g) ==
    LET named(n) == {i \in DOMAIN g.outputs : g.outputs[i].name = Preferred[n]}
        present == {n \in DOMAIN Preferred : named(n) # {}}
    IN  IF present = {} THEN 1 ELSE First(named(First(present)))

Init ==
    /\ graph \in Graphs
    /\ dim = InferHiddenDim(graph)
    /\ holder = NoThread
    /\ poisoned = FALSE
    /\ pc = [t \in Threads |-> "idle"]
    /\ width = [t \in Threads |-> 0]
    /\ result = [t \in Threads |-> Err]
    /\ calls = [t \in Threads |-> 0]

Return(t, outcome) ==
    /\ pc' = [pc EXCEPT ![t] = "idle"]
    /\ result' = [result EXCEPT ![t] = outcome]

\* embed_document, embed_query or embed.
Call(t) ==
    /\ pc[t] = "idle" /\ calls[t] < MaxCalls
    /\ pc' = [pc EXCEPT ![t] = "encode"]
    /\ calls' = [calls EXCEPT ![t] = @ + 1]
    /\ UNCHANGED <<graph, dim, holder, poisoned, width, result>>

\* Tokenize and truncate, outside the lock: an error, nothing left to embed, or
\* a sequence to infer on.
Encode(t) ==
    /\ pc[t] = "encode"
    /\ \/ pc' = [pc EXCEPT ![t] = "lock"] /\ UNCHANGED result
       \/ Return(t, Err)
    /\ UNCHANGED <<graph, dim, holder, poisoned, width, calls>>

\* Mutant of Lock: a poisoned mutex is entered like a sound one.
LockIgnoringPoison(t) ==
    /\ pc[t] = "lock" /\ holder = NoThread
    /\ holder' = t /\ pc' = [pc EXCEPT ![t] = "infer"]
    /\ UNCHANGED <<graph, dim, poisoned, width, result, calls>>

\* Mutant of Lock: the mutex excludes nobody.
LockShared(t) ==
    /\ pc[t] = "lock"
    /\ IF poisoned
       THEN Return(t, Err) /\ UNCHANGED holder
       ELSE holder' = t /\ pc' = [pc EXCEPT ![t] = "infer"] /\ UNCHANGED result
    /\ UNCHANGED <<graph, dim, poisoned, width, calls>>

\* A poisoned mutex is taken, reported and let go of in the same step.
Lock(t) ==
    /\ pc[t] = "lock" /\ holder = NoThread
    /\ IF poisoned
       THEN Return(t, Err) /\ UNCHANGED holder
       ELSE holder' = t /\ pc' = [pc EXCEPT ![t] = "infer"] /\ UNCHANGED result
    /\ UNCHANGED <<graph, dim, poisoned, width, calls>>

\* Mutant of Fail: the guard outlives the call.
FailKeepingGuard(t) == Return(t, Err) /\ UNCHANGED <<holder, poisoned>>

\* A return while holding the guard drops it; a panic poisons the mutex too.
Fail(t) == holder' = NoThread /\ Return(t, Err) /\ UNCHANGED poisoned
Unwind(t) == holder' = NoThread /\ Return(t, Panic) /\ poisoned' = TRUE

Infer(t) ==
    /\ pc[t] = "infer"
    /\ IF graph.inputs \subseteq KnownInputs
       THEN \/ pc' = [pc EXCEPT ![t] = "pool"] /\ UNCHANGED <<holder, poisoned, result>>
            \/ Fail(t)
            \/ Unwind(t)
       ELSE Fail(t)
    /\ UNCHANGED <<graph, dim, width, calls>>

\* The chosen output can be pooled: a vector per text, or one per token.
Poolable(output) ==
    \/ output.rank = 2 /\ output.width > 0
    \/ output.rank = 3

Pool(t) ==
    /\ pc[t] = "pool"
    /\ IF graph.outputs # << >> /\ Poolable(graph.outputs[ChosenOutput(graph)])
       THEN \/ /\ width' = [width EXCEPT ![t] = graph.outputs[ChosenOutput(graph)].width]
               /\ holder' = NoThread
               /\ pc' = [pc EXCEPT ![t] = "build"]
               /\ UNCHANGED <<poisoned, result>>
            \/ Fail(t) /\ UNCHANGED width     \* the output is not f32
       ELSE Fail(t) /\ UNCHANGED width
    /\ UNCHANGED <<graph, dim, calls>>

\* Embedding::with_model, after the guard is gone: an empty vector or one with
\* a value that is not finite is refused.
Build(t) ==
    /\ pc[t] = "build"
    /\ \/ width[t] > 0 /\ Return(t, Embedding(width[t]))
       \/ Return(t, Err)
    /\ UNCHANGED <<graph, dim, holder, poisoned, width, calls>>

Step(t) == Encode(t) \/ Lock(t) \/ Infer(t) \/ Pool(t) \/ Build(t)
Next == \E t \in Threads : Call(t) \/ Step(t)

\* A started call is scheduled and inference ends; nothing obliges a thread to call.
Fairness == \A t \in Threads : WF_vars(Step(t))
Spec == Init /\ [][Next]_vars /\ Fairness

-----------------------------------------------------------------------------
Labels == {"idle", "encode", "lock", "infer", "pool", "build"}
Outcomes == {Err, Panic} \cup {Embedding(graph.outputs[i].width) : i \in DOMAIN graph.outputs}

TypeOK ==
    /\ graph \in Graphs
    /\ dim \in Nat \ {0}
    /\ holder \in Threads \cup {NoThread}
    /\ poisoned \in BOOLEAN
    /\ pc \in [Threads -> Labels]
    /\ width \in [Threads -> Nat]
    /\ result \in [Threads -> Outcomes]
    /\ calls \in [Threads -> 0 .. MaxCalls]

(* Inference is serialised behind the mutex (local.rs:271-274): whoever is
   between the lock and the release holds the guard, and nobody else does,
   whichever of the early returns the others left by. *)
Serialized == \A t \in Threads : pc[t] \in {"infer", "pool"} <=> holder = t

(* A panic condemns the provider: once the mutex is poisoned no thread is
   inside it, and none ever comes to pool a vector again, so that a session
   left halfway by the panic is never used. *)
PoisonIsFinal ==
    [][poisoned => poisoned' /\ holder' = NoThread /\ width' = width]_vars

(* Every call returns, though calls contend for the mutex, fail while they hold
   it and panic: no error path keeps the guard and a poisoned mutex is reported. *)
EveryCallReturns == \A t \in Threads : pc[t] # "idle" ~> pc[t] = "idle"

Dims == {result[t].dim : t \in {u \in Threads : "dim" \in DOMAIN result[u]}}

(* Where the chosen output is the first with a fixed width, every embedding has
   the advertised dimension. *)
DimensionOfChosen ==
    FixedOutputs(graph) # {} /\ ChosenOutput(graph) = First(FixedOutputs(graph)) => Dims \subseteq {dim}

(* The claim of src/src/semantic/provider.rs:50: the dimension matches every
   embedding successfully returned. *)
DimensionMatches == Dims \subseteq {dim}
=============================================================================
