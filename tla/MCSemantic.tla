----------------------------- MODULE MCSemantic -----------------------------
(***************************************************************************)
(* Three parts of the way to an embedding, side by side: the chunker, the  *)
(* set-up of a provider, and what becomes of the model's output.  They     *)
(* share nothing, so a behaviour is one of a single part while the others  *)
(* rest.  The documents of the chunker are those of MCChunking.            *)
(*                                                                         *)
(* Hidden states: one entry per token with values that overflow when three *)
(* of them are added or one is squared, with infinities and without        *)
(* numbers; and two entries per token.  Masks are shorter and longer than  *)
(* the text.                                                               *)
(***************************************************************************)
EXTENDS MCChunking, ProviderBuilder, Pooling

VARIABLE active

MCHidden ==
    {<< >>}
    \cup UNION {[1 .. n -> {<<v>> : v \in {-4, 0, 3, Inf, NegInf, NaN}}] : n \in 1 .. 2}
    \cup [1 .. 3 -> {<<v>> : v \in {-4, 3, NaN}}]
    \cup UNION {[1 .. n -> {-4, 3} \X {0, 1}] : n \in 1 .. 2}

MCMasks == {None} \cup UNION {[1 .. n -> {0, 1}] : n \in 0 .. 3}

\* A zero vector, one with a small and one with a huge norm, of three origins.
MCStored ==
    {[entries |-> e, count |-> 2, unit |-> FALSE, model |-> m] :
        e \in {<<0>>, <<2>>, <<4, -7>>}, m \in {None, "m1", "m2"}}
    \cup {[entries |-> <<-1, 2>>, count |-> 1, unit |-> TRUE, model |-> "m1"]}

-----------------------------------------------------------------------------
ChunkerRests == doc = None /\ strategy = None /\ chunks = << >> /\ done = FALSE
PoolingRests ==
    /\ hidden = None /\ mask = None /\ pooling = None /\ rank = None
    /\ vector = None /\ embedding = None /\ other = None /\ similarity = None
BuilderRests ==
    /\ asked = None /\ builder = None /\ fetching = None /\ repo = None
    /\ missed = None /\ provider = None /\ served = None

SemanticInit ==
    /\ active \in {"chunker", "pooling", "builder"}
    /\ IF active = "chunker" THEN Init ELSE ChunkerRests
    /\ IF active = "pooling" THEN PoolingInit ELSE PoolingRests
    /\ IF active = "builder" THEN BuilderInit ELSE BuilderRests

SemanticNext ==
    \/ active = "chunker" /\ Chunk /\ UNCHANGED <<active, poolingVars, builderVars>>
    \/ active = "pooling" /\ PoolingNext /\ UNCHANGED <<active, vars, builderVars>>
    \/ active = "builder" /\ BuilderNext /\ UNCHANGED <<active, vars, poolingVars>>

SemanticSpec == SemanticInit /\ [][SemanticNext]_<<active, vars, poolingVars, builderVars>>
=============================================================================
