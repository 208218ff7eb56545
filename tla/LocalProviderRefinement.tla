---------------------- MODULE LocalProviderRefinement ----------------------
(***************************************************************************)
(* LocalProvider implements ProviderService.  A call takes effect when its *)
(* vector has been pooled and the guard is dropped; what it did before     *)
(* that, in its turn with the session, no other thread can tell.           *)
(***************************************************************************)
EXTENDS LocalProvider

\* The length of every vector pooled from the loaded graph.
ChosenWidth ==
    IF graph.outputs = << >> THEN 0 ELSE graph.outputs[ChosenOutput(graph)].width

Progress ==
    [t \in Threads |-> CASE pc[t] = "idle"  -> "none"
                         [] pc[t] = "build" -> "served"
                         [] OTHER           -> "asked"]

Service == INSTANCE ProviderService
               WITH condemned <- poisoned, length <- ChosenWidth, call <- Progress,
                    outcome <- result, Refused <- Err, Panicked <- Panic, Answer <- Embedding

(* Threads that share a provider cannot tell it from one that serves each call at one
   instant: whatever the mutex lets them do to each other, no call takes effect once
   another has panicked, not even one that was under way, at most one panics, and all
   embeddings have one length (local.rs:465-590). *)
ImplementsService == Service!Spec
=============================================================================
