-------------------------- MODULE ProviderService --------------------------
(***************************************************************************)
(* What a provider promises the threads that share it: every call takes    *)
(* effect at one instant or is refused, all embeddings have one length,    *)
(* and after a panic nothing takes effect any more.  No mutex, no guard,   *)
(* no session.                                                             *)
(***************************************************************************)
EXTENDS Naturals

CONSTANTS
    Threads,
    Refused, Panicked,  \* how a call may fail
    Answer(_)           \* what a call returns of an embedding of a length

VARIABLES
    condemned,  \* a call has panicked
    length,     \* of every embedding
    call,       \* where each thread's call is: none, before or behind its instant
    outcome     \* of each thread's last call

vars == <<condemned, length, call, outcome>>

Init ==
    /\ condemned = FALSE /\ length \in Nat
    /\ call = [t \in Threads |-> "none"]
    /\ outcome = [t \in Threads |-> Refused]

Ask(t) ==
    /\ call[t] = "none"
    /\ call' = [call EXCEPT ![t] = "asked"]
    /\ UNCHANGED <<condemned, length, outcome>>

\* A call takes effect, unless the service is condemned.
Serve(t) ==
    /\ call[t] = "asked" /\ ~condemned
    /\ call' = [call EXCEPT ![t] = "served"]
    /\ UNCHANGED <<condemned, length, outcome>>

Return(t, result) ==
    /\ call' = [call EXCEPT ![t] = "none"]
    /\ outcome' = [outcome EXCEPT ![t] = result]
    /\ UNCHANGED length

\* The embedding, or the news that it cannot be used.
Reply(t) ==
    /\ call[t] = "served"
    /\ \E result \in {Answer(length), Refused} : Return(t, result)
    /\ UNCHANGED condemned

Refuse(t) == call[t] = "asked" /\ Return(t, Refused) /\ UNCHANGED condemned

\* Only the first panic happens: nobody is let near the session after it.
Break(t) ==
    /\ call[t] = "asked" /\ ~condemned
    /\ Return(t, Panicked) /\ condemned' = TRUE

Next == \E t \in Threads : Ask(t) \/ Serve(t) \/ Reply(t) \/ Refuse(t) \/ Break(t)

Spec == Init /\ [][Next]_vars
=============================================================================
