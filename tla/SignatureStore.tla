--------------------------- MODULE SignatureStore ---------------------------
(***************************************************************************)
(* What an LSH index promises its callers: a map from ids to signatures,   *)
(* in which a whole batch appears at once or not at all, and for which a   *)
(* search finds exactly the ids close enough to the query.  No bands, no   *)
(* buckets, no workers.                                                    *)
(***************************************************************************)
EXTENDS Integers, Sequences

CONSTANTS
    Ids, Sigs,
    Close,      \* signature -> the signatures within sure reach of it
    MaxBatch

VARIABLES
    docs,       \* id -> signature
    hits,       \* query -> the ids a search for it returns
    call,       \* the bulk call in progress, or "none"
    pending     \* its batch, or empty

Found(map) == [q \in Sigs |-> {id \in DOMAIN map : map[id] \in Close[q]}]

Init == docs = << >> /\ hits = Found(docs) /\ call = "none" /\ pending = << >>

Set(map, id, sig) == [i \in DOMAIN map \cup {id} |-> IF i = id THEN sig ELSE map[i]]

Put(id, sig) ==
    /\ pending = << >>
    /\ docs' = Set(docs, id, sig)
    /\ hits' = Found(docs')
    /\ UNCHANGED <<call, pending>>

Delete(id) ==
    /\ pending = << >>
    /\ id \in DOMAIN docs
    /\ docs' = [i \in DOMAIN docs \ {id} |-> docs[i]]
    /\ hits' = Found(docs')
    /\ UNCHANGED <<call, pending>>

BulkCalls == {"extend_par", "try_extend_par"}

\* An accepted batch.  try_extend_par accepts none with a document that is stored already.
Submit(name, items) ==
    /\ pending = << >>
    /\ name = "try_extend_par" => \A p \in DOMAIN items : items[p][1] \notin DOMAIN docs
    /\ call' = name
    /\ pending' = items
    /\ UNCHANGED <<docs, hits>>

\* Every item of it is stored, nothing else changes; an id that occurs twice in
\* the batch ends up with one of its signatures.
PutAll ==
    /\ pending # << >>
    /\ LET ids == {pending[p][1] : p \in DOMAIN pending}
           offered(id) == {pending[p][2] : p \in {q \in DOMAIN pending : pending[q][1] = id}}
       IN  /\ docs' \in [DOMAIN docs \cup ids -> Sigs]
           /\ \A id \in ids : docs'[id] \in offered(id)
           /\ \A id \in DOMAIN docs \ ids : docs'[id] = docs[id]
    /\ hits' = Found(docs')
    /\ call' = "none"
    /\ pending' = << >>

Next ==
    \/ \E id \in Ids, sig \in Sigs : Put(id, sig)
    \/ \E id \in Ids : Delete(id)
    \/ \E n \in 1 .. MaxBatch, name \in BulkCalls :
          \E items \in [1 .. n -> Ids \X Sigs] : Submit(name, items)
    \/ PutAll

Spec == Init /\ [][Next]_<<docs, hits, call, pending>>
=============================================================================
