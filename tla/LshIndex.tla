------------------------------ MODULE LshIndex ------------------------------
(***************************************************************************)
(* The banded LSH index of src/src/classical/lsh/index.rs.                 *)
(*                                                                         *)
(* The index keeps two structures that must agree: `sigs', the map from a  *)
(* document id to its MinHash signature, and `tables', one hash table per  *)
(* band that maps the key of a row slice to the ids filed under it.        *)
(* insert and remove take &mut self and run alone, so each is one step.    *)
(* A bulk call (extend_par, try_extend_par) is modelled step by step: the  *)
(* serial loop that fills `sigs', then one rayon worker per band, each     *)
(* walking the whole batch under its own table, then the join.             *)
(*                                                                         *)
(* A bucket is a SmallVec of ids.  Its order is never observable (query    *)
(* sorts), its multiplicities are, to scrub_bands: it is a multiset,       *)
(* a function from ids to how often they occur.                            *)
(***************************************************************************)
EXTENDS Integers, Sequences, FiniteSets

CONSTANTS
    Ids,              \* document ids the callers use
    Values,           \* values of one signature slot
    Bands, Rows,      \* the partition; with_bands_rows enforces Bands*Rows = H
    Sigs,             \* signatures the callers use
    Keys, Hash,       \* xxh3_64 of a row slice, collisions allowed
    DebugAssertions,  \* TRUE in a build with debug_assert!
    MaxBatch,         \* bound: longest batch of a bulk call
    MaxCopies         \* bound: no bulk call starts once a bucket lists an id
                      \*   this often (misused bulk calls repeat ids)

H == Bands * Rows
Slots == 0 .. H - 1
Band == 0 .. Bands - 1
Row == 0 .. Rows - 1

ASSUME LshAssumption ==
    /\ Bands \in Nat \ {0}
    /\ Rows \in Nat \ {0}
    /\ Sigs \subseteq [Slots -> Values]
    /\ Hash \in [[Row -> Values] -> Keys]
    /\ DebugAssertions \in BOOLEAN
    /\ MaxBatch \in Nat
    /\ MaxCopies \in Nat

VARIABLES
    sigs,     \* id -> signature
    tables,   \* band -> key -> multiset of ids
    call,     \* the bulk call that holds &mut self, or "none"
    batch,    \* its collected items, pairs <<id, signature>>
    filled,   \* items the serial loop has put into sigs
    cursor,   \* band -> items its worker has filed
    visible,  \* history: sigs as a caller could last read it
    tainted   \* history: ids for which the bulk contract was broken

vars == <<sigs, tables, call, batch, filled, cursor, visible, tainted>>

-----------------------------------------------------------------------------
Idle == call = "none"

BandKey(sig, b) == Hash[[r \in Row |-> sig[b * Rows + r]]]

Nobody == [id \in Ids |-> 0]

Bucket(table, key) == IF key \in DOMAIN table THEN table[key] ELSE Nobody

Copies(b, key, id) == Bucket(tables[b], key)[id]

\* table.entry(key).or_default().push(id)
Push(table, key, id) ==
    [k \in DOMAIN table \cup {key} |->
        IF k = key THEN [Bucket(table, key) EXCEPT ![id] = @ + 1]
                   ELSE table[k]]

\* Mutant of Scrub: empty lists stay in the table.
ScrubKeepsEmpty(table, key, id) ==
    [k \in DOMAIN table |-> IF k = key THEN [table[k] EXCEPT ![id] = 0] ELSE table[k]]

\* list.retain(|v| *v != id), and table.remove(&key) if the list got empty
Scrub(table, key, id) ==
    LET rest == [Bucket(table, key) EXCEPT ![id] = 0]
        kept == IF rest = Nobody THEN DOMAIN table \ {key} ELSE DOMAIN table
    IN  [k \in kept |-> IF k = key THEN rest ELSE table[k]]

ScrubBands(id, sig) ==
    [b \in Band |-> Scrub(tables[b], BandKey(sig, b), id)]

Store(map, id, sig) ==
    [i \in DOMAIN map \cup {id} |-> IF i = id THEN sig ELSE map[i]]

-----------------------------------------------------------------------------
\* Queries read the index and change nothing.

Query(sig) ==
    {id \in Ids : \E b \in Band : Copies(b, BandKey(sig, b), id) > 0}

\* jaccard() is Matches / H.  A threshold is given by the least number of
\* matching slots that reaches it after the clamp to [0, 1]; NaN survives the
\* clamp, no comparison with it holds, and H + 1 stands for it.
Thresholds == 0 .. H + 1

Matches(a, b) == Cardinality({s \in Slots : a[s] = b[s]})

\* Mutant of QueryWithThreshold: > instead of >=.
QueryAboveThreshold(sig, t) ==
    {id \in Query(sig) : id \in DOMAIN sigs /\ Matches(sig, sigs[id]) > t}

QueryWithThreshold(sig, t) ==
    {id \in Query(sig) : id \in DOMAIN sigs /\ Matches(sig, sigs[id]) >= t}

\* What a scan over every stored signature answers.
BruteForce(map, sig, t) == {id \in DOMAIN map : Matches(sig, map[id]) >= t}

-----------------------------------------------------------------------------
Init ==
    /\ sigs = << >>
    /\ tables = [b \in Band |-> << >>]
    /\ call = "none"
    /\ batch = << >>
    /\ filled = 0
    /\ cursor = [b \in Band |-> 0]
    /\ visible = sigs
    /\ tainted = {}

\* Mutant of Insert: the replaced signature stays banded.
InsertWithoutScrub(id, sig) ==
    /\ Idle
    /\ tables' = [b \in Band |-> Push(tables[b], BandKey(sig, b), id)]
    /\ sigs' = Store(sigs, id, sig)
    /\ visible' = sigs'
    /\ UNCHANGED <<call, batch, filled, cursor, tainted>>

\* Mutant of Insert: the old entries are scrubbed after the new ones are in.
InsertThenScrub(id, sig) ==
    /\ Idle
    /\ tables' = [b \in Band |->
          LET pushed == Push(tables[b], BandKey(sig, b), id)
          IN  IF id \in DOMAIN sigs THEN Scrub(pushed, BandKey(sigs[id], b), id)
                                    ELSE pushed]
    /\ sigs' = Store(sigs, id, sig)
    /\ visible' = sigs'
    /\ UNCHANGED <<call, batch, filled, cursor, tainted>>

Insert(id, sig) ==
    /\ Idle
    /\ LET cleared == IF id \in DOMAIN sigs THEN ScrubBands(id, sigs[id])
                                            ELSE tables
       IN  tables' = [b \in Band |-> Push(cleared[b], BandKey(sig, b), id)]
    /\ sigs' = Store(sigs, id, sig)
    /\ visible' = sigs'
    /\ UNCHANGED <<call, batch, filled, cursor, tainted>>

\* An absent id is the early return `self.sigs.remove(&id)?'.
Remove(id) ==
    /\ Idle
    /\ id \in DOMAIN sigs
    /\ tables' = ScrubBands(id, sigs[id])
    /\ sigs' = [i \in DOMAIN sigs \ {id} |-> sigs[i]]
    /\ visible' = sigs'
    /\ UNCHANGED <<call, batch, filled, cursor, tainted>>

Items(n) == [1 .. n -> Ids \X Sigs]

\* Mutant of Fresh: only the first item is looked at.
FreshHead(items) == items[1][1] \notin DOMAIN sigs

Fresh(items) == \A p \in DOMAIN items : items[p][1] \notin DOMAIN sigs

Repeated(items) ==
    {id \in Ids : \E p, q \in DOMAIN items :
                      p # q /\ items[p][1] = id /\ items[q][1] = id}

Begin(name, items) ==
    /\ \A b \in Band, k \in Keys, id \in Ids : Copies(b, k, id) < MaxCopies
    /\ call' = name
    /\ batch' = items
    /\ tainted' = tainted \cup Repeated(items)
                    \cup {id \in DOMAIN sigs : \E p \in DOMAIN items : items[p][1] = id}
    /\ UNCHANGED <<sigs, tables, filled, cursor, visible>>

\* A batch with a stored id panics in a debug build, before anything changed,
\* and goes ahead in a release build.
ExtendPar(items) ==
    /\ Idle
    /\ DebugAssertions => Fresh(items)
    /\ Begin("extend_par", items)

\* A batch with a stored id is Err(InvalidInput), before anything changed.
TryExtendPar(items) ==
    /\ Idle
    /\ Fresh(items)
    /\ Begin("try_extend_par", items)

\* Mutant of Fill: entry(id).or_insert(sig) instead of insert(id, sig).
FillIfAbsent ==
    /\ ~Idle
    /\ filled < Len(batch)
    /\ LET item == batch[filled + 1]
       IN  sigs' = IF item[1] \in DOMAIN sigs THEN sigs ELSE Store(sigs, item[1], item[2])
    /\ filled' = filled + 1
    /\ UNCHANGED <<tables, call, batch, cursor, visible, tainted>>

\* One round of the serial loop that fills the reverse map.
Fill ==
    /\ ~Idle
    /\ filled < Len(batch)
    /\ LET item == batch[filled + 1]
       IN  sigs' = Store(sigs, item[1], item[2])
    /\ filled' = filled + 1
    /\ UNCHANGED <<tables, call, batch, cursor, visible, tainted>>

\* One round of the worker that owns the table of band b.
FileItem(b) ==
    /\ ~Idle
    /\ filled = Len(batch)
    /\ cursor[b] < Len(batch)
    /\ LET item == batch[cursor[b] + 1]
       IN  tables' = [tables EXCEPT ![b] = Push(@, BandKey(item[2], b), item[1])]
    /\ cursor' = [cursor EXCEPT ![b] = @ + 1]
    /\ UNCHANGED <<sigs, call, batch, filled, visible, tainted>>

\* Mutant of Join: the loop counter survives the call.
JoinKeepsFilled ==
    /\ ~Idle
    /\ \A b \in Band : cursor[b] = Len(batch)
    /\ call' = "none"
    /\ batch' = << >>
    /\ cursor' = [b \in Band |-> 0]
    /\ visible' = sigs
    /\ UNCHANGED <<sigs, tables, tainted, filled>>

\* for_each returns once every worker is done.
Join ==
    /\ ~Idle
    /\ \A b \in Band : cursor[b] = Len(batch)
    /\ call' = "none"
    /\ batch' = << >>
    /\ filled' = 0
    /\ cursor' = [b \in Band |-> 0]
    /\ visible' = sigs
    /\ UNCHANGED <<sigs, tables, tainted>>

Next ==
    \/ \E id \in Ids, sig \in Sigs : Insert(id, sig)
    \/ \E id \in Ids : Remove(id)
    \/ \E n \in 1 .. MaxBatch : \E items \in Items(n) :
           ExtendPar(items) \/ TryExtendPar(items)
    \/ Fill
    \/ \E b \in Band : FileItem(b)
    \/ Join

Spec == Init /\ [][Next]_vars

-----------------------------------------------------------------------------
\* f is a map from part of S into T.
IsMap(f, S, T) == DOMAIN f \in SUBSET S /\ f \in [DOMAIN f -> T]

(* The types of the two structures, of a bulk call in flight and of the
   history variables. *)
TypeOK ==
    /\ IsMap(sigs, Ids, Sigs)
    /\ tables = [b \in Band |-> tables[b]]
    /\ \A b \in Band : IsMap(tables[b], Keys, [Ids -> Nat])
    /\ call \in {"none", "extend_par", "try_extend_par"}
    /\ batch \in Seq(Ids \X Sigs)
    /\ filled \in 0 .. Len(batch)
    /\ cursor \in [Band -> 0 .. Len(batch)]
    /\ IsMap(visible, Ids, Sigs)
    /\ tainted \in SUBSET Ids

\* Items already in sigs that the worker of band b has not filed yet.
Pending(b) == cursor[b] + 1 .. filled

(* No document is lost to a lookup: whatever mix of calls ran, misused bulk
   calls included, a stored id is filed under the key of its current
   signature in every band, or a running worker still has that very item in
   front of it. insert, scrub_bands and extend_par_inner must agree on this
   across replacements and leftovers of misuse. *)
Complete ==
    \A id \in DOMAIN sigs, b \in Band :
        \/ Copies(b, BandKey(sigs[id], b), id) > 0
        \/ \E p \in Pending(b) : batch[p] = <<id, sigs[id]>>

(* Breaking the contract of a bulk call (an id that is already stored, or
   twice in the batch) damages the entries of that id only: any other id is
   filed exactly once per band, under the key of its signature, if it is
   stored, and nowhere at all if it is not. *)
DamageConfined ==
    \A id \in Ids \ tainted, b \in Band, k \in Keys :
        LET filed == /\ id \in DOMAIN sigs
                     /\ k = BandKey(sigs[id], b)
                     /\ \A p \in Pending(b) : batch[p][1] # id
        IN  Copies(b, k, id) = IF filed THEN 1 ELSE 0

(* "Empty bucket lists are removed so memory stays bounded": no table keeps a
   key nobody is filed under, after any sequence of calls. *)
NoEmptyBucket ==
    \A b \in Band : \A k \in DOMAIN tables[b] : tables[b][k] # Nobody

(* A bulk call in flight: the workers start after the serial fill, what is
   filled is stored, and an item whose id is not misused is the only one for
   its id and is stored if and only if it is filled. *)
InFlight ==
    /\ Idle => batch = << >> /\ visible = sigs
    /\ \A b \in Band : cursor[b] > 0 => filled = Len(batch)
    /\ \A p \in 1 .. filled : batch[p][1] \in DOMAIN sigs
    /\ \A p \in DOMAIN batch : batch[p][1] \notin tainted =>
          /\ \A q \in DOMAIN batch : batch[q][1] = batch[p][1] => q = p
          /\ IF p <= filled THEN sigs[batch[p][1]] = batch[p][2]
                            ELSE batch[p][1] \notin DOMAIN sigs

\* The inductive invariant.
IInv == TypeOK /\ InFlight /\ Complete /\ DamageConfined /\ NoEmptyBucket

(* query_with_threshold answers what a scan over all stored signatures
   answers, for every threshold that leaves fewer differing slots than there
   are bands (then one band has to agree in full). It holds after misused
   bulk calls too, and with hash collisions: wrong candidates are filtered,
   right ones are never missing. *)
AgreesWithScan ==
    Idle => \A sig \in Sigs, t \in Thresholds :
                t > H - Bands => QueryWithThreshold(sig, t) = BruteForce(sigs, sig, t)
=============================================================================
