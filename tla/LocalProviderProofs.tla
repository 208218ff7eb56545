------------------------ MODULE LocalProviderProofs ------------------------
(***************************************************************************)
(* Safety of the shared provider, for any threads, graphs and bounds; of   *)
(* the builder, for any calls and downloads; and of pooling and            *)
(* comparison, for any hidden states, masks and embeddings.                *)
(***************************************************************************)
EXTENDS LocalProviderRefinement, ProviderBuilder, Pooling, SequenceTheorems, WellFoundedInduction, TLAPS

\* The inductive invariant: who is inside, and never inside what is poisoned.
\* The types are those it needs, not of the data.
PIInv ==
    /\ holder \in Threads \cup {NoThread}
    /\ poisoned \in BOOLEAN
    /\ pc \in [Threads -> Labels]
    /\ Serialized
    /\ poisoned => holder = NoThread

LEMMA InitPIInv == Init => PIInv
BY ProviderAssumption DEF Init, PIInv, Serialized, Labels

LEMMA NextPIInv == PIInv /\ [Next]_vars => PIInv'
<1> SUFFICES ASSUME PIInv, [Next]_vars PROVE PIInv'
    OBVIOUS
<1> USE ProviderAssumption DEF PIInv, Serialized, Labels
<1>1. CASE UNCHANGED vars
    BY <1>1 DEF vars
<1>2. ASSUME NEW t \in Threads, Call(t) PROVE PIInv'
    BY <1>2 DEF Call
<1>3. ASSUME NEW t \in Threads, Encode(t) PROVE PIInv'
    BY <1>3 DEF Encode, Return
<1>4. ASSUME NEW t \in Threads, Lock(t) PROVE PIInv'
    BY <1>4 DEF Lock, Return
<1>5. ASSUME NEW t \in Threads, Infer(t) PROVE PIInv'
    BY <1>5 DEF Infer, Fail, Unwind, Return
<1>6. ASSUME NEW t \in Threads, Pool(t) PROVE PIInv'
    BY <1>6 DEF Pool, Fail, Return
<1>7. ASSUME NEW t \in Threads, Build(t) PROVE PIInv'
    BY <1>7 DEF Build, Return
<1>8. QED
    BY <1>1, <1>2, <1>3, <1>4, <1>5, <1>6, <1>7 DEF Next, Step

LEMMA ProviderInvariance == Spec => []PIInv
BY InitPIInv, NextPIInv, PTL DEF Spec

(* Inference is serialised for any number of threads: exactly the holder of
   the guard is between lock() and the release in local.rs:470-588. *)
THEOREM MutualExclusion == Spec => []Serialized
<1>1. PIInv => Serialized
    BY DEF PIInv
<1>2. QED
    BY <1>1, ProviderInvariance, PTL

(* A poisoned mutex (local.rs:475) stays poisoned and free, and no vector is
   pooled from the session behind it. *)
THEOREM PoisonFinal == Spec => PoisonIsFinal
<1>1. PIInv /\ [Next]_vars => [poisoned => poisoned' /\ holder' = NoThread /\ width' = width]_vars
    <2> SUFFICES ASSUME PIInv, poisoned, NEW t \in Threads, Call(t) \/ Step(t)
                 PROVE  poisoned' /\ holder' = NoThread /\ width' = width
        BY DEF Next
    <2> holder = NoThread /\ pc[t] \notin {"infer", "pool"}
        BY ProviderAssumption DEF PIInv, Serialized
    <2> QED
        BY DEF Step, Call, Encode, Lock, Infer, Pool, Build, Return
<1>2. QED
    BY <1>1, ProviderInvariance, PTL DEF Spec, PoisonIsFinal

-----------------------------------------------------------------------------
\* Which vector a thread carries, and which lengths come out: one width for all threads.
Chosen == graph.outputs[ChosenOutput(graph)].width

DIInv ==
    /\ dim = InferHiddenDim(graph)
    /\ pc \in [Threads -> Labels]
    /\ width \in [Threads -> {0, Chosen}]
    /\ result \in [Threads -> {Err, Panic, Embedding(Chosen)}]
    /\ \A t \in Threads : pc[t] = "build" => width[t] = Chosen

LEMMA InitDIInv == Init => DIInv
BY DEF Init, DIInv, Labels

LEMMA NextDIInv == DIInv /\ [Next]_vars => DIInv'
<1> SUFFICES ASSUME DIInv, [Next]_vars PROVE DIInv'
    OBVIOUS
<1> USE DEF DIInv, Labels, Chosen
<1>1. CASE UNCHANGED vars
    BY <1>1 DEF vars
<1>2. ASSUME NEW t \in Threads, Call(t) PROVE DIInv'
    BY <1>2 DEF Call
<1>3. ASSUME NEW t \in Threads, Encode(t) PROVE DIInv'
    BY <1>3 DEF Encode, Return
<1>4. ASSUME NEW t \in Threads, Lock(t) PROVE DIInv'
    BY <1>4 DEF Lock, Return
<1>5. ASSUME NEW t \in Threads, Infer(t) PROVE DIInv'
    BY <1>5 DEF Infer, Fail, Unwind, Return
<1>6. ASSUME NEW t \in Threads, Pool(t) PROVE DIInv'
    BY <1>6 DEF Pool, Fail, Return
<1>7. ASSUME NEW t \in Threads, Build(t) PROVE DIInv'
    BY <1>7 DEF Build, Return
<1>8. QED
    BY <1>1, <1>2, <1>3, <1>4, <1>5, <1>6, <1>7 DEF Next, Step

(* Where the two rules by which the code reads a graph (local.rs:527-535 and 601-619) meet in one
   output, every embedding has the advertised dimension, for any graphs and threads. *)
THEOREM DimensionAsAdvertised == Spec => []DimensionOfChosen
<1>1. DIInv => DimensionOfChosen
    <2> SUFFICES ASSUME DIInv, FixedOutputs(graph) # {},
                        ChosenOutput(graph) = First(FixedOutputs(graph)),
                        NEW t \in Threads, "dim" \in DOMAIN result[t]
                 PROVE  result[t].dim = dim
        BY DEF DimensionOfChosen, Dims
    <2>1. dim = Chosen
        BY DEF DIInv, InferHiddenDim, Chosen
    <2>2. result[t] = Embedding(Chosen)
        BY DEF DIInv, Err, Panic
    <2>3. QED
        BY <2>1, <2>2 DEF Embedding
<1>2. QED
    BY <1>1, InitDIInv, NextDIInv, PTL DEF Spec

-----------------------------------------------------------------------------
(* The provider serves one call at a time, as far as its callers can tell. *)

LEMMA FirstIs ==
    ASSUME NEW S, S \subseteq Nat, S # {}
    PROVE  First(S) \in S
<1> DEFINE Less == OpToRel(<, Nat)
<1>1. IsWellFoundedOn(Less, Nat)
    BY NatLessThanWellFounded
<1>2. \A m, n \in Nat : m < n => <<m, n>> \in Less
    BY DEF OpToRel
<1> HIDE DEF Less
<1>3. PICK i \in S : \A j \in S : <<j, i>> \notin Less
    BY <1>1, WFMin
<1>4. ASSUME NEW j \in S PROVE i <= j
    <2>1. i \in Nat /\ j \in Nat /\ ~(j < i)
        BY <1>2, <1>3
    <2>2. QED
        BY <2>1
<1>5. QED
    BY <1>4 DEF First

\* The output an embedding is read from is one of the graph's.
LEMMA ChosenIsOutput ==
    ASSUME NEW g, g.outputs \in Seq(Output), g.outputs # << >>
    PROVE  ChosenOutput(g) \in DOMAIN g.outputs
<1> DEFINE named(n) == {i \in DOMAIN g.outputs : g.outputs[i].name = Preferred[n]}
           present == {n \in DOMAIN Preferred : named(n) # {}}
<1>1. DOMAIN g.outputs = 1 .. Len(g.outputs) /\ Len(g.outputs) \in Nat /\ Len(g.outputs) # 0
    OBVIOUS
<1>2. CASE present = {}
    BY <1>1, <1>2 DEF ChosenOutput
<1>3. CASE present # {}
    <2>1. DOMAIN Preferred \subseteq Nat
        BY DEF Preferred
    <2>2. First(present) \in present
        BY <1>3, <2>1, FirstIs
    <2>3. named(First(present)) # {} /\ named(First(present)) \subseteq DOMAIN g.outputs
        BY <2>2
    <2>4. First(named(First(present))) \in named(First(present))
        <3> DEFINE S == named(First(present))
        <3>1. S \subseteq Nat /\ S # {}
            <4>1. S \subseteq DOMAIN g.outputs /\ S # {}
                BY <2>3
            <4> HIDE DEF S
            <4>2. QED
                BY <1>1, <4>1
        <3> HIDE DEF S
        <3>2. First(S) \in S
            BY <3>1, FirstIs
        <3>3. QED
            BY <3>2 DEF S
    <2>5. ChosenOutput(g) = First(named(First(present)))
        BY <1>3 DEF ChosenOutput
    <2>6. QED
        BY <2>3, <2>4, <2>5
<1>4. QED
    BY <1>2, <1>3

\* What the refinement rests on: the guard, and what a thread carries behind it.
RfInv ==
    /\ PIInv
    /\ DOMAIN width = Threads
    /\ \A t \in Threads : pc[t] = "build" => width[t] = ChosenWidth

LEMMA InitRfInv == Init => RfInv
BY InitPIInv DEF Init, RfInv

LEMMA NextRfInv == RfInv /\ [Next]_vars => RfInv'
<1> SUFFICES ASSUME RfInv, [Next]_vars PROVE RfInv'
    OBVIOUS
<1>1. PIInv'
    BY NextPIInv DEF RfInv
<1>2. pc \in [Threads -> Labels] /\ DOMAIN width = Threads
      /\ \A t \in Threads : pc[t] = "build" => width[t] = ChosenWidth
    BY DEF RfInv, PIInv
<1> SUFFICES /\ DOMAIN width' = Threads
             /\ \A t \in Threads : pc'[t] = "build" => width'[t] = ChosenWidth'
    BY <1>1 DEF RfInv
<1> USE <1>2 DEF ChosenWidth
<1>3. CASE UNCHANGED vars
    BY <1>3 DEF vars
<1>4. CASE Next
    <2>1. PICK t \in Threads : Call(t) \/ Step(t)
        BY <1>4 DEF Next
    <2>2. CASE Call(t)
        BY <2>2 DEF Call
    <2>3. CASE Encode(t)
        BY <2>3 DEF Encode, Return
    <2>4. CASE Lock(t)
        BY <2>4 DEF Lock, Return
    <2>5. CASE Infer(t)
        BY <2>5 DEF Infer, Fail, Unwind, Return
    <2>6. CASE Pool(t)
        BY <2>6 DEF Pool, Fail, Return
    <2>7. CASE Build(t)
        BY <2>7 DEF Build, Return
    <2>8. QED
        BY <2>1, <2>2, <2>3, <2>4, <2>5, <2>6, <2>7 DEF Step
<1>5. QED
    BY <1>3, <1>4

\* Where a step leaves a thread, seen from outside.
LEMMA ProgressIs ==
    ASSUME PIInv, NEW t \in Threads, NEW l, pc' = [pc EXCEPT ![t] = l]
    PROVE  /\ l = "idle" => Progress' = [Progress EXCEPT ![t] = "none"]
           /\ l = "build" => Progress' = [Progress EXCEPT ![t] = "served"]
           /\ l \in {"encode", "lock", "infer", "pool"} => Progress' = [Progress EXCEPT ![t] = "asked"]
BY DEF Progress, PIInv, Labels

LEMMA ServiceInit == Init => Service!Init
<1> SUFFICES ASSUME Init PROVE Service!Init
    OBVIOUS
<1>1. ChosenWidth \in Nat
    <2>1. graph.outputs \in Seq(Output)
        BY ProviderAssumption DEF Init
    <2>2. CASE graph.outputs # << >>
        <3> DEFINE c == ChosenOutput(graph)
        <3>1. c \in DOMAIN graph.outputs
            BY <2>1, <2>2, ChosenIsOutput
        <3>2. graph.outputs[c] \in Output
            <4> HIDE DEF c
            <4>1. QED
                BY <2>1, <3>1
        <3>3. QED
            BY <2>2, <3>2 DEF ChosenWidth, Output
    <2>3. CASE graph.outputs = << >>
        BY <2>3 DEF ChosenWidth
    <2>4. QED
        BY <2>2, <2>3
<1>2. Progress = [t \in Threads |-> "none"]
    BY DEF Init, Progress
<1>3. QED
    BY <1>1, <1>2 DEF Init, Service!Init

LEMMA ServiceStep == RfInv /\ [Next]_vars => [Service!Next]_(Service!vars)
<1> SUFFICES ASSUME RfInv, [Next]_vars PROVE Service!Next \/ UNCHANGED Service!vars
    OBVIOUS
<1>1. PIInv /\ holder \in Threads \cup {NoThread} /\ NoThread \notin Threads
      /\ \A u \in Threads : pc[u] \in {"infer", "pool"} => ~poisoned
    BY ProviderAssumption DEF RfInv, PIInv, Serialized
<1>2. CASE UNCHANGED vars
    BY <1>2 DEF vars, Service!vars, Progress, ChosenWidth
<1>3. CASE Next
    <2>1. PICK t \in Threads : Call(t) \/ Step(t)
        BY <1>3 DEF Next
    <2>2. /\ ChosenWidth' = ChosenWidth
          /\ pc[t] = "idle" => Progress[t] = "none"
          /\ pc[t] = "build" => Progress[t] = "served"
          /\ pc[t] \in {"encode", "lock", "infer", "pool"} => Progress[t] = "asked"
        BY <2>1 DEF Step, Call, Encode, Lock, Infer, Pool, Build, ChosenWidth, Progress
    \* Steps that no other thread can tell.
    <2>3. ASSUME pc[t] \in {"encode", "lock", "infer"}, NEW l \in {"lock", "infer", "pool"},
                 pc' = [pc EXCEPT ![t] = l], UNCHANGED <<poisoned, result>>
          PROVE  UNCHANGED Service!vars
        <3>1. Progress' = [Progress EXCEPT ![t] = "asked"] /\ Progress[t] = "asked"
            BY <1>1, <2>2, <2>3, ProgressIs
        <3>2. Progress' = Progress
            BY <3>1 DEF Progress
        <3>3. QED
            BY <2>2, <2>3, <3>2 DEF Service!vars
    <2>4. ASSUME pc[t] \in {"encode", "lock", "infer", "pool"}, Return(t, Err), UNCHANGED poisoned
          PROVE  Service!Refuse(t)
        <3>1. Progress' = [Progress EXCEPT ![t] = "none"]
            BY <1>1, <2>4, ProgressIs DEF Return
        <3>2. QED
            BY <2>2, <2>4, <3>1 DEF Return, Service!Refuse, Service!Return
    <2>5. CASE Call(t)
        <3>1. Progress' = [Progress EXCEPT ![t] = "asked"]
            BY <1>1, <2>5, ProgressIs DEF Call
        <3>2. Service!Ask(t)
            BY <2>2, <2>5, <3>1 DEF Call, Service!Ask
        <3>3. QED
            BY <3>2 DEF Service!Next
    <2>6. CASE Encode(t)
        BY <2>3, <2>4, <2>6 DEF Encode, Service!Next
    <2>7. CASE Lock(t)
        BY <2>3, <2>4, <2>7 DEF Lock, Service!Next
    <2>8. CASE Infer(t)
        <3>1. CASE Unwind(t)
            <4>1. Progress' = [Progress EXCEPT ![t] = "none"]
                BY <1>1, <3>1, ProgressIs DEF Unwind, Return
            <4>2. Service!Break(t)
                BY <1>1, <2>2, <2>8, <3>1, <4>1 DEF Infer, Unwind, Return, Service!Break, Service!Return
            <4>3. QED
                BY <4>2 DEF Service!Next
        <3>2. QED
            BY <2>3, <2>4, <2>8, <3>1 DEF Infer, Fail, Service!Next
    <2>9. CASE Pool(t)
        <3>1. CASE pc' = [pc EXCEPT ![t] = "build"] /\ UNCHANGED <<poisoned, result>>
            <4>1. Progress' = [Progress EXCEPT ![t] = "served"]
                BY <1>1, <3>1, ProgressIs
            <4>2. Service!Serve(t)
                BY <1>1, <2>2, <2>9, <3>1, <4>1 DEF Pool, Service!Serve
            <4>3. QED
                BY <4>2 DEF Service!Next
        <3>2. QED
            BY <2>4, <2>9, <3>1 DEF Pool, Fail, Service!Next
    <2>10. CASE Build(t)
        <3>1. width[t] = ChosenWidth
            BY <2>10 DEF Build, RfInv
        <3>2. Progress' = [Progress EXCEPT ![t] = "none"]
            BY <1>1, <2>10, ProgressIs DEF Build, Return
        <3>3. Service!Reply(t)
            BY <2>2, <2>10, <3>1, <3>2 DEF Build, Return, Service!Reply, Service!Return
        <3>4. QED
            BY <3>3 DEF Service!Next
    <2>11. QED
        BY <2>1, <2>5, <2>6, <2>7, <2>8, <2>9, <2>10 DEF Step
<1>4. QED
    BY <1>2, <1>3

(* A shared provider is one that serves every call at one instant, for any threads, graphs
   and number of calls: no call under way when another panics still takes effect, and all
   embeddings have one length (local.rs:465-590). *)
THEOREM ServesOneAtATime == Spec => ImplementsService
<1>1. Spec => []RfInv
    BY InitRfInv, NextRfInv, PTL DEF Spec
<1>2. Init => Service!Init
    BY ServiceInit
<1>3. RfInv /\ [Next]_vars => [Service!Next]_(Service!vars)
    BY ServiceStep
<1>4. QED
    BY <1>1, <1>2, <1>3, PTL DEF Spec, ImplementsService, Service!Spec

-----------------------------------------------------------------------------
(* The set-up of a provider.  What was asked for last. *)

\* Induction, for a set instead of a predicate.
LEMMA SetInduction ==
    ASSUME NEW S, 0 \in S, \A n \in Nat : n \in S => n + 1 \in S
    PROVE  \A n \in Nat : n \in S
<1> DEFINE Missing == {n \in Nat : n \notin S}
           Less == OpToRel(<, Nat)
<1> SUFFICES ASSUME Missing # {} PROVE FALSE
    OBVIOUS
<1>1. IsWellFoundedOn(Less, Nat)
    BY NatLessThanWellFounded
<1>2. \A m, n \in Nat : m < n => <<m, n>> \in Less
    BY DEF OpToRel
<1> HIDE DEF Less
<1>3. PICK n \in Missing : \A m \in Missing : <<m, n>> \notin Less
    <2> Missing \subseteq Nat
        OBVIOUS
    <2> HIDE DEF Missing
    <2> QED
        BY <1>1, WFMin
<1>4. n \in Nat /\ n - 1 \in Nat /\ n - 1 \in Missing
    BY <1>3
<1>5. <<n - 1, n>> \in Less
    BY <1>2, <1>4
<1>6. QED
    BY <1>3, <1>4, <1>5

LEMMA MaxIs ==
    ASSUME NEW S, S \subseteq Int, NEW m \in S, \A x \in S : x <= m
    PROVE  Max(S) = m
<1> DEFINE Greatest(x) == x \in S /\ \A y \in S : x >= y
<1>1. Greatest(m)
    OBVIOUS
<1>2. Max(S) = CHOOSE x : Greatest(x)
    BY DEF Max
<1>3. Greatest(CHOOSE x : Greatest(x))
    BY <1>1
<1>4. Max(S) \in S /\ \A y \in S : Max(S) >= y
    BY <1>2, <1>3
<1>5. Max(S) >= m /\ Max(S) <= m /\ Max(S) \in Int /\ m \in Int
    BY <1>4
<1> HIDE DEF Greatest
<1>6. QED
    BY <1>5

LEMMA MaxExists ==
    ASSUME NEW n \in Nat, NEW S, S \subseteq 1 .. n, S # {}
    PROVE  Max(S) \in S /\ \A x \in S : x <= Max(S)
<1> DEFINE Good == {k \in Nat : \A T \in SUBSET (1 .. k) : T # {} => \E m \in T : \A x \in T : x <= m}
<1>1. 0 \in Good
    <2>0. 1 .. 0 = {}
        OBVIOUS
    <2>1. ASSUME NEW T \in SUBSET (1 .. 0) PROVE T = {}
        BY <2>0
    <2>2. QED
        BY <2>1
<1>2. ASSUME NEW k \in Nat, k \in Good PROVE k + 1 \in Good
    <2> SUFFICES ASSUME NEW T \in SUBSET (1 .. k + 1), T # {} PROVE \E m \in T : \A x \in T : x <= m
        OBVIOUS
    <2>1. CASE k + 1 \in T
        <3>1. ASSUME NEW x \in T PROVE x <= k + 1
            <4>1. x \in 1 .. k + 1
                OBVIOUS
            <4>2. QED
                BY <4>1
        <3>2. QED
            BY <2>1, <3>1
    <2>2. CASE k + 1 \notin T
        <3>1. T \subseteq 1 .. k
            BY <2>2
        <3>2. QED
            BY <1>2, <3>1
    <2>3. QED
        BY <2>1, <2>2
<1> HIDE DEF Good
<1>3. n \in Good
    BY <1>1, <1>2, SetInduction
<1>4. PICK m \in S : \A x \in S : x <= m
    BY <1>3 DEF Good
<1>5. Max(S) = m
    <2>1. S \subseteq Int
        OBVIOUS
    <2>2. QED
        BY <1>4, <2>1, MaxIs
<1>6. QED
    BY <1>4, <1>5

LEMMA LastOfNone == ASSUME NEW setter, NEW default PROVE LastIn(<< >>, setter, default) = default
BY DEF LastIn

LEMMA LastOfLonger ==
    ASSUME NEW made \in Seq(Settings \X Wishes), NEW s \in Settings, NEW v \in Wishes,
           NEW setter, NEW default
    PROVE  LastIn(Append(made, <<s, v>>), setter, default)
               = IF s = setter THEN v ELSE LastIn(made, setter, default)
<1> DEFINE n == Len(made)
           longer == Append(made, <<s, v>>)
           old == {i \in DOMAIN made : made[i][1] = setter}
           new == {i \in DOMAIN longer : longer[i][1] = setter}
<1>1. /\ n \in Nat /\ DOMAIN made = 1 .. n /\ DOMAIN longer = 1 .. n + 1
      /\ \A i \in 1 .. n : longer[i] = made[i]
      /\ longer[n + 1] = <<s, v>>
    <2>1. <<s, v>> \in Settings \X Wishes
        OBVIOUS
    <2>2. QED
        BY <2>1, LenProperties, AppendProperties
<1>2. /\ LastIn(made, setter, default) = IF old = {} THEN default ELSE made[Max(old)][2]
      /\ LastIn(longer, setter, default) = IF new = {} THEN default ELSE longer[Max(new)][2]
    BY DEF LastIn
<1> HIDE DEF longer
<1>3. CASE s = setter
    <2>1. n + 1 \in new /\ new \subseteq Int /\ \A x \in new : x <= n + 1
        BY <1>1, <1>3
    <2>2. Max(new) = n + 1
        BY <2>1, MaxIs
    <2>3. new # {} /\ longer[Max(new)] = <<s, v>>
        BY <1>1, <2>1, <2>2
    <2> HIDE DEF old, new
    <2>4. LastIn(longer, setter, default) = v
        BY <1>2, <2>3
    <2>5. QED
        BY <1>3, <2>4 DEF longer
<1>4. CASE s # setter
    <2>1. new = old
        BY <1>1, <1>4
    <2>2. old # {} => Max(old) \in old
        BY <1>1, MaxExists
    <2>3. old # {} => longer[Max(old)] = made[Max(old)]
        BY <1>1, <2>2
    <2> HIDE DEF old, new
    <2>4. QED
        BY <1>2, <1>4, <2>1, <2>3 DEF longer
<1>5. QED
    BY <1>3, <1>4

LEMMA LastOfOne ==
    ASSUME NEW s \in Settings, NEW v \in Wishes, NEW setter, NEW default
    PROVE  LastIn(Append(<< >>, <<s, v>>), setter, default) = IF s = setter THEN v ELSE default
<1>1. \A made \in Seq(Settings \X Wishes) :
          LastIn(Append(made, <<s, v>>), setter, default) = IF s = setter THEN v ELSE LastIn(made, setter, default)
    BY LastOfLonger
<1>2. << >> \in Seq(Settings \X Wishes)
    OBVIOUS
<1>3. LastIn(Append(<< >>, <<s, v>>), setter, default) = IF s = setter THEN v ELSE LastIn(<< >>, setter, default)
    BY <1>1, <1>2, Zenon
<1>4. QED
    BY <1>3, LastOfNone

\* None is never asked for, so what was not asked for falls back to the default.
LEMMA OrDefault ==
    ASSUME NEW made \in Seq(Settings \X Wishes), NEW setter, NEW default
    PROVE  OrElse(LastIn(made, setter, None), default) = LastIn(made, setter, default)
<1> DEFINE places == {i \in DOMAIN made : made[i][1] = setter}
<1>1. \A default2 : LastIn(made, setter, default2) = IF places = {} THEN default2 ELSE made[Max(places)][2]
    BY DEF LastIn
<1>2. places # {} => made[Max(places)][2] # None
    <2> SUFFICES ASSUME places # {} PROVE made[Max(places)][2] # None
        OBVIOUS
    <2>1. Len(made) \in Nat /\ DOMAIN made = 1 .. Len(made)
        BY LenProperties
    <2>2. Max(places) \in places
        BY <2>1, MaxExists
    <2> DEFINE m == Max(places)
    <2>3. m \in 1 .. Len(made)
        BY <2>1, <2>2
    <2> HIDE DEF m, places
    <2>4. made[m] \in Settings \X Wishes
        BY <2>3, ElementOfSeq
    <2>5. made[m][2] \in Wishes
        BY <2>4
    <2>6. None \notin Wishes
        BY BuilderAssumption DEF Wishes
    <2>7. QED
        BY <2>5, <2>6 DEF m
<1> HIDE DEF places
<1>3. QED
    BY <1>1, <1>2 DEF OrElse

(* The inductive invariant: every field of the builder that is left open or decides
   later holds what was asked for last, and the provider was built from it. *)
Answers(setter) == builder[setter] = LastAsked(setter, None)

Downloaded ==
    fetching # None =>
        /\ \E id \in Ids : asked = << <<"model_id", id>> >>
        /\ fetching \in 0 .. Len(ONNX_CANDIDATES)
        /\ builder.onnx_path = None =>
              repo \cap {ONNX_CANDIDATES[j] : j \in 1 .. fetching} \subseteq missed
        /\ FirstCandidateLoads

Cap == AtLeastOne(LastAsked("max_seq_len", DEFAULT_MAX_SEQ_LEN))

BInv ==
    /\ asked \in Seq(Settings \X Wishes)
    /\ builder = [setter \in Settings |-> builder[setter]]
    /\ Answers("pooling") /\ Answers("query_prefix") /\ Answers("doc_prefix")
    /\ builder.max_seq_len = Cap /\ Cap \in Nat \ {0}
    /\ fetching = None => Answers("model_id") /\ Answers("onnx_path")
    /\ provider \notin {None, Failed} => Answers("model_id") /\ provider = Built(builder)
    /\ Downloaded
    /\ served # None => provider \notin {None, Failed}
    /\ MadeAsAsked /\ SidesKeptApart /\ NeverCutToNothing

\* The parts that only look at what was asked for, what was built and what was served.
LEMMA NothingServed == ASSUME served = None PROVE MadeAsAsked /\ SidesKeptApart /\ NeverCutToNothing
BY DEF MadeAsAsked, SidesKeptApart, NeverCutToNothing

LEMMA InitBInv == BuilderInit => BInv
<1> SUFFICES ASSUME BuilderInit PROVE BInv
    OBVIOUS
<1>1. asked = << >> /\ builder = NewBuilder /\ fetching = None /\ provider = None /\ served = None
    BY DEF BuilderInit
<1>2. \A setter, default : LastAsked(setter, default) = default
    BY <1>1, LastOfNone DEF LastAsked
<1>3. builder = [setter \in Settings |-> builder[setter]]
    BY <1>1 DEF NewBuilder, Settings
<1>4. /\ builder["pooling"] = None /\ builder["query_prefix"] = None /\ builder["doc_prefix"] = None
      /\ builder["model_id"] = None /\ builder["onnx_path"] = None
      /\ builder.max_seq_len = DEFAULT_MAX_SEQ_LEN
    BY <1>1 DEF NewBuilder
<1>5. Cap = DEFAULT_MAX_SEQ_LEN /\ Cap \in Nat \ {0}
    BY <1>2, BuilderAssumption DEF Cap, AtLeastOne
<1>6. asked \in Seq(Settings \X Wishes)
    BY <1>1
<1>7. Downloaded
    BY <1>1 DEF Downloaded
<1>8. QED
    BY <1>1, <1>2, <1>3, <1>4, <1>5, <1>6, <1>7, NothingServed DEF BInv, Answers

LEMMA SetBInv ==
    ASSUME BInv, NEW setter \in Settings, NEW value \in Wishes, NEW stored, Set(setter, value, stored),
           setter = "max_seq_len" => value \in Nat /\ stored = AtLeastOne(value),
           setter \notin {"max_seq_len", "intra_threads"} => stored = value
    PROVE  BInv'
<1>1. /\ asked' = Append(asked, <<setter, value>>) /\ fetching = None /\ provider = None
      /\ builder' = [builder EXCEPT ![setter] = stored]
      /\ UNCHANGED <<fetching, repo, missed, provider, served>>
    BY DEF Set, Building
<1>2. asked' \in Seq(Settings \X Wishes)
    <2>1. asked \in Seq(Settings \X Wishes) /\ <<setter, value>> \in Settings \X Wishes
        BY DEF BInv
    <2>2. QED
        BY <1>1, <2>1, AppendProperties
<1>3. /\ builder' = [f \in Settings |-> builder'[f]]
      /\ builder'[setter] = stored
      /\ \A f \in Settings : f # setter => builder'[f] = builder[f]
    BY <1>1 DEF BInv
<1>4. \A f, default : LastAsked(f, default)' = IF setter = f THEN value ELSE LastAsked(f, default)
    <2> SUFFICES ASSUME NEW f, NEW default
                 PROVE  LastAsked(f, default)' = IF setter = f THEN value ELSE LastAsked(f, default)
        OBVIOUS
    <2>1. LastIn(Append(asked, <<setter, value>>), f, default)
              = IF setter = f THEN value ELSE LastIn(asked, f, default)
        <3>1. asked \in Seq(Settings \X Wishes)
            BY DEF BInv
        <3>2. QED
            BY <3>1, LastOfLonger
    <2>2. LastAsked(f, default)' = LastIn(asked', f, default)
        BY DEF LastAsked
    <2>3. QED
        BY <1>1, <2>1, <2>2 DEF LastAsked
<1>5. ASSUME NEW f \in Settings \ {"max_seq_len", "intra_threads"}, Answers(f) PROVE Answers(f)'
    BY <1>3, <1>4, <1>5 DEF Answers
<1>6. /\ Answers("pooling")' /\ Answers("query_prefix")' /\ Answers("doc_prefix")'
      /\ Answers("model_id")' /\ Answers("onnx_path")'
    BY <1>1, <1>5 DEF BInv, Settings
<1>7. builder'["max_seq_len"] = Cap' /\ Cap' \in Nat \ {0}
    <2>1. CASE setter = "max_seq_len"
        BY <1>3, <1>4, <2>1 DEF Cap, AtLeastOne
    <2>2. CASE setter # "max_seq_len"
        BY <1>3, <1>4, <2>2 DEF Cap, BInv, Settings
    <2>3. QED
        BY <2>1, <2>2
<1>8. served' = None /\ fetching' = None /\ provider' = None
    BY <1>1 DEF BInv
<1>9. (MadeAsAsked /\ SidesKeptApart /\ NeverCutToNothing)'
    BY <1>8 DEF MadeAsAsked, SidesKeptApart, NeverCutToNothing
<1>10. Downloaded'
    BY <1>8 DEF Downloaded
<1>11. QED
    BY <1>2, <1>3, <1>6, <1>7, <1>8, <1>9, <1>10 DEF BInv

LEMMA BuildBInv == ASSUME BInv, BuildProvider PROVE BInv'
<1>1. /\ UNCHANGED <<asked, builder, fetching, repo, missed, served>>
      /\ fetching = None /\ provider = None
      /\ provider' = Built(builder) \/ provider' = Failed
    BY DEF BuildProvider, Building, BuildOf
<1>2. served' = None /\ fetching' = None
    BY <1>1 DEF BInv
<1>3. /\ (Answers("pooling") /\ Answers("query_prefix") /\ Answers("doc_prefix"))'
      /\ (Answers("model_id") /\ Answers("onnx_path"))'
      /\ (builder.max_seq_len = Cap /\ Cap \in Nat \ {0})'
    BY <1>1 DEF BInv, Answers, LastAsked, Cap
<1>4. Built(builder)' = Built(builder)
    BY <1>1
<1>5. Downloaded' /\ (MadeAsAsked /\ SidesKeptApart /\ NeverCutToNothing)'
    BY <1>2 DEF Downloaded, MadeAsAsked, SidesKeptApart, NeverCutToNothing
<1>6. QED
    BY <1>1, <1>2, <1>3, <1>4, <1>5 DEF BInv

LEMMA FromOnnxBInv == ASSUME BInv, FromOnnx PROVE BInv'
<1>1. PICK p \in Poolings :
          /\ builder' = [NewBuilder EXCEPT !.onnx_path = "mine.onnx", !.tokenizer_path = "mine.json", !.pooling = p]
          /\ asked' = << <<"onnx_path", "mine.onnx">>, <<"tokenizer_path", "mine.json">>, <<"pooling", p>> >>
    BY Zenon DEF FromOnnx
<1>2. /\ UNCHANGED <<fetching, repo, missed, served>> /\ fetching = None /\ provider = None
      /\ provider' = Built(builder') \/ provider' = Failed
    BY DEF FromOnnx, Building, BuildOf
<1>3. served' = None /\ fetching' = None
    BY <1>2 DEF BInv
<1> DEFINE one == Append(<< >>, <<"onnx_path", "mine.onnx">>)
           two == Append(one, <<"tokenizer_path", "mine.json">>)
<1>4. asked' = Append(two, <<"pooling", p>>)
    BY <1>1
<1>5. /\ << >> \in Seq(Settings \X Wishes)
      /\ {"onnx_path", "tokenizer_path", "pooling"} \subseteq Settings
      /\ {"mine.onnx", "mine.json", p} \subseteq Wishes
    BY DEF Settings, Wishes
<1>6. one \in Seq(Settings \X Wishes)
    <2>1. <<"onnx_path", "mine.onnx">> \in Settings \X Wishes
        BY <1>5
    <2>2. QED
        BY <1>5, <2>1, AppendProperties
<1> HIDE DEF one
<1>7. two \in Seq(Settings \X Wishes)
    <2>1. <<"tokenizer_path", "mine.json">> \in Settings \X Wishes
        BY <1>5
    <2>2. QED
        BY <1>6, <2>1, AppendProperties
<1> HIDE DEF two
<1>8. asked' \in Seq(Settings \X Wishes)
    <2>1. <<"pooling", p>> \in Settings \X Wishes
        BY <1>5
    <2>2. QED
        BY <1>4, <1>7, <2>1, AppendProperties
<1>9. ASSUME NEW f, NEW default
      PROVE  LastAsked(f, default)' = IF f = "pooling" THEN p
                                      ELSE IF f = "tokenizer_path" THEN "mine.json"
                                      ELSE IF f = "onnx_path" THEN "mine.onnx" ELSE default
    <2>1. LastIn(one, f, default) = IF f = "onnx_path" THEN "mine.onnx" ELSE default
        BY <1>5, LastOfOne DEF one
    <2>2. LastIn(two, f, default) = IF f = "tokenizer_path" THEN "mine.json" ELSE LastIn(one, f, default)
        BY <1>5, <1>6, LastOfLonger DEF two
    <2>3. LastIn(Append(two, <<"pooling", p>>), f, default) = IF f = "pooling" THEN p ELSE LastIn(two, f, default)
        BY <1>5, <1>7, LastOfLonger
    <2>4. LastAsked(f, default)' = LastIn(asked', f, default)
        BY DEF LastAsked
    <2>5. QED
        BY <1>4, <2>1, <2>2, <2>3, <2>4
<1>10. /\ builder' = [f \in Settings |-> builder'[f]]
       /\ builder'["pooling"] = p /\ builder'["onnx_path"] = "mine.onnx"
       /\ builder'["query_prefix"] = None /\ builder'["doc_prefix"] = None
       /\ builder'["model_id"] = None /\ builder'["max_seq_len"] = DEFAULT_MAX_SEQ_LEN
    BY <1>1 DEF NewBuilder, Settings
<1>11. /\ (Answers("pooling") /\ Answers("query_prefix") /\ Answers("doc_prefix"))'
       /\ (Answers("model_id") /\ Answers("onnx_path"))'
    BY <1>9, <1>10 DEF Answers
<1>12. (builder.max_seq_len = Cap /\ Cap \in Nat \ {0})'
    <2>1. LastAsked("max_seq_len", DEFAULT_MAX_SEQ_LEN)' = DEFAULT_MAX_SEQ_LEN
        BY <1>9
    <2>2. QED
        BY <1>10, <2>1, BuilderAssumption DEF Cap, AtLeastOne
<1>13. Downloaded' /\ (MadeAsAsked /\ SidesKeptApart /\ NeverCutToNothing)'
    BY <1>3 DEF Downloaded, MadeAsAsked, SidesKeptApart, NeverCutToNothing
<1>14. Built(builder)' = Built(builder')
    BY DEF Built, ModelIdOf, OrElse, PoolingFor, QueryPrefixFor, DocPrefixFor
<1>15. QED
    BY <1>2, <1>3, <1>8, <1>10, <1>11, <1>12, <1>13, <1>14 DEF BInv

LEMMA FromPretrainedBInv == ASSUME BInv, FromPretrained PROVE BInv'
<1>1. /\ UNCHANGED <<builder, missed, served>> /\ fetching = None /\ provider = None /\ asked = << >>
    BY DEF FromPretrained, Building
<1>2. served' = None
    BY <1>1 DEF BInv
<1>3. (MadeAsAsked /\ SidesKeptApart /\ NeverCutToNothing)'
    BY <1>2 DEF MadeAsAsked, SidesKeptApart, NeverCutToNothing
<1>4. CASE provider' = Failed /\ UNCHANGED <<asked, fetching, repo>>
    <2>1. /\ (Answers("pooling") /\ Answers("query_prefix") /\ Answers("doc_prefix"))'
          /\ (Answers("model_id") /\ Answers("onnx_path"))'
          /\ (builder.max_seq_len = Cap /\ Cap \in Nat \ {0})'
        BY <1>1, <1>4 DEF BInv, Answers, LastAsked, Cap
    <2>2. QED
        BY <1>1, <1>2, <1>3, <1>4, <2>1 DEF BInv, Downloaded
<1>5. CASE /\ \E id \in Ids : asked' = << <<"model_id", id>> >>
           /\ fetching' = 0 /\ UNCHANGED provider
    <2>1. PICK id \in Ids : asked' = << <<"model_id", id>> >>
        BY <1>5
    <2>2. /\ asked' = Append(<< >>, <<"model_id", id>>) /\ << >> \in Seq(Settings \X Wishes)
          /\ "model_id" \in Settings /\ id \in Wishes
        BY <2>1 DEF Settings, Wishes
    <2>3. asked' \in Seq(Settings \X Wishes)
        <3>1. <<"model_id", id>> \in Settings \X Wishes
            BY <2>2
        <3>2. QED
            BY <2>2, <3>1, AppendProperties
    <2>4. ASSUME NEW f, f # "model_id", NEW default
          PROVE  LastAsked(f, default)' = default /\ LastAsked(f, default) = default
        <3>1. LastIn(Append(<< >>, <<"model_id", id>>), f, default) = default
            BY <2>2, <2>4, LastOfOne
        <3>2. QED
            BY <1>1, <2>2, <3>1, LastOfNone DEF LastAsked
    <2>5. /\ (Answers("pooling") /\ Answers("query_prefix") /\ Answers("doc_prefix"))'
          /\ (builder.max_seq_len = Cap /\ Cap \in Nat \ {0})'
        BY <1>1, <2>4 DEF BInv, Answers, Cap
    <2>6. builder' = [f \in Settings |-> builder'[f]] /\ builder'.onnx_path = None
        BY <1>1, <2>4 DEF BInv, Answers
    <2>7. Downloaded'
        <3>1. fetching' \in 0 .. Len(ONNX_CANDIDATES) /\ repo' \cap {ONNX_CANDIDATES[j] : j \in 1 .. fetching'} = {}
            BY <1>5 DEF ONNX_CANDIDATES
        <3>2. QED
            BY <2>1, <2>6, <3>1 DEF Downloaded, FirstCandidateLoads
    <2>8. fetching' # None
        BY <1>5, BuilderAssumption
    <2>9. QED
        BY <1>1, <1>2, <1>3, <1>5, <2>3, <2>5, <2>6, <2>7, <2>8 DEF BInv
<1>6. QED
    BY <1>4, <1>5 DEF FromPretrained

LEMMA FetchBInv == ASSUME BInv, Fetch PROVE BInv'
<1> DEFINE candidate == ONNX_CANDIDATES[fetching + 1]
<1>1. /\ provider = None /\ fetching # None /\ builder.onnx_path = None
      /\ fetching < Len(ONNX_CANDIDATES) /\ fetching' = fetching + 1
      /\ UNCHANGED <<asked, repo, provider, served>> /\ Get(candidate)
    BY DEF Fetch, Fetching
<1>2. fetching \in 0 .. Len(ONNX_CANDIDATES) /\ Len(ONNX_CANDIDATES) = 3 /\ fetching + 1 \in 1 .. 3
    <2>1. fetching \in 0 .. Len(ONNX_CANDIDATES) /\ Len(ONNX_CANDIDATES) = 3
        BY <1>1 DEF BInv, Downloaded, ONNX_CANDIDATES
    <2>2. QED
        BY <1>1, <2>1
<1>3. repo \cap {ONNX_CANDIDATES[j] : j \in 1 .. fetching} \subseteq missed
    BY <1>1 DEF BInv, Downloaded
<1>4. candidate \in Range(ONNX_CANDIDATES) /\ candidate # None
    <2>1. fetching + 1 \in DOMAIN ONNX_CANDIDATES
        BY <1>2 DEF ONNX_CANDIDATES
    <2>2. candidate \in Range(ONNX_CANDIDATES)
        BY <2>1 DEF Range
    <2>3. QED
        BY <2>2, BuilderAssumption
<1> HIDE DEF candidate
<1>5. /\ builder' = [f \in Settings |-> builder'[f]]
      /\ \A f \in Settings : f # "onnx_path" => builder'[f] = builder[f]
    BY <1>1 DEF Get, BInv
<1>6. served' = None /\ provider' = None /\ fetching' # None
    BY <1>1, <1>2, BuilderAssumption DEF BInv
<1>7. /\ (Answers("pooling") /\ Answers("query_prefix") /\ Answers("doc_prefix"))'
      /\ (builder.max_seq_len = Cap /\ Cap \in Nat \ {0})'
    <2>1. \A f, default : LastAsked(f, default)' = LastAsked(f, default)
        BY <1>1 DEF LastAsked
    <2>2. {"pooling", "query_prefix", "doc_prefix", "max_seq_len"} \subseteq Settings \ {"onnx_path"}
        BY DEF Settings
    <2>3. Cap' = Cap
        BY <2>1 DEF Cap
    <2>4. QED
        BY <1>5, <2>1, <2>2, <2>3 DEF BInv, Answers
<1>8. (MadeAsAsked /\ SidesKeptApart /\ NeverCutToNothing)'
    BY <1>6 DEF MadeAsAsked, SidesKeptApart, NeverCutToNothing
<1>9. Downloaded'
    <2> DEFINE n == fetching + 1
               before == {ONNX_CANDIDATES[j] : j \in 1 .. fetching}
    <2>1. n \in 1 .. 3 /\ n \in DOMAIN ONNX_CANDIDATES /\ n - 1 = fetching /\ fetching' = n
        BY <1>1, <1>2 DEF ONNX_CANDIDATES
    <2>2. (\E id \in Ids : asked = << <<"model_id", id>> >>)'
        BY <1>1 DEF BInv, Downloaded
    <2>3. {ONNX_CANDIDATES[j] : j \in 1 .. n} = before \cup {candidate}
        <3>1. \A j \in 1 .. n : j \in 1 .. fetching \/ j = n
            BY <1>2
        <3>2. \A j \in 1 .. fetching : j \in 1 .. n
            BY <1>2
        <3>3. n \in 1 .. n
            BY <2>1
        <3>4. QED
            BY <3>1, <3>2, <3>3 DEF candidate
    <2>4. CASE candidate \in repo /\ builder' = [builder EXCEPT !.onnx_path = candidate] /\ UNCHANGED missed
        <3>1. builder'.onnx_path = candidate
            BY <2>4 DEF BInv, Settings
        <3>2. /\ builder'.onnx_path = ONNX_CANDIDATES[n] /\ ONNX_CANDIDATES[n] \in repo'
              /\ repo' \cap {ONNX_CANDIDATES[j] : j \in 1 .. n - 1} \subseteq missed'
            BY <1>1, <1>3, <2>1, <2>4, <3>1 DEF candidate
        <3>3. FirstCandidateLoads'
            BY <2>1, <3>2 DEF FirstCandidateLoads
        <3>4. QED
            BY <1>2, <1>4, <2>1, <2>2, <3>1, <3>3 DEF Downloaded
    <2>5. CASE UNCHANGED builder /\ missed \subseteq missed' /\ (candidate \notin repo \/ candidate \in missed')
        <3>1. builder'.onnx_path = None
            BY <1>1, <2>5
        <3>2. repo' \cap {ONNX_CANDIDATES[j] : j \in 1 .. n} \subseteq missed'
            BY <1>1, <1>3, <2>3, <2>5
        <3>3. FirstCandidateLoads'
            BY <3>1 DEF FirstCandidateLoads
        <3>4. QED
            BY <1>2, <2>1, <2>2, <3>2, <3>3 DEF Downloaded
    <2>6. QED
        BY <1>1, <2>4, <2>5 DEF Get
<1>10. QED
    BY <1>1, <1>5, <1>6, <1>7, <1>8, <1>9 DEF BInv

LEMMA FinishFetchBInv == ASSUME BInv, FinishFetch PROVE BInv'
<1>1. /\ provider = None /\ fetching # None
      /\ UNCHANGED <<asked, fetching, repo, missed, served>>
    BY DEF FinishFetch
<1>2. PICK id \in Ids : asked = << <<"model_id", id>> >>
    BY <1>1 DEF BInv, Downloaded
<1>3. asked[1][2] = id
    BY <1>2
<1>4. \A f, default : LastAsked(f, default)' = LastAsked(f, default)
    BY <1>1 DEF LastAsked
<1>5. LastAsked("model_id", None) = id
    <2>1. "model_id" \in Settings /\ id \in Wishes /\ asked = Append(<< >>, <<"model_id", id>>)
        BY <1>2 DEF Settings, Wishes
    <2>2. QED
        BY <2>1, LastOfOne DEF LastAsked
<1>6. served' = None
    BY <1>1 DEF BInv
<1>7. (MadeAsAsked /\ SidesKeptApart /\ NeverCutToNothing)'
    BY <1>6 DEF MadeAsAsked, SidesKeptApart, NeverCutToNothing
<1>8. CASE provider' = Failed /\ UNCHANGED builder
    <2>1. /\ (Answers("pooling") /\ Answers("query_prefix") /\ Answers("doc_prefix"))'
          /\ (builder.max_seq_len = Cap /\ Cap \in Nat \ {0})'
        BY <1>1, <1>4, <1>8 DEF BInv, Answers, Cap
    <2>2. Downloaded'
        BY <1>1, <1>8 DEF BInv, Downloaded, FirstCandidateLoads
    <2>3. QED
        BY <1>1, <1>6, <1>7, <1>8, <2>1, <2>2 DEF BInv
<1>9. CASE /\ builder.onnx_path # None
           /\ builder' = [builder EXCEPT !.model_id = asked[1][2], !.tokenizer_path = "tokenizer.json"]
           /\ BuildOf(builder')
    <2>1. /\ builder' = [f \in Settings |-> builder'[f]]
          /\ builder'["model_id"] = id
          /\ \A f \in Settings : f \notin {"model_id", "tokenizer_path"} => builder'[f] = builder[f]
        BY <1>3, <1>9 DEF BInv, Settings
    <2>2. /\ builder'["pooling"] = builder["pooling"] /\ builder'["query_prefix"] = builder["query_prefix"]
          /\ builder'["doc_prefix"] = builder["doc_prefix"] /\ builder'["max_seq_len"] = builder["max_seq_len"]
          /\ builder'["onnx_path"] = builder["onnx_path"]
        BY <2>1 DEF Settings
    <2>3. Answers("model_id")'
        BY <1>4, <1>5, <2>1 DEF Answers
    <2>4. /\ (Answers("pooling") /\ Answers("query_prefix") /\ Answers("doc_prefix"))'
          /\ (builder.max_seq_len = Cap /\ Cap \in Nat \ {0})'
        BY <1>4, <2>2 DEF BInv, Answers, Cap
    <2>5. Downloaded'
        BY <1>1, <2>2 DEF BInv, Downloaded, FirstCandidateLoads
    <2>6. provider' \notin {None, Failed} => provider' = Built(builder')
        BY <1>9 DEF BuildOf
    <2>7. Built(builder)' = Built(builder')
        BY DEF Built, ModelIdOf, OrElse, PoolingFor, QueryPrefixFor, DocPrefixFor
    <2>8. QED
        BY <1>1, <1>6, <1>7, <2>1, <2>3, <2>4, <2>5, <2>6, <2>7 DEF BInv
<1>10. QED
    BY <1>8, <1>9 DEF FinishFetch

\* A provider answers with what was asked for, or with what its model decides.
LEMMA ProviderAnswers ==
    ASSUME BInv, provider \notin {None, Failed}
    PROVE  /\ provider.model_id = AskedId
           /\ provider.pooling = LastAsked("pooling", PoolingFor(AskedId))
           /\ provider.query_prefix = LastAsked("query_prefix", QueryPrefixFor(AskedId))
           /\ provider.doc_prefix = LastAsked("doc_prefix", DocPrefixFor(AskedId))
           /\ provider.max_seq_len = Cap
           /\ fetching = None => provider.graph = LastAsked("onnx_path", None)
<1>1. /\ asked \in Seq(Settings \X Wishes) /\ provider = Built(builder)
      /\ builder.pooling = LastAsked("pooling", None)
      /\ builder.query_prefix = LastAsked("query_prefix", None)
      /\ builder.doc_prefix = LastAsked("doc_prefix", None)
      /\ builder.model_id = LastAsked("model_id", None)
      /\ fetching = None => builder.onnx_path = LastAsked("onnx_path", None)
      /\ builder.max_seq_len = Cap
    BY DEF BInv, Answers
<1>2. \A setter, default : OrElse(LastAsked(setter, None), default) = LastAsked(setter, default)
    BY <1>1, OrDefault DEF LastAsked
<1>3. ModelIdOf(builder) = AskedId
    BY <1>1, <1>2 DEF ModelIdOf, AskedId
<1>4. QED
    BY <1>1, <1>2, <1>3 DEF Built

LEMMA EmbedBInv == ASSUME BInv, Embed PROVE BInv'
<1>1. provider \notin {None, Failed} /\ UNCHANGED <<asked, builder, fetching, repo, missed, provider>>
    BY DEF Embed
<1>2. PICK side \in {"document", "query"}, length \in Lengths :
          served' = [ side   |-> side,
                      text   |-> IF side = "query" THEN EmbedQuery(provider, "input")
                                 ELSE EmbedDocument(provider, "input"),
                      length |-> length,
                      taken  |-> Taken(provider, length),
                      outcome |-> IF Taken(provider, length) = 0 THEN Failed
                                  ELSE [model |-> provider.model_id, pooling |-> provider.pooling] ]
    BY Zenon DEF Embed
<1> DEFINE right == [model |-> provider.model_id, pooling |-> provider.pooling]
           taken == Taken(provider, length)
<1>3. /\ served'.side = side /\ served'.length = length /\ served'.taken = taken
      /\ served'.text = IF side = "query" THEN EmbedQuery(provider, "input")
                        ELSE EmbedDocument(provider, "input")
      /\ served'.outcome = IF taken = 0 THEN Failed ELSE right
    BY <1>2
<1>4. \A f, default : LastAsked(f, default)' = LastAsked(f, default)
    BY <1>1 DEF LastAsked
<1>5. AskedId' = AskedId /\ Cap' = Cap
    BY <1>4 DEF AskedId, Cap
<1>6. right # Failed /\ right.model = provider.model_id /\ right.pooling = provider.pooling
    BY DEF Failed
<1> HIDE DEF right
<1>7. MadeAsAsked'
    <2>1. served'.outcome # Failed => served'.outcome = right
        BY <1>3
    <2>2. QED
        BY <1>1, <1>4, <1>5, <1>6, <2>1, ProviderAnswers DEF MadeAsAsked
<1>8. SidesKeptApart'
    <2>1. \A prefix : Prefixed(prefix, "input") = (IF prefix = None THEN << >> ELSE <<prefix>>) \o <<"input">>
        <3>1. << >> \o <<"input">> = <<"input">>
            OBVIOUS
        <3>2. ASSUME NEW prefix PROVE <<prefix>> \o <<"input">> = <<prefix, "input">>
            <4> DEFINE Pieces == {prefix, "input"}
                       joined == <<prefix>> \o <<"input">>
            <4>1. <<prefix>> \in Seq(Pieces) /\ <<"input">> \in Seq(Pieces)
                OBVIOUS
            <4>2. /\ joined \in Seq(Pieces) /\ Len(joined) = 2
                  /\ joined[1] = prefix /\ joined[2] = "input"
                BY <4>1, ConcatProperties
            <4> HIDE DEF joined, Pieces
            <4>4. joined = <<joined[1], joined[2]>>
                BY <4>2
            <4>5. QED
                BY <4>2, <4>4 DEF joined
        <3>3. QED
            BY <3>1, <3>2 DEF Prefixed
    <2> DEFINE PrefixOf(side1) == IF side1 = "query"
                               THEN LastAsked("query_prefix", QueryPrefixFor(AskedId))
                               ELSE LastAsked("doc_prefix", DocPrefixFor(AskedId))
    <2>2. served'.text = Prefixed(PrefixOf(side), "input")
        BY <1>1, <1>3, ProviderAnswers DEF EmbedQuery, EmbedDocument
    <2>3. served'.text = (IF PrefixOf(side) = None THEN << >> ELSE <<PrefixOf(side)>>) \o <<"input">>
        BY <2>1, <2>2
    <2>4. PrefixOf(side) = (IF served.side = "query"
                         THEN LastAsked("query_prefix", QueryPrefixFor(AskedId))
                         ELSE LastAsked("doc_prefix", DocPrefixFor(AskedId)))'
        BY <1>3, <1>4, <1>5
    <2> HIDE DEF PrefixOf
    <2>5. QED
        BY <2>3, <2>4 DEF SidesKeptApart
<1>9. NeverCutToNothing'
    <2>1. provider.max_seq_len = Cap /\ Cap \in Nat \ {0} /\ length \in Nat
        BY <1>1, ProviderAnswers, BuilderAssumption DEF BInv
    <2>2. taken = IF length <= Cap THEN length ELSE Cap
        BY <2>1 DEF Taken
    <2> HIDE DEF taken
    <2>3. (taken = 0 <=> length = 0) /\ taken <= Cap /\ (taken < length => taken = Cap)
        BY <2>1, <2>2
    <2>4. served'.outcome = Failed <=> served'.length = 0
        BY <1>3, <1>6, <2>3
    <2>5. served'.taken <= Cap' /\ (served'.taken < served'.length => served'.taken = Cap')
        BY <1>3, <1>5, <2>3
    <2>6. QED
        BY <2>4, <2>5 DEF NeverCutToNothing, Cap
<1>10. /\ (Answers("pooling") /\ Answers("query_prefix") /\ Answers("doc_prefix"))'
       /\ (Answers("model_id") /\ (fetching = None => Answers("onnx_path")))'
       /\ (builder.max_seq_len = Cap /\ Cap \in Nat \ {0})'
    BY <1>1, <1>4, <1>5 DEF BInv, Answers
<1>11. Downloaded'
    BY <1>1 DEF BInv, Downloaded, FirstCandidateLoads
<1>12. Built(builder)' = Built(builder)
    BY <1>1
<1>13. QED
    BY <1>1, <1>7, <1>8, <1>9, <1>10, <1>11, <1>12 DEF BInv

LEMMA BuilderInvariance == BuilderSpec => []BInv
<1>1. BInv /\ [BuilderNext]_builderVars => BInv'
    <2> SUFFICES ASSUME BInv, [BuilderNext]_builderVars PROVE BInv'
        OBVIOUS
    <2>1. CASE \/ SetModelId \/ SetOnnxPath \/ SetTokenizerPath \/ SetPooling \/ SetQueryPrefix
               \/ SetDocPrefix \/ SetMaxSeqLen \/ SetIntraThreads
        <3>1. /\ Ids \subseteq Wishes /\ Poolings \subseteq Wishes /\ SeqLens \subseteq Wishes
              /\ ThreadCounts \subseteq Wishes /\ {"mine.onnx", "mine.json", "mine"} \subseteq Wishes
              /\ SeqLens \subseteq Nat
            BY BuilderAssumption DEF Wishes
        <3>2. CASE SetModelId
            BY <3>1, <3>2, SetBInv DEF SetModelId, Settings
        <3>3. CASE SetOnnxPath
            BY <3>1, <3>3, SetBInv DEF SetOnnxPath, Settings
        <3>4. CASE SetTokenizerPath
            BY <3>1, <3>4, SetBInv DEF SetTokenizerPath, Settings
        <3>5. CASE SetPooling
            BY <3>1, <3>5, SetBInv DEF SetPooling, Settings
        <3>6. CASE SetQueryPrefix
            BY <3>1, <3>6, SetBInv DEF SetQueryPrefix, Settings
        <3>7. CASE SetDocPrefix
            BY <3>1, <3>7, SetBInv DEF SetDocPrefix, Settings
        <3>8. CASE SetMaxSeqLen
            BY <3>1, <3>8, SetBInv DEF SetMaxSeqLen, Settings
        <3>9. CASE SetIntraThreads
            BY <3>1, <3>9, SetBInv DEF SetIntraThreads, Settings
        <3>10. QED
            BY <2>1, <3>2, <3>3, <3>4, <3>5, <3>6, <3>7, <3>8, <3>9
    <2>2. CASE UNCHANGED builderVars
        <3>1. UNCHANGED <<asked, builder, fetching, repo, missed, provider, served>>
            BY <2>2 DEF builderVars
        <3>2. \A f, default : LastAsked(f, default)' = LastAsked(f, default)
            BY <3>1 DEF LastAsked
        <3>3. AskedId' = AskedId /\ Cap' = Cap
            BY <3>2 DEF AskedId, Cap
        <3>4. MadeAsAsked' /\ SidesKeptApart' /\ NeverCutToNothing'
            BY <3>1, <3>2, <3>3 DEF BInv, MadeAsAsked, SidesKeptApart, NeverCutToNothing
        <3>5. Downloaded' /\ Built(builder)' = Built(builder)
            BY <3>1 DEF BInv, Downloaded, FirstCandidateLoads
        <3>6. /\ (Answers("pooling") /\ Answers("query_prefix") /\ Answers("doc_prefix"))'
              /\ (Answers("model_id") <=> Answers("model_id")') /\ (Answers("onnx_path") <=> Answers("onnx_path")')
            BY <3>1, <3>2 DEF BInv, Answers
        <3>7. QED
            BY <3>1, <3>3, <3>4, <3>5, <3>6 DEF BInv
    <2>3. QED
        BY <2>1, <2>2, BuildBInv, FromOnnxBInv, FromPretrainedBInv, FetchBInv, FinishFetchBInv,
           EmbedBInv DEF BuilderNext
<1>2. QED
    BY InitBInv, <1>1, PTL DEF BuilderSpec

(* Whatever setters were called in whatever order, through a download whose parts fail
   or not: a text is embedded under the id, with the pooling, the prefix, the cap and the
   graph that were asked for last, and a downloaded graph is the first of the candidates
   that could be had. *)
THEOREM ProviderServesAsAsked == BuilderSpec => []ServedAsAsked
<1>1. BInv => ServedAsAsked
    BY DEF BInv, Downloaded, ServedAsAsked, FirstCandidateLoads
<1>2. QED
    BY <1>1, BuilderInvariance, PTL

-----------------------------------------------------------------------------
(* From hidden states to an embedding. *)

\* A row of values, each the step from the one before.
IsRow(F, n, start, g) == F = [i \in 0 .. n |-> IF i = 0 THEN start ELSE g[i][F[i - 1]]]

LEMMA RowExists ==
    ASSUME NEW n \in Nat, NEW V, NEW start \in V, NEW g \in [1 .. n -> [V -> V]]
    PROVE  \E F \in [0 .. n -> V] : IsRow(F, n, start, g)
<1> DEFINE Row(k, F) == F = [i \in 0 .. k |-> IF i = 0 THEN start ELSE g[i][F[i - 1]]]
           Good == {k \in Nat : k <= n => \E F \in [0 .. k -> V] : Row(k, F)}
<1>1. 0 \in Good
    <2> DEFINE F == [i \in 0 .. 0 |-> start]
    <2>1. F \in [0 .. 0 -> V] /\ Row(0, F)
        OBVIOUS
    <2>2. QED
        BY <2>1
<1>2. ASSUME NEW k \in Nat, k \in Good PROVE k + 1 \in Good
    <2> SUFFICES ASSUME k + 1 <= n PROVE \E G \in [0 .. k + 1 -> V] : Row(k + 1, G)
        OBVIOUS
    <2>1. PICK F \in [0 .. k -> V] : Row(k, F)
        BY <1>2
    <2> DEFINE G == [i \in 0 .. k + 1 |-> IF i <= k THEN F[i] ELSE g[k + 1][F[k]]]
    <2>2. g[k + 1] \in [V -> V] /\ F[k] \in V
        OBVIOUS
    <2>3. G \in [0 .. k + 1 -> V]
        BY <2>2
    <2>4. ASSUME NEW i \in 0 .. k + 1 PROVE G[i] = IF i = 0 THEN start ELSE g[i][G[i - 1]]
        <3>1. CASE i = k + 1
            BY <3>1
        <3>2. CASE i # k + 1
            <4>1. i \in 0 .. k /\ (i # 0 => i - 1 \in 0 .. k)
                BY <3>2
            <4>2. F[i] = IF i = 0 THEN start ELSE g[i][F[i - 1]]
                BY <2>1, <4>1
            <4>3. G[i] = F[i] /\ (i # 0 => G[i - 1] = F[i - 1])
                BY <4>1
            <4>4. QED
                BY <4>2, <4>3
        <3>3. QED
            BY <3>1, <3>2
    <2>5. Row(k + 1, G)
        BY <2>4
    <2>6. QED
        BY <2>3, <2>5
<1> HIDE DEF Good
<1>3. n \in Good
    BY <1>1, <1>2, SetInduction
<1>4. QED
    BY <1>3 DEF Good, IsRow

StaysIn(F, n, V) == \A i \in 1 .. n : F[i - 1] \in V => F[i] \in V

LEMMA RowTyped ==
    ASSUME NEW n \in Nat, NEW V, NEW F, F[0] \in V, StaysIn(F, n, V)
    PROVE  \A i \in 0 .. n : F[i] \in V
<1> DEFINE Good == {k \in Nat : k <= n => F[k] \in V}
<1>1. 0 \in Good
    OBVIOUS
<1>2. ASSUME NEW k \in Nat, k \in Good PROVE k + 1 \in Good
    <2> SUFFICES ASSUME k + 1 <= n PROVE F[k + 1] \in V
        OBVIOUS
    <2>1. k + 1 \in 1 .. n /\ (k + 1) - 1 = k
        OBVIOUS
    <2>2. QED
        BY <1>2, <2>1 DEF StaysIn
<1> HIDE DEF Good
<1>3. \A k \in Nat : k \in Good
    BY <1>1, <1>2, SetInduction
<1>4. QED
    BY <1>3 DEF Good

-----------------------------------------------------------------------------
(* Products of vectors. *)
IsDot(F, x, y) ==
    F = [d \in 0 .. Len(x) |-> IF d = 0 THEN 0 ELSE F[d - 1] + x[d] * y[d]]

LEMMA DotStep ==
    ASSUME NEW x \in Seq(Int), NEW y \in Seq(Int), Len(x) = Len(y),
           NEW F, IsDot(F, x, y)
    PROVE  F[0] = 0 /\ \A d \in 1 .. Len(x) : F[d] = F[d - 1] + x[d] * y[d]
<1> DEFINE n == Len(x)
           Entry(d) == IF d = 0 THEN 0 ELSE F[d - 1] + x[d] * y[d]
<1>1. n \in Nat
    BY LenProperties
<1>2. F = [d \in 0 .. n |-> Entry(d)]
    BY DEF IsDot
<1> HIDE DEF n, Entry
<1>3. ASSUME NEW d \in 0 .. n PROVE F[d] = Entry(d)
    BY <1>2
<1>4. F[0] = Entry(0) /\ \A d \in 1 .. n : F[d] = Entry(d) /\ d # 0
    BY <1>1, <1>3
<1>5. QED
    BY <1>4 DEF Entry, n

LEMMA DotIs ==
    ASSUME NEW x \in Seq(Int), NEW y \in Seq(Int), Len(x) = Len(y)
    PROVE  \E F \in [0 .. Len(x) -> Int] : IsDot(F, x, y) /\ Dot(x, y) = F[Len(x)]
<1> DEFINE n == Len(x)
           g == [d \in 1 .. n |-> [s \in Int |-> s + x[d] * y[d]]]
<1>1. n \in Nat /\ \A d \in 1 .. n : x[d] \in Int /\ y[d] \in Int /\ x[d] * y[d] \in Int
    BY ElementOfSeq, LenProperties
<1>2. g \in [1 .. n -> [Int -> Int]]
    BY <1>1
<1>3. \A d \in 1 .. n : \A s \in Int : g[d][s] = s + x[d] * y[d]
    OBVIOUS
<1> HIDE DEF g, n
<1>4. PICK F \in [0 .. n -> Int] : IsRow(F, n, 0, g)
    <2>1. n \in Nat /\ 0 \in Int
        BY <1>1
    <2>2. QED
        BY <1>2, <2>1, RowExists, Zenon
<1>5. IsDot(F, x, y)
    <2> USE DEF n
    <2>1. ASSUME NEW i \in 0 .. n, i # 0 PROVE g[i][F[i - 1]] = F[i - 1] + x[i] * y[i]
        <3>1. i \in 1 .. n /\ i - 1 \in 0 .. n
            BY <1>1, <2>1
        <3>2. F[i - 1] \in Int
            BY <3>1
        <3>3. QED
            BY <1>3, <3>1, <3>2
    <2>2. QED
        BY <1>4, <2>1 DEF IsDot, IsRow
<1> DEFINE G == CHOOSE H : IsDot(H, x, y)
<1>6. IsDot(G, x, y)
    BY <1>5
<1>7. Dot(x, y) = G[n]
    BY DEF Dot, IsDot, n
<1> HIDE DEF G
<1>8. G[0] = 0 /\ \A d \in 1 .. n : G[d] = G[d - 1] + x[d] * y[d]
    BY <1>6, DotStep DEF n
<1>9. \A i \in 0 .. n : G[i] \in Int
    <2>1. ASSUME NEW i \in 1 .. n, G[i - 1] \in Int PROVE G[i] \in Int
        BY <1>1, <1>8, <2>1
    <2>2. G[0] \in Int /\ StaysIn(G, n, Int)
        BY <1>8, <2>1 DEF StaysIn
    <2>3. QED
        BY <1>1, <2>2, RowTyped
<1>10. G \in [0 .. n -> Int]
    BY <1>6, <1>9 DEF IsDot, n
<1>11. QED
    BY <1>6, <1>7, <1>10 DEF n

LEMMA NoSquareBelowZero == ASSUME NEW a \in Int PROVE a * a >= 0 /\ (a * a = 0 => a = 0)
OBVIOUS

\* One more entry keeps the square of the product within that of the norms.
LEMMA CauchyStep ==
    ASSUME NEW D \in Int, NEW A \in Int, NEW B \in Int, NEW x \in Int, NEW y \in Int,
           A >= 0, B >= 0, D * D <= A * B
    PROVE  (D + x * y) * (D + x * y) <= (A + x * x) * (B + y * y)
<1> DEFINE T == A * (y * y) + B * (x * x) - 2 * (D * (x * y))
<1>1. T \in Int
    OBVIOUS
<1>2. T >= 0
    <2>1. CASE A = 0
        <3>1. D * D <= 0
            BY <2>1
        <3>2. D = 0
            BY <3>1, NoSquareBelowZero
        <3>3. x * x >= 0
            BY NoSquareBelowZero
        <3>4. B * (x * x) >= 0
            BY <3>3, Z3
        <3>5. A * (y * y) = 0 /\ D * (x * y) = 0
            BY <2>1, <3>2, Z3
        <3>6. QED
            BY <3>4, <3>5
    <2>2. CASE A > 0
        <3> DEFINE e == A * y - D * x
        <3>1. A * T = e * e + (A * B - D * D) * (x * x)
            BY Z3
        <3>2. e * e >= 0
            BY NoSquareBelowZero
        <3>3. x * x >= 0
            BY NoSquareBelowZero
        <3>4. (A * B - D * D) * (x * x) >= 0
            <4>1. A * B - D * D >= 0
                OBVIOUS
            <4> DEFINE p == A * B - D * D
                       q == x * x
            <4>2. p \in Int /\ q \in Int /\ p >= 0 /\ q >= 0
                BY <4>1, <3>3
            <4> HIDE DEF p, q
            <4>3. p * q >= 0
                BY <4>2, Z3
            <4>4. QED
                BY <4>3 DEF p, q
        <3>5. A * T >= 0
            BY <3>1, <3>2, <3>4
        <3> HIDE DEF T
        <3>6. QED
            BY <1>1, <2>2, <3>5, Z3
    <2>3. QED
        BY <2>1, <2>2
<1>3. (A + x * x) * (B + y * y) - (D + x * y) * (D + x * y) = (A * B - D * D) + T
    BY Z3
<1>4. QED
    BY <1>1, <1>2, <1>3

\* The square of a product is within the product of the squares.
Within(d, a, b) == a >= 0 /\ b >= 0 /\ d * d <= a * b

LEMMA CauchySchwarz ==
    ASSUME NEW x \in Seq(Int), NEW y \in Seq(Int), Len(x) = Len(y)
    PROVE  /\ Dot(x, y) \in Int /\ Dot(x, x) \in Int /\ Dot(y, y) \in Int
           /\ Within(Dot(x, y), Dot(x, x), Dot(y, y))
<1> DEFINE n == Len(x)
<1>1. n \in Nat /\ \A d \in 1 .. n : x[d] \in Int /\ y[d] \in Int
    BY ElementOfSeq, LenProperties
<1>2. PICK D \in [0 .. n -> Int] : IsDot(D, x, y) /\ Dot(x, y) = D[n]
    BY DotIs
<1>3. PICK A \in [0 .. n -> Int] : IsDot(A, x, x) /\ Dot(x, x) = A[n]
    BY DotIs
<1>4. PICK B \in [0 .. n -> Int] : IsDot(B, y, y) /\ Dot(y, y) = B[n]
    BY DotIs
<1>5. D[0] = 0 /\ \A d \in 1 .. n : D[d] = D[d - 1] + x[d] * y[d]
    BY <1>2, DotStep
<1>6. A[0] = 0 /\ \A d \in 1 .. n : A[d] = A[d - 1] + x[d] * x[d]
    BY <1>3, DotStep
<1>7. B[0] = 0 /\ \A d \in 1 .. n : B[d] = B[d - 1] + y[d] * y[d]
    <2>1. \A d \in 1 .. Len(y) : B[d] = B[d - 1] + y[d] * y[d]
        BY <1>4, DotStep
    <2>2. B[0] = 0
        BY <1>4, DotStep
    <2>3. Len(y) = n
        OBVIOUS
    <2> HIDE DEF n
    <2>4. QED
        BY <2>1, <2>2, <2>3
<1> HIDE DEF n
<1> DEFINE Good == {k \in Nat : k <= n => Within(D[k], A[k], B[k])}
<1>8. 0 \in Good
    BY <1>5, <1>6, <1>7 DEF Within
<1>9. ASSUME NEW k \in Nat, k \in Good PROVE k + 1 \in Good
    <2> SUFFICES ASSUME k + 1 <= n PROVE Within(D[k + 1], A[k + 1], B[k + 1])
        OBVIOUS
    <2>1. k \in 0 .. n /\ k + 1 \in 1 .. n /\ (k + 1) - 1 = k
        BY <1>1
    <2>2. Within(D[k], A[k], B[k]) /\ D[k] \in Int /\ A[k] \in Int /\ B[k] \in Int
        BY <1>9, <2>1
    <2> DEFINE a == x[k + 1]
               b == y[k + 1]
               d0 == D[k]
               a0 == A[k]
               b0 == B[k]
    <2>3. a \in Int /\ b \in Int
        BY <1>1, <2>1
    <2>4. D[k + 1] = d0 + a * b /\ A[k + 1] = a0 + a * a /\ B[k + 1] = b0 + b * b
        BY <1>5, <1>6, <1>7, <2>1
    <2>5. Within(d0, a0, b0) /\ d0 \in Int /\ a0 \in Int /\ b0 \in Int
        BY <2>2
    <2> HIDE DEF a, b, d0, a0, b0
    <2>6. (d0 + a * b) * (d0 + a * b) <= (a0 + a * a) * (b0 + b * b)
        BY <2>3, <2>5, CauchyStep DEF Within
    <2>7. a0 + a * a >= 0 /\ b0 + b * b >= 0
        <3>1. a * a >= 0 /\ b * b >= 0
            BY <2>3, NoSquareBelowZero
        <3>2. a * a \in Int /\ b * b \in Int
            BY <2>3
        <3>3. QED
            BY <2>5, <3>1, <3>2 DEF Within
    <2>8. QED
        BY <2>4, <2>6, <2>7 DEF Within
<1> HIDE DEF Good
<1>10. \A k \in Nat : k \in Good
    BY <1>8, <1>9, SetInduction
<1>11. Within(D[n], A[n], B[n]) /\ D[n] \in Int /\ A[n] \in Int /\ B[n] \in Int
    BY <1>1, <1>10 DEF Good
<1>12. QED
    BY <1>2, <1>3, <1>4, <1>11

LEMMA ZerosHaveNoNorm ==
    ASSUME NEW x \in Seq(Int), \A d \in 1 .. Len(x) : x[d] = 0
    PROVE  Dot(x, x) = 0
<1> DEFINE n == Len(x)
<1>1. n \in Nat
    BY LenProperties
<1>2. PICK F \in [0 .. n -> Int] : IsDot(F, x, x) /\ Dot(x, x) = F[n]
    BY DotIs
<1>3. F[0] = 0 /\ \A d \in 1 .. n : F[d] = F[d - 1] + x[d] * x[d]
    BY <1>2, DotStep
<1>4. \A d \in 1 .. n : x[d] = 0
    OBVIOUS
<1> HIDE DEF n
<1>5. StaysIn(F, n, {0})
    BY <1>3, <1>4 DEF StaysIn
<1>6. \A i \in 0 .. n : F[i] \in {0}
    <2> DEFINE V == {0}
    <2>1. F[0] \in V /\ StaysIn(F, n, V)
        BY <1>3, <1>5
    <2> HIDE DEF V
    <2>2. \A i \in 0 .. n : F[i] \in V
        BY <1>1, <2>1, RowTyped
    <2>3. QED
        BY <2>2 DEF V
<1>7. QED
    BY <1>1, <1>2, <1>6

-----------------------------------------------------------------------------
(* Floats. *)
LEMMA FloatsAre ==
    /\ Finite \subseteq Int /\ Finite \subseteq Floats /\ 0 \in Finite /\ -MaxFloat \in Finite
    /\ \A x \in Int : IsFinite(x)
    /\ \A x \in Floats : IsFinite(x) => x \in Finite
BY PoolingAssumption DEF Finite, Floats, IsFinite

LEMMA PlusTyped ==
    ASSUME NEW x \in Floats, NEW y \in Floats
    PROVE  /\ Plus(x, y) \in Floats
           /\ IsFinite(Plus(x, y)) => IsFinite(x) /\ IsFinite(y)
<1>1. CASE IsFinite(x) /\ IsFinite(y)
    <2>1. x \in Finite /\ y \in Finite
        BY <1>1, FloatsAre
    <2>2. x + y \in Int /\ MaxFloat \in Nat
        BY <2>1, PoolingAssumption DEF Finite
    <2>3. Float(x + y) \in Floats
        BY <2>2 DEF Float, Floats, Finite
    <2>4. QED
        BY <1>1, <2>3 DEF Plus
<1>2. CASE ~(IsFinite(x) /\ IsFinite(y))
    <2>1. Plus(x, y) \in {NaN, x, y} /\ ~IsFinite(Plus(x, y))
        BY <1>2 DEF Plus, IsFinite
    <2>2. QED
        BY <2>1 DEF Floats
<1>3. QED
    BY <1>1, <1>2

\* The squares of a vector, if all its entries are finite.
LEMMA SquaresOfFinite ==
    ASSUME NEW v, v.entries \in Seq(Finite), v.count \in Nat
    PROVE  /\ SumOfSquares(v) \in {Inf, Products(v, v)}
           /\ Products(v, v) \in Int /\ Products(v, v) >= 0
           /\ SumOfSquares(v) # NaN
           /\ Products(v, v) = 0 => SumOfSquares(v) = 0
<1>1. v.entries \in Seq(Int) /\ \A d \in DOMAIN v.entries : v.entries[d] \in Finite
    <2>1. \A e \in Seq(Finite) : e \in Seq(Int) /\ \A d \in DOMAIN e : e[d] \in Finite
        <3> SUFFICES ASSUME NEW e \in Seq(Finite)
                     PROVE  e \in Seq(Int) /\ \A d \in DOMAIN e : e[d] \in Finite
            OBVIOUS
        <3>1. Finite \subseteq Int
            BY FloatsAre
        <3>2. Len(e) \in Nat /\ DOMAIN e = 1 .. Len(e) /\ \A d \in 1 .. Len(e) : e[d] \in Finite
            BY LenProperties, ElementOfSeq
        <3>3. e \in [1 .. Len(e) -> Int]
            BY <3>1, <3>2, LenProperties
        <3>4. QED
            BY <3>2, <3>3, SeqDef
    <2>2. QED
        BY <2>1
<1>2. Products(v, v) \in Int /\ Products(v, v) >= 0
    BY <1>1, CauchySchwarz DEF Products, Within
<1>3. NaN \notin Int /\ Inf # NaN /\ MaxFloat \in Nat
    BY PoolingAssumption
<1>4. NaN \notin {v.entries[d] : d \in DOMAIN v.entries}
    BY <1>1, <1>3, FloatsAre
<1>5. \A d \in DOMAIN v.entries : IsFinite(v.entries[d])
    BY <1>1, FloatsAre
<1>6. SumOfSquares(v) = IF Products(v, v) > MaxFloat * v.count * v.count THEN Inf ELSE Products(v, v)
    BY <1>4, <1>5 DEF SumOfSquares
<1>7. MaxFloat * v.count * v.count >= 0
    <2> DEFINE c == v.count
    <2>1. c \in Nat
        OBVIOUS
    <2> HIDE DEF c
    <2>2. MaxFloat * c \in Nat
        BY <1>3, <2>1, Z3
    <2>3. QED
        BY <2>1, <2>2, Z3 DEF c
<1>8. QED
    BY <1>2, <1>3, <1>6, <1>7

-----------------------------------------------------------------------------
(* The tokens that count and what is made of them. *)
IsKept(F, h, m) ==
    F = [tok \in 0 .. Len(h) |-> IF tok = 0 THEN << >>
                                 ELSE IF Keep(m, tok) THEN Append(F[tok - 1], h[tok])
                                 ELSE F[tok - 1]]

LEMMA KeptStep ==
    ASSUME NEW h, Len(h) \in Nat, NEW m, NEW F, IsKept(F, h, m)
    PROVE  /\ F[0] = << >>
           /\ \A tok \in 1 .. Len(h) :
                 F[tok] = IF Keep(m, tok) THEN Append(F[tok - 1], h[tok]) ELSE F[tok - 1]
<1> DEFINE n == Len(h)
           Entry(tok) == IF tok = 0 THEN << >>
                         ELSE IF Keep(m, tok) THEN Append(F[tok - 1], h[tok])
                         ELSE F[tok - 1]
<1>1. n \in Nat
    OBVIOUS
<1>2. F = [tok \in 0 .. n |-> Entry(tok)]
    BY DEF IsKept
<1> HIDE DEF n, Entry
<1>3. ASSUME NEW tok \in 0 .. n PROVE F[tok] = Entry(tok)
    BY <1>2
<1>4. F[0] = Entry(0) /\ \A tok \in 1 .. n : F[tok] = Entry(tok) /\ tok # 0
    BY <1>1, <1>3
<1>5. QED
    BY <1>4 DEF Entry, n

LEMMA KeptIs ==
    ASSUME NEW R, NEW h \in Seq(R), NEW m
    PROVE  \E F \in [0 .. Len(h) -> Seq(R)] : IsKept(F, h, m) /\ Kept(h, m) = F[Len(h)]
<1> DEFINE n == Len(h)
           g == [tok \in 1 .. n |-> [s \in Seq(R) |-> IF Keep(m, tok) THEN Append(s, h[tok]) ELSE s]]
<1>1. n \in Nat /\ \A tok \in 1 .. n : h[tok] \in R
    BY ElementOfSeq, LenProperties
<1>2. \A tok \in 1 .. n : \A s \in Seq(R) : Append(s, h[tok]) \in Seq(R)
    BY <1>1, AppendProperties
<1>3. g \in [1 .. n -> [Seq(R) -> Seq(R)]]
    BY <1>2
<1>4. \A tok \in 1 .. n : \A s \in Seq(R) : g[tok][s] = IF Keep(m, tok) THEN Append(s, h[tok]) ELSE s
    OBVIOUS
<1> HIDE DEF g, n
<1>5. PICK F \in [0 .. n -> Seq(R)] : IsRow(F, n, << >>, g)
    <2>1. << >> \in Seq(R)
        OBVIOUS
    <2>2. QED
        BY <1>1, <1>3, <2>1, RowExists, Zenon
<1>6. IsKept(F, h, m)
    <2>1. ASSUME NEW tok \in 0 .. n, tok # 0
          PROVE  g[tok][F[tok - 1]] = IF Keep(m, tok) THEN Append(F[tok - 1], h[tok]) ELSE F[tok - 1]
        <3>1. tok \in 1 .. n /\ tok - 1 \in 0 .. n
            BY <1>1, <2>1
        <3>2. F[tok - 1] \in Seq(R)
            BY <3>1
        <3>3. QED
            BY <1>4, <3>1, <3>2
    <2>2. F = [tok \in 0 .. n |-> IF tok = 0 THEN << >> ELSE g[tok][F[tok - 1]]]
        BY <1>5 DEF IsRow
    <2>3. F = [tok \in 0 .. n |-> IF tok = 0 THEN << >>
                                  ELSE IF Keep(m, tok) THEN Append(F[tok - 1], h[tok])
                                  ELSE F[tok - 1]]
        BY <2>1, <2>2, Zenon
    <2>4. QED
        BY <2>3 DEF IsKept, n
<1> DEFINE G == CHOOSE H : IsKept(H, h, m)
<1>7. IsKept(G, h, m)
    BY <1>6
<1>8. Kept(h, m) = G[n]
    BY DEF Kept, IsKept, n
<1> HIDE DEF G
<1>9. G[0] = << >> /\ \A tok \in 1 .. n :
          G[tok] = IF Keep(m, tok) THEN Append(G[tok - 1], h[tok]) ELSE G[tok - 1]
    BY <1>1, <1>7, KeptStep DEF n
<1>10. \A i \in 0 .. n : G[i] \in Seq(R)
    <2>1. ASSUME NEW tok \in 1 .. n, G[tok - 1] \in Seq(R) PROVE G[tok] \in Seq(R)
        <3>1. Append(G[tok - 1], h[tok]) \in Seq(R)
            BY <1>2, <2>1
        <3>2. QED
            BY <1>9, <2>1, <3>1
    <2>2. StaysIn(G, n, Seq(R))
        BY <2>1 DEF StaysIn
    <2>3. G[0] \in Seq(R)
        BY <1>9
    <2>4. QED
        BY <1>1, <2>2, <2>3, RowTyped
<1>11. G \in [0 .. n -> Seq(R)]
    BY <1>7, <1>10 DEF IsKept, n
<1>12. QED
    BY <1>7, <1>8, <1>11 DEF n

\* Every token that counts is kept.
LEMMA KeptHasAll ==
    ASSUME NEW R, NEW h \in Seq(R), NEW m, NEW tok \in 1 .. Len(h), Keep(m, tok)
    PROVE  \E i \in 1 .. Len(Kept(h, m)) : Kept(h, m)[i] = h[tok]
<1> DEFINE n == Len(h)
<1>1. n \in Nat /\ \A t \in 1 .. n : h[t] \in R
    BY ElementOfSeq, LenProperties
<1>2. PICK F \in [0 .. n -> Seq(R)] : IsKept(F, h, m) /\ Kept(h, m) = F[n]
    BY KeptIs
<1>3. \A t \in 1 .. n : F[t] = IF Keep(m, t) THEN Append(F[t - 1], h[t]) ELSE F[t - 1]
    BY <1>1, <1>2, KeptStep
<1>4. tok \in 1 .. n
    OBVIOUS
<1> HIDE DEF n
<1> DEFINE Has(k) == \E i \in 1 .. Len(F[k]) : F[k][i] = h[tok]
           Good == {k \in Nat : tok <= k /\ k <= n => Has(k)}
<1>5. 0 \in Good
    BY <1>1, <1>4
<1>6. ASSUME NEW k \in Nat, k \in Good PROVE k + 1 \in Good
    <2> SUFFICES ASSUME tok <= k + 1, k + 1 <= n PROVE Has(k + 1)
        OBVIOUS
    <2>1. k \in 0 .. n /\ k + 1 \in 1 .. n /\ (k + 1) - 1 = k
        BY <1>1
    <2>2. F[k] \in Seq(R) /\ h[k + 1] \in R /\ Len(F[k]) \in Nat
        BY <1>1, <2>1, LenProperties
    <2>3. F[k + 1] = IF Keep(m, k + 1) THEN Append(F[k], h[k + 1]) ELSE F[k]
        BY <1>3, <2>1
    <2>4. /\ Len(Append(F[k], h[k + 1])) = Len(F[k]) + 1
          /\ \A i \in 1 .. Len(F[k]) : Append(F[k], h[k + 1])[i] = F[k][i]
          /\ Append(F[k], h[k + 1])[Len(F[k]) + 1] = h[k + 1]
        BY <2>2, AppendProperties
    <2>5. CASE tok = k + 1
        <3>1. F[k + 1] = Append(F[k], h[tok])
            BY <2>3, <2>5
        <3>2. Len(F[k + 1]) = Len(F[k]) + 1 /\ F[k + 1][Len(F[k]) + 1] = h[tok]
            BY <2>4, <2>5, <3>1
        <3>3. QED
            BY <2>2, <3>2
    <2>6. CASE tok # k + 1
        <3>1. tok <= k /\ k <= n
            BY <1>1, <1>4, <2>1, <2>6
        <3>2. PICK i \in 1 .. Len(F[k]) : F[k][i] = h[tok]
            BY <1>6, <3>1
        <3>3. i \in 1 .. Len(F[k + 1]) /\ F[k + 1][i] = h[tok]
            BY <2>2, <2>3, <2>4, <3>2
        <3>4. QED
            BY <3>3
    <2>7. QED
        BY <2>5, <2>6
<1> HIDE DEF Good
<1>7. \A k \in Nat : k \in Good
    BY <1>5, <1>6, SetInduction
<1>8. Has(n)
    BY <1>1, <1>4, <1>7 DEF Good
<1>9. QED
    BY <1>2, <1>8

\* The places of the tokens that count, in their order.
IsCounting(counting, n, h, m) ==
    /\ counting \in [1 .. n -> 1 .. Len(h)]
    /\ \A i, j \in 1 .. n : i < j => counting[i] < counting[j]
    /\ \A tok \in 1 .. Len(h) : Keep(m, tok) <=> \E i \in 1 .. n : counting[i] = tok

LEMMA KeptIsCounting ==
    ASSUME NEW R, NEW h \in Seq(R), NEW m, NEW n \in Nat, NEW counting, IsCounting(counting, n, h, m)
    PROVE  Kept(h, m) = [i \in 1 .. n |-> h[counting[i]]]
<1> DEFINE l == Len(h)
<1>1. l \in Nat /\ \A t \in 1 .. l : h[t] \in R
    BY ElementOfSeq, LenProperties
<1>2. PICK F \in [0 .. l -> Seq(R)] : IsKept(F, h, m) /\ Kept(h, m) = F[l]
    BY KeptIs
<1>3. F[0] = << >> /\ \A t \in 1 .. l : F[t] = IF Keep(m, t) THEN Append(F[t - 1], h[t]) ELSE F[t - 1]
    BY <1>1, <1>2, KeptStep
<1>4. /\ \A i \in 1 .. n : counting[i] \in 1 .. l
      /\ \A i, j \in 1 .. n : i < j => counting[i] < counting[j]
      /\ \A tok \in 1 .. l : Keep(m, tok) <=> \E i \in 1 .. n : counting[i] = tok
    BY DEF IsCounting
<1> HIDE DEF l
<1> DEFINE Sub(k) == [i \in 1 .. k |-> h[counting[i]]]
           Reached(t, k) == \A i \in 1 .. n : counting[i] <= t <=> i <= k
           Good == {t \in Nat : t <= l => \E k \in 0 .. n : Reached(t, k) /\ F[t] = Sub(k)}
<1>5. 0 \in Good
    <2>1. Reached(0, 0)
        BY <1>1, <1>4
    <2>2. F[0] = Sub(0)
        BY <1>3
    <2>3. QED
        BY <2>1, <2>2
<1>6. ASSUME NEW t \in Nat, t \in Good PROVE t + 1 \in Good
    <2> SUFFICES ASSUME t + 1 <= l PROVE \E k \in 0 .. n : Reached(t + 1, k) /\ F[t + 1] = Sub(k)
        <3> HIDE DEF Reached, Sub
        <3> QED
            OBVIOUS
    <2>1. t \in 0 .. l /\ t + 1 \in 1 .. l /\ (t + 1) - 1 = t
        BY <1>1
    <2>2. PICK k \in 0 .. n : Reached(t, k) /\ F[t] = Sub(k)
        BY <1>1, <1>6, <2>1
    <2>3. F[t + 1] = IF Keep(m, t + 1) THEN Append(F[t], h[t + 1]) ELSE F[t]
        BY <1>3, <2>1
    <2>4. CASE Keep(m, t + 1)
        <3>1. PICK i0 \in 1 .. n : counting[i0] = t + 1
            BY <1>4, <2>1, <2>4
        <3>2. i0 = k + 1
            <4>1. i0 > k
                BY <2>2, <3>1
            <4>2. ASSUME i0 > k + 1 PROVE FALSE
                <5>1. k + 1 \in 1 .. n /\ k + 1 < i0
                    BY <4>2
                <5>2. counting[k + 1] < t + 1 /\ counting[k + 1] \in 1 .. l
                    BY <1>4, <3>1, <5>1
                <5>3. counting[k + 1] <= t
                    BY <5>2
                <5>4. QED
                    BY <2>2, <5>1, <5>3
            <4>3. QED
                BY <4>1, <4>2
        <3>3. k + 1 \in 0 .. n /\ counting[k + 1] = t + 1
            BY <3>1, <3>2
        <3>4. ASSUME NEW i \in 1 .. n PROVE counting[i] <= t + 1 <=> i <= k + 1
            <4>1. CASE i <= k + 1
                <5>1. i < i0 \/ i = i0
                    BY <3>2, <4>1
                <5>2. counting[i] <= t + 1
                    BY <1>4, <3>1, <5>1
                <5>3. QED
                    BY <4>1, <5>2
            <4>2. CASE i > k + 1
                <5>1. i0 < i
                    BY <3>2, <4>2
                <5>2. counting[i] > t + 1 /\ counting[i] \in 1 .. l
                    BY <1>4, <3>1, <5>1
                <5>3. QED
                    BY <4>2, <5>2
            <4>3. QED
                BY <4>1, <4>2
        <3>5. F[t + 1] = Append(Sub(k), h[counting[k + 1]])
            BY <2>2, <2>3, <2>4, <3>3
        <3>6. Append(Sub(k), h[counting[k + 1]]) = Sub(k + 1)
            <4>1. k \in Nat
                OBVIOUS
            <4>2. \A i \in 1 .. k + 1 : h[counting[i]] \in R
                BY <1>1, <1>4, <3>3
            <4>3. Sub(k) \in Seq(R) /\ Len(Sub(k)) = k /\ Sub(k + 1) \in Seq(R) /\ Len(Sub(k + 1)) = k + 1
                BY <4>1, <4>2, LenProperties
            <4>4. h[counting[k + 1]] \in R
                BY <4>1, <4>2
            <4> DEFINE A == Append(Sub(k), h[counting[k + 1]])
            <4>5. /\ A \in Seq(R) /\ Len(A) = k + 1
                  /\ \A i \in 1 .. k : A[i] = Sub(k)[i]
                  /\ A[k + 1] = h[counting[k + 1]]
                <5> HIDE DEF Sub
                <5>1. QED
                    BY <4>3, <4>4, AppendProperties
            <4>6. \A i \in 1 .. k + 1 : A[i] = Sub(k + 1)[i]
                <5> HIDE DEF A
                <5>1. \A i \in 1 .. k : Sub(k)[i] = Sub(k + 1)[i]
                    BY <4>1
                <5>2. Sub(k + 1)[k + 1] = h[counting[k + 1]]
                    BY <4>1
                <5> HIDE DEF Sub
                <5>3. QED
                    BY <4>1, <4>5, <5>1, <5>2
            <4> HIDE DEF A, Sub
            <4>7. A = Sub(k + 1)
                BY <4>3, <4>5, <4>6, SeqEqual
            <4>8. QED
                BY <4>7 DEF A
        <3> HIDE DEF Sub
        <3>7. QED
            BY <3>3, <3>4, <3>5, <3>6
    <2>5. CASE ~Keep(m, t + 1)
        <3>1. ASSUME NEW i \in 1 .. n PROVE counting[i] <= t + 1 <=> i <= k
            <4>1. counting[i] # t + 1 /\ counting[i] \in 1 .. l
                BY <1>4, <2>1, <2>5
            <4>2. counting[i] <= t + 1 <=> counting[i] <= t
                BY <4>1
            <4>3. QED
                BY <2>2, <4>2
        <3>2. F[t + 1] = Sub(k)
            BY <2>2, <2>3, <2>5
        <3> HIDE DEF Sub
        <3>3. QED
            BY <3>1, <3>2
    <2>6. QED
        BY <2>4, <2>5
<1> HIDE DEF Good
<1>7. l \in Good
    BY <1>1, <1>5, <1>6, SetInduction
<1>8. PICK k \in 0 .. n : Reached(l, k) /\ F[l] = Sub(k)
    BY <1>1, <1>7 DEF Good
<1>9. k = n
    <2>1. ASSUME k < n PROVE FALSE
        <3>1. k + 1 \in 1 .. n
            BY <2>1
        <3>2. counting[k + 1] \in 1 .. l
            BY <1>4, <3>1
        <3>3. counting[k + 1] <= l
            BY <3>2
        <3>4. k + 1 <= k
            BY <1>8, <3>1, <3>3
        <3>5. QED
            BY <3>4
    <2>2. QED
        BY <2>1
<1>10. QED
    BY <1>2, <1>8, <1>9

-----------------------------------------------------------------------------
Rows(w) == [1 .. w -> Floats]

IsSum(F, rows, start) ==
    F = [i \in 0 .. Len(rows) |-> IF i = 0 THEN start ELSE Add(F[i - 1], rows[i])]

LEMMA AddTyped ==
    ASSUME NEW w \in Nat, NEW x \in Rows(w), NEW y \in Rows(w)
    PROVE  /\ Add(x, y) \in Rows(w)
           /\ \A d \in 1 .. w : IsFinite(Add(x, y)[d]) => IsFinite(x[d]) /\ IsFinite(y[d])
<1>1. DOMAIN x = 1 .. w /\ \A d \in 1 .. w : x[d] \in Floats /\ y[d] \in Floats
    BY DEF Rows
<1>2. Add(x, y) = [d \in 1 .. w |-> Plus(x[d], y[d])]
    BY <1>1 DEF Add
<1>3. \A d \in 1 .. w : /\ Plus(x[d], y[d]) \in Floats
                        /\ IsFinite(Plus(x[d], y[d])) => IsFinite(x[d]) /\ IsFinite(y[d])
    BY <1>1, PlusTyped
<1>4. QED
    BY <1>2, <1>3 DEF Rows

LEMMA SumIs ==
    ASSUME NEW w \in Nat, NEW rows \in Seq(Rows(w)), NEW start \in Rows(w)
    PROVE  \E F \in [0 .. Len(rows) -> Rows(w)] :
               /\ SumOf(rows, start) = F[Len(rows)]
               /\ F[0] = start
               /\ \A i \in 1 .. Len(rows) : F[i] = Add(F[i - 1], rows[i])
<1> DEFINE n == Len(rows)
           R == Rows(w)
           g == [i \in 1 .. n |-> [s \in R |-> Add(s, rows[i])]]
           Entry(F, i) == IF i = 0 THEN start ELSE Add(F[i - 1], rows[i])
<1>1. n \in Nat /\ start \in R /\ \A i \in 1 .. n : rows[i] \in R
    BY ElementOfSeq, LenProperties
<1>2. \A i \in 1 .. n : \A s \in R : Add(s, rows[i]) \in R
    BY <1>1, AddTyped
<1> HIDE DEF R
<1>3. g \in [1 .. n -> [R -> R]]
    BY <1>2
<1>4. \A i \in 1 .. n : \A s \in R : g[i][s] = Add(s, rows[i])
    OBVIOUS
<1> HIDE DEF g, n
<1>5. PICK F \in [0 .. n -> R] : IsRow(F, n, start, g)
    BY <1>1, <1>3, RowExists, Zenon
<1>6. IsSum(F, rows, start)
    <2>1. ASSUME NEW i \in 0 .. n, i # 0 PROVE g[i][F[i - 1]] = Add(F[i - 1], rows[i])
        <3>1. i \in 1 .. n /\ i - 1 \in 0 .. n
            BY <1>1, <2>1
        <3>2. F[i - 1] \in R
            BY <3>1
        <3>3. QED
            BY <1>4, <3>1, <3>2
    <2>2. F = [i \in 0 .. n |-> IF i = 0 THEN start ELSE g[i][F[i - 1]]]
        BY <1>5 DEF IsRow
    <2>3. F = [i \in 0 .. n |-> IF i = 0 THEN start ELSE Add(F[i - 1], rows[i])]
        BY <2>1, <2>2, Zenon
    <2>4. QED
        BY <2>3 DEF IsSum, n
<1> DEFINE G == CHOOSE H : IsSum(H, rows, start)
<1>7. IsSum(G, rows, start)
    BY <1>6
<1>8. SumOf(rows, start) = G[n]
    BY DEF SumOf, IsSum, n
<1> HIDE DEF G
<1>9. G = [i \in 0 .. n |-> Entry(G, i)]
    BY <1>7 DEF IsSum, n
<1>10. G[0] = start /\ \A i \in 1 .. n : G[i] = Add(G[i - 1], rows[i])
    <2> HIDE DEF Entry
    <2>1. \A i \in 0 .. n : G[i] = Entry(G, i)
        BY <1>9
    <2>2. G[0] = Entry(G, 0) /\ \A i \in 1 .. n : i # 0 /\ G[i] = Entry(G, i)
        BY <1>1, <2>1
    <2>3. QED
        BY <2>2 DEF Entry
<1>11. \A i \in 0 .. n : G[i] \in R
    <2>1. ASSUME NEW i \in 1 .. n, G[i - 1] \in R PROVE G[i] \in R
        BY <1>2, <1>10, <2>1
    <2>2. G[0] \in R /\ StaysIn(G, n, R)
        BY <1>1, <1>10, <2>1 DEF StaysIn
    <2>3. QED
        BY <1>1, <2>2, RowTyped
<1>12. G \in [0 .. n -> R]
    BY <1>9, <1>11
<1>13. QED
    BY <1>8, <1>10, <1>12 DEF n, R

\* Nothing that is not finite gets lost in a sum.
LEMMA FiniteSum ==
    ASSUME NEW w \in Nat, NEW rows \in Seq(Rows(w)), NEW start \in Rows(w), NEW d \in 1 .. w,
           IsFinite(SumOf(rows, start)[d])
    PROVE  \A i \in 1 .. Len(rows) : IsFinite(rows[i][d])
<1> DEFINE n == Len(rows)
<1>1. n \in Nat /\ \A i \in 1 .. n : rows[i] \in Rows(w)
    BY ElementOfSeq, LenProperties
<1>2. PICK F \in [0 .. n -> Rows(w)] :
          /\ SumOf(rows, start) = F[n]
          /\ F[0] = start
          /\ \A i \in 1 .. n : F[i] = Add(F[i - 1], rows[i])
    BY SumIs
<1> HIDE DEF n
<1> DEFINE Good == {k \in Nat : k <= n /\ IsFinite(F[k][d]) => \A i \in 1 .. k : IsFinite(rows[i][d])}
<1>3. 0 \in Good
    OBVIOUS
<1>4. ASSUME NEW k \in Nat, k \in Good PROVE k + 1 \in Good
    <2> SUFFICES ASSUME k + 1 <= n, IsFinite(F[k + 1][d])
                 PROVE  \A i \in 1 .. k + 1 : IsFinite(rows[i][d])
        OBVIOUS
    <2>0. n \in Nat
        BY <1>1
    <2>1. k \in 0 .. n /\ k + 1 \in 1 .. n /\ (k + 1) - 1 = k
        BY <2>0
    <2>2. F[k] \in Rows(w) /\ rows[k + 1] \in Rows(w) /\ F[k + 1] = Add(F[k], rows[k + 1])
        BY <1>1, <1>2, <2>1
    <2>3. IsFinite(F[k][d]) /\ IsFinite(rows[k + 1][d])
        BY <2>2, AddTyped
    <2>4. \A i \in 1 .. k : IsFinite(rows[i][d])
        BY <1>4, <2>1, <2>3
    <2>5. \A i \in 1 .. k + 1 : i \in 1 .. k \/ i = k + 1
        OBVIOUS
    <2>6. QED
        BY <2>3, <2>4, <2>5
<1> HIDE DEF Good
<1>5. n \in Good
    BY <1>1, <1>3, <1>4, SetInduction
<1>6. IsFinite(F[n][d])
    BY <1>2
<1>7. QED
    BY <1>1, <1>5, <1>6 DEF Good, n

LEMMA BestTyped ==
    ASSUME NEW w \in Nat, NEW rows \in Seq(Rows(w)), NEW start \in Rows(w)
    PROVE  BestOf(rows, start) \in Rows(w)
<1> DEFINE n == Len(rows)
           R == Rows(w)
           g == [i \in 1 .. n |-> [s \in R |-> Raise(s, rows[i])]]
           Entry(F, i) == IF i = 0 THEN start ELSE Raise(F[i - 1], rows[i])
           IsBest(F) == F = [i \in 0 .. n |-> IF i = 0 THEN start ELSE Raise(F[i - 1], rows[i])]
<1>1. n \in Nat /\ start \in R /\ \A i \in 1 .. n : rows[i] \in R
    BY ElementOfSeq, LenProperties
<1>2. \A i \in 1 .. n : \A s \in R : Raise(s, rows[i]) \in R
    <2>1. \A x, y \in R : Raise(x, y) \in R
        BY DEF Rows, Raise
    <2> HIDE DEF n, R
    <2>2. QED
        BY <1>1, <2>1
<1> HIDE DEF R
<1>3. g \in [1 .. n -> [R -> R]]
    BY <1>2
<1>4. \A i \in 1 .. n : \A s \in R : g[i][s] = Raise(s, rows[i])
    OBVIOUS
<1> HIDE DEF g, n
<1>5. PICK F \in [0 .. n -> R] : IsRow(F, n, start, g)
    BY <1>1, <1>3, RowExists, Zenon
<1>6. IsBest(F)
    <2>1. ASSUME NEW i \in 0 .. n, i # 0 PROVE g[i][F[i - 1]] = Raise(F[i - 1], rows[i])
        <3>1. i \in 1 .. n /\ i - 1 \in 0 .. n
            BY <1>1, <2>1
        <3>2. F[i - 1] \in R
            BY <3>1
        <3>3. QED
            BY <1>4, <3>1, <3>2
    <2>2. F = [i \in 0 .. n |-> IF i = 0 THEN start ELSE g[i][F[i - 1]]]
        BY <1>5 DEF IsRow
    <2>3. QED
        BY <2>1, <2>2, Zenon
<1> DEFINE G == CHOOSE H : IsBest(H)
<1>7. IsBest(G)
    <2> HIDE DEF IsBest
    <2>1. QED
        BY <1>6
<1>8. BestOf(rows, start) = G[n]
    BY DEF BestOf, n
<1> HIDE DEF G
<1>9. G = [i \in 0 .. n |-> Entry(G, i)]
    BY <1>7
<1>10. G[0] = start /\ \A i \in 1 .. n : G[i] = Raise(G[i - 1], rows[i])
    <2> HIDE DEF Entry
    <2>1. \A i \in 0 .. n : G[i] = Entry(G, i)
        BY <1>9
    <2>2. G[0] = Entry(G, 0) /\ \A i \in 1 .. n : i # 0 /\ G[i] = Entry(G, i)
        BY <1>1, <2>1
    <2>3. QED
        BY <2>2 DEF Entry
<1>11. \A i \in 0 .. n : G[i] \in R
    <2>1. ASSUME NEW i \in 1 .. n, G[i - 1] \in R PROVE G[i] \in R
        BY <1>2, <1>10, <2>1
    <2>2. G[0] \in R /\ StaysIn(G, n, R)
        BY <1>1, <1>10, <2>1 DEF StaysIn
    <2>3. QED
        BY <1>1, <2>2, RowTyped
<1>12. QED
    BY <1>1, <1>8, <1>11 DEF R

-----------------------------------------------------------------------------
(* What is pooled of hidden states, before it is normalized. *)
RawOf(s, h, m) ==
    IF s = "Cls" THEN Vector(h[1], 1) ELSE IF s = "Max" THEN MaxOf(h, m) ELSE MeanOf(h, m)

LEMMA ApplyIs ==
    ASSUME NEW s \in Strategies, NEW h, NEW m, h # << >>
    PROVE  Apply(s, h, m) = IF Normalizes(s) THEN L2Normalize(RawOf(s, h, m)) ELSE RawOf(s, h, m)
<1>1. CASE s = "Cls"
    BY <1>1 DEF Apply, RawOf
<1>2. CASE s = "Max"
    BY <1>2 DEF Apply, RawOf
<1>3. CASE s \in {"Mean", "MeanNoNorm"}
    BY <1>3 DEF Apply, RawOf
<1>4. QED
    BY <1>1, <1>2, <1>3 DEF Strategies

\* The rows of hidden states have one width.
LEMMA HiddenRows ==
    ASSUME NEW h \in Hidden, h # << >>
    PROVE  /\ h \in Seq(Rows(Len(h[1]))) /\ Len(h) \in Nat \ {0} /\ Len(h[1]) \in Nat
           /\ h[1] \in Rows(Len(h[1]))
           /\ \A i \in 1 .. Len(h) : h[i] \in Rows(Len(h[1])) /\ DOMAIN h[i] = 1 .. Len(h[1])
<1>1. h \in Seq(Seq(Floats)) /\ \A i, j \in DOMAIN h : Len(h[i]) = Len(h[j])
    BY PoolingAssumption
<1>2. Len(h) \in Nat \ {0} /\ DOMAIN h = 1 .. Len(h) /\ \A i \in 1 .. Len(h) : h[i] \in Seq(Floats)
    BY <1>1, LenProperties, EmptySeq, ElementOfSeq
<1>3. 1 \in 1 .. Len(h) /\ Len(h[1]) \in Nat
    BY <1>2, LenProperties
<1>4. ASSUME NEW i \in 1 .. Len(h) PROVE h[i] \in Rows(Len(h[1])) /\ DOMAIN h[i] = 1 .. Len(h[1])
    <2>1. Len(h[i]) = Len(h[1])
        BY <1>1, <1>2, <1>3
    <2>2. h[i] \in [1 .. Len(h[i]) -> Floats] /\ DOMAIN h[i] = 1 .. Len(h[i])
        BY <1>2, LenProperties
    <2>3. QED
        BY <2>1, <2>2 DEF Rows
<1>5. h \in [1 .. Len(h) -> Rows(Len(h[1]))]
    <2>1. h \in [1 .. Len(h) -> Seq(Floats)]
        BY <1>1, LenProperties
    <2>2. QED
        BY <1>4, <2>1
<1>6. h \in Seq(Rows(Len(h[1])))
    BY <1>2, <1>5, SeqDef
<1>7. QED
    BY <1>2, <1>3, <1>4, <1>6

LEMMA StartsAreRows ==
    ASSUME NEW w \in Nat
    PROVE  [d \in 1 .. w |-> 0] \in Rows(w) /\ [d \in 1 .. w |-> -MaxFloat] \in Rows(w)
BY FloatsAre DEF Rows

Reads(s, h, m) ==
    IF s = "Cls" THEN {1} ELSE {tok \in DOMAIN h : Keep(m, tok)}

LEMMA RawIs ==
    ASSUME NEW s \in Strategies, NEW h \in Hidden, NEW m, h # << >>
    PROVE  \E e \in Rows(Len(h[1])), c \in Nat \ {0} :
              /\ RawOf(s, h, m) = Vector(e, c)
              /\ s # "Max" => \A d \in 1 .. Len(h[1]) :
                    IsFinite(e[d]) => \A tok \in Reads(s, h, m) : IsFinite(h[tok][d])
<1> DEFINE w == Len(h[1])
           R == Rows(w)
           rows == Kept(h, m)
<1>1. /\ h \in Seq(R) /\ Len(h) \in Nat \ {0} /\ w \in Nat /\ h[1] \in R
      /\ DOMAIN h = 1 .. Len(h) /\ DOMAIN h[1] = 1 .. w
    BY HiddenRows, LenProperties
<1> HIDE DEF w
<1>2. Zeros(h) = [d \in 1 .. w |-> 0] /\ Zeros(h) \in R
    BY <1>1, StartsAreRows DEF Zeros
<1>3. rows \in Seq(R) /\ Len(rows) \in Nat /\ (Len(rows) = 0 => rows = << >>)
    <2>1. PICK F \in [0 .. Len(h) -> Seq(R)] : Kept(h, m) = F[Len(h)]
        BY <1>1, KeptIs
    <2>2. F[Len(h)] \in Seq(R)
        BY <1>1
    <2>3. rows \in Seq(R)
        BY <2>1, <2>2
    <2>4. QED
        BY <2>3, LenProperties, EmptySeq
<1>4. CASE s = "Cls"
    <2>1. RawOf(s, h, m) = Vector(h[1], 1) /\ Reads(s, h, m) = {1}
        BY <1>4 DEF RawOf, Reads
    <2>2. QED
        BY <1>1, <2>1 DEF w
<1>5. CASE s \in {"Mean", "MeanNoNorm"}
    <2> DEFINE e == SumOf(rows, Zeros(h))
               c == IF rows = << >> THEN 1 ELSE Len(rows)
    <2>1. RawOf(s, h, m) = Vector(e, c) /\ Reads(s, h, m) = {tok \in DOMAIN h : Keep(m, tok)}
        BY <1>5 DEF RawOf, MeanOf, Reads
    <2>2. c \in Nat \ {0}
        BY <1>3
    <2>3. e \in R
        <3>1. PICK F \in [0 .. Len(rows) -> R] : SumOf(rows, Zeros(h)) = F[Len(rows)]
            BY <1>1, <1>2, <1>3, SumIs
        <3>2. F[Len(rows)] \in R
            BY <1>3
        <3>3. QED
            BY <3>1, <3>2
    <2>4. ASSUME NEW d \in 1 .. w, IsFinite(e[d]), NEW tok \in Reads(s, h, m) PROVE IsFinite(h[tok][d])
        <3>1. tok \in 1 .. Len(h) /\ Keep(m, tok)
            BY <1>1, <2>1
        <3>2. PICK i \in 1 .. Len(rows) : rows[i] = h[tok]
            BY <1>1, <3>1, KeptHasAll
        <3>3. \A j \in 1 .. Len(rows) : IsFinite(rows[j][d])
            BY <1>1, <1>2, <1>3, <2>4, FiniteSum
        <3>4. QED
            BY <3>2, <3>3
    <2> HIDE DEF e, c
    <2>5. QED
        BY <2>1, <2>2, <2>3, <2>4 DEF w
<1>6. CASE s = "Max"
    <2> DEFINE e == IF rows = << >> THEN Zeros(h) ELSE BestOf(rows, [d \in DOMAIN h[1] |-> -MaxFloat])
    <2>1. RawOf(s, h, m) = Vector(e, 1)
        BY <1>6 DEF RawOf, MaxOf
    <2>2. [d \in DOMAIN h[1] |-> -MaxFloat] \in R
        BY <1>1, StartsAreRows
    <2>3. e \in R
        BY <1>1, <1>2, <1>3, <2>2, BestTyped
    <2> HIDE DEF e
    <2>4. QED
        BY <1>6, <2>1, <2>3 DEF w
<1>7. QED
    BY <1>4, <1>5, <1>6 DEF Strategies

-----------------------------------------------------------------------------
(* The inductive invariant: what was pooled is what the strategy makes of the output,
   and what is stored of it is that, finite, of norm one only if it has a norm. *)
LEMMA SquaresOfEntries ==
    ASSUME NEW v, NEW u, v.entries = u.entries, v.count = u.count
    PROVE  SumOfSquares(v) = SumOfSquares(u)
BY DEF SumOfSquares, Products

HasNorm(v) == SumOfSquares(v) \notin {0, Inf, NaN}

VectorOf(e, c, u) == [entries |-> e, count |-> c, unit |-> u]

IsVector(v) ==
    \E e \in Seq(Floats), c \in Nat \ {0}, u \in BOOLEAN :
        v = VectorOf(e, c, u) /\ (u => HasNorm(v))

LEMMA WithUnit ==
    ASSUME NEW e, NEW c, NEW u, NEW t
    PROVE  [VectorOf(e, c, u) EXCEPT !.unit = t] = VectorOf(e, c, t)
BY DEF VectorOf

LEMMA VectorIs ==
    ASSUME NEW e \in Seq(Floats), NEW c \in Nat \ {0}
    PROVE  /\ IsVector(Vector(e, c)) /\ Vector(e, c) = VectorOf(e, c, FALSE)
           /\ IsVector(L2Normalize(Vector(e, c)))
           /\ L2Normalize(Vector(e, c)) = VectorOf(e, c, HasNorm(Vector(e, c)))
<1> DEFINE v == Vector(e, c)
           n == VectorOf(e, c, HasNorm(v))
<1>1. v = VectorOf(e, c, FALSE)
    BY DEF Vector, VectorOf
<1>2. IsVector(v)
    BY <1>1 DEF IsVector
<1>3. L2Normalize(v) = n
    <2>1. v.unit = FALSE
        BY DEF Vector
    <2>2. CASE HasNorm(v)
        <3>1. HasNorm(v) = TRUE
            BY <2>2 DEF HasNorm
        <3>2. [v EXCEPT !.unit = TRUE] = VectorOf(e, c, TRUE)
            <4>1. [VectorOf(e, c, FALSE) EXCEPT !.unit = TRUE] = VectorOf(e, c, TRUE)
                <5>1. \A u, t : [VectorOf(e, c, u) EXCEPT !.unit = t] = VectorOf(e, c, t)
                    BY WithUnit
                <5>2. QED
                    BY <5>1, Zenon
            <4> HIDE DEF v
            <4>2. QED
                BY <1>1, <4>1
        <3>3. L2Normalize(v) = [v EXCEPT !.unit = TRUE]
            BY <2>1, <2>2 DEF L2Normalize, HasNorm
        <3>4. QED
            BY <3>1, <3>2, <3>3
    <2>3. CASE ~HasNorm(v)
        <3>1. HasNorm(v) = FALSE
            BY <2>3 DEF HasNorm
        <3>2. L2Normalize(v) = v
            BY <2>3 DEF L2Normalize, HasNorm
        <3>3. QED
            BY <1>1, <3>1, <3>2
    <2>4. QED
        BY <2>2, <2>3
<1>4. HasNorm(n) = HasNorm(v)
    <2>1. n.entries = v.entries /\ n.count = v.count
        <3>1. \A u : VectorOf(e, c, u).entries = e /\ VectorOf(e, c, u).count = c
            BY DEF VectorOf
        <3>2. v.entries = e /\ v.count = c
            BY DEF Vector
        <3>3. QED
            BY <3>1, <3>2
    <2>2. SumOfSquares(n) = SumOfSquares(v)
        BY <2>1, SquaresOfEntries
    <2>3. QED
        BY <2>2 DEF HasNorm
<1>5. IsVector(n)
    <2>1. HasNorm(v) \in BOOLEAN
        BY DEF HasNorm
    <2> HIDE DEF v
    <2>2. QED
        BY <1>4, <2>1 DEF IsVector
<1>6. QED
    BY <1>1, <1>2, <1>3, <1>5

PTypeOK ==
    /\ hidden \in Hidden /\ mask \in Masks /\ pooling \in Strategies /\ rank \in {2, 3}
    /\ rank = 2 => Len(hidden) = 1 /\ mask = Nothing

Pooled ==
    IF rank = 3 THEN Apply(pooling, hidden, mask)
    ELSE IF Normalizes(pooling) THEN L2Normalize(Vector(hidden[1], 1))
    ELSE Vector(hidden[1], 1)

\* What the strategy reads is finite wherever what it pools is.
FiniteWhereRead(e) ==
    \A d \in DOMAIN e : IsFinite(e[d]) =>
        \A tok \in ReadTokens : d \in DOMAIN hidden[tok] => IsFinite(hidden[tok][d])

AllReadWidth(e) == \A tok \in ReadTokens : DOMAIN hidden[tok] = DOMAIN e

LEMMA PooledOne ==
    ASSUME NEW e \in Seq(Floats), NEW c \in Nat \ {0},
           Pooled = IF Normalizes(pooling) THEN L2Normalize(Vector(e, c)) ELSE Vector(e, c)
    PROVE  /\ IsVector(Pooled) /\ Pooled.entries = e
           /\ Normalizes(pooling) => Pooled.unit \/ ~HasNorm(Pooled)
<1> DEFINE v == Vector(e, c)
           n == L2Normalize(v)
<1>1. IsVector(v) /\ IsVector(n) /\ v = VectorOf(e, c, FALSE) /\ n = VectorOf(e, c, HasNorm(v))
    BY VectorIs
<1>2. v.entries = e /\ n.entries = e /\ v.count = c /\ n.count = c /\ n.unit = HasNorm(v)
    BY <1>1 DEF VectorOf
<1>3. SumOfSquares(n) = SumOfSquares(v)
    <2> HIDE DEF v, n
    <2>1. QED
        BY <1>2, SquaresOfEntries
<1>4. n.unit \/ ~HasNorm(n)
    BY <1>2, <1>3 DEF HasNorm
<1>5. Pooled = IF Normalizes(pooling) THEN n ELSE v
    OBVIOUS
<1> HIDE DEF v, n
<1>6. QED
    BY <1>1, <1>2, <1>4, <1>5

LEMMA PooledIs ==
    ASSUME PTypeOK
    PROVE  /\ IsVector(Pooled)
           /\ Pooled.entries # << >> =>
                 /\ Normalizes(pooling) => Pooled.unit \/ ~HasNorm(Pooled)
                 /\ AllReadWidth(Pooled.entries)
                 /\ pooling # "Max" => FiniteWhereRead(Pooled.entries)
<1>1. CASE rank = 3 /\ hidden = << >>
    <2>1. Pooled = Vector(<< >>, 1)
        BY <1>1 DEF Pooled, Apply
    <2>2. << >> \in Seq(Floats) /\ 1 \in Nat \ {0}
        OBVIOUS
    <2>3. IsVector(Pooled) /\ Pooled = VectorOf(<< >>, 1, FALSE)
        BY <2>1, <2>2, VectorIs
    <2>4. Pooled.entries = << >>
        BY <2>3 DEF VectorOf
    <2>5. QED
        BY <2>3, <2>4
<1>2. CASE rank = 3 /\ hidden # << >>
    <2> DEFINE w == Len(hidden[1])
    <2>0. hidden \in Hidden /\ pooling \in Strategies
        BY DEF PTypeOK
    <2>1. PICK e \in Rows(w), c \in Nat \ {0} :
              /\ RawOf(pooling, hidden, mask) = Vector(e, c)
              /\ pooling # "Max" => \A d \in 1 .. w :
                    IsFinite(e[d]) => \A tok \in Reads(pooling, hidden, mask) : IsFinite(hidden[tok][d])
        BY <1>2, <2>0, RawIs
    <2>2. Pooled = IF Normalizes(pooling) THEN L2Normalize(Vector(e, c)) ELSE Vector(e, c)
        <3>1. Pooled = Apply(pooling, hidden, mask)
            BY <1>2 DEF Pooled
        <3>2. QED
            BY <1>2, <2>0, <2>1, <3>1, ApplyIs
    <2>3. /\ w \in Nat /\ Len(hidden) \in Nat \ {0} /\ DOMAIN hidden = 1 .. Len(hidden)
          /\ \A i \in 1 .. Len(hidden) : DOMAIN hidden[i] = 1 .. w
        BY <1>2, <2>0, HiddenRows, LenProperties
    <2> HIDE DEF w
    <2>4. e \in Seq(Floats) /\ DOMAIN e = 1 .. w
        BY <2>1, <2>3, SeqDef DEF Rows
    <2>5. /\ IsVector(Pooled) /\ Pooled.entries = e
          /\ Normalizes(pooling) => Pooled.unit \/ ~HasNorm(Pooled)
        BY <2>2, <2>4, PooledOne
    <2>6. ReadTokens = Reads(pooling, hidden, mask) /\ ReadTokens \subseteq 1 .. Len(hidden)
        <3>1. CASE pooling = "Cls"
            <4>1. ReadTokens = {1} /\ Reads(pooling, hidden, mask) = {1}
                BY <1>2, <3>1 DEF ReadTokens, Reads
            <4>2. QED
                BY <2>3, <4>1
        <3>2. CASE pooling # "Cls"
            <4>1. ReadTokens = {tok \in DOMAIN hidden : mask # Nothing => tok <= Len(mask) /\ mask[tok] # 0}
                BY <1>2, <3>2 DEF ReadTokens
            <4>2. Reads(pooling, hidden, mask) = {tok \in DOMAIN hidden : Keep(mask, tok)}
                BY <3>2 DEF Reads
            <4>3. \A tok \in DOMAIN hidden :
                      Keep(mask, tok) <=> (mask # Nothing => tok <= Len(mask) /\ mask[tok] # 0)
                BY DEF Keep
            <4>4. QED
                BY <2>3, <4>1, <4>2, <4>3
        <3>3. QED
            BY <3>1, <3>2
    <2>7. AllReadWidth(e)
        BY <2>3, <2>4, <2>6 DEF AllReadWidth
    <2>8. pooling # "Max" => FiniteWhereRead(e)
        BY <2>1, <2>4, <2>6 DEF FiniteWhereRead
    <2>9. QED
        BY <2>5, <2>7, <2>8
<1>3. CASE rank = 2
    <2>1. hidden \in Hidden /\ hidden # << >>
        BY <1>3, EmptySeq DEF PTypeOK
    <2> DEFINE e == hidden[1]
    <2>2. e \in Seq(Floats)
        <3>1. hidden \in Seq(Seq(Floats)) /\ Len(hidden) = 1
            BY <1>3, <2>1, PoolingAssumption DEF PTypeOK
        <3>2. QED
            BY <3>1, ElementOfSeq
    <2>3. ReadTokens = {1}
        BY <1>3 DEF ReadTokens
    <2>4. Pooled = IF Normalizes(pooling) THEN L2Normalize(Vector(e, 1)) ELSE Vector(e, 1)
        BY <1>3 DEF Pooled
    <2>5. AllReadWidth(e) /\ FiniteWhereRead(e)
        BY <2>3 DEF AllReadWidth, FiniteWhereRead
    <2> HIDE DEF e
    <2>6. /\ IsVector(Pooled) /\ Pooled.entries = e
          /\ Normalizes(pooling) => Pooled.unit \/ ~HasNorm(Pooled)
        BY <2>2, <2>4, PooledOne
    <2>7. QED
        BY <2>5, <2>6
<1>4. QED
    BY <1>1, <1>2, <1>3 DEF PTypeOK

Made(e, v) ==
    /\ e \in Embeddings({ModelId})
    /\ e.entries = v.entries /\ e.entries # << >> /\ e.count = v.count
    /\ v.unit => e.unit
    /\ e.unit => HasNorm(e)

PoInv ==
    /\ PTypeOK
    /\ vector # Nothing => vector = Pooled
    /\ IsEmbedding(embedding) => vector # Nothing /\ Made(embedding, vector)
    /\ other # Nothing =>
          /\ other \in Stored /\ IsEmbedding(embedding)
          /\ similarity = SemanticSimilarity(embedding, other)

LEMMA AnEmbedding ==
    ASSUME NEW e \in Embeddings({ModelId}) PROVE IsEmbedding(e)
<1>1. e # Nothing
    BY PoolingAssumption
<1>2. e # Refused
    <2>1. "count" \in DOMAIN e
        BY DEF Embeddings
    <2>2. "count" \notin DOMAIN Refused
        BY DEF Refused
    <2>3. QED
        BY <2>1, <2>2
<1>3. QED
    BY <1>1, <1>2 DEF IsEmbedding

LEMMA InitPoInv == PoolingInit => PoInv
BY DEF PoolingInit, PoInv, PTypeOK, IsEmbedding

LEMMA EmbedPoInv == ASSUME PoInv, EmbedVector PROVE PoInv'
<1> USE DEF PoInv
<1>1. /\ vector # Nothing /\ embedding = Nothing /\ vector = Pooled /\ other = Nothing
      /\ embedding' = WithModel(vector, ModelId)
      /\ UNCHANGED <<hidden, mask, pooling, rank, vector, other, similarity>>
    BY DEF EmbedVector, IsEmbedding
<1>2. PTypeOK /\ PTypeOK' /\ Pooled' = Pooled
    BY <1>1 DEF PTypeOK, Pooled
<1>3. CASE embedding' = Refused
    BY <1>1, <1>2, <1>3 DEF IsEmbedding
<1>4. CASE embedding' # Refused
    <2>1. PICK e \in Seq(Floats), c \in Nat \ {0}, u \in BOOLEAN :
              vector = VectorOf(e, c, u) /\ (u => HasNorm(vector))
        BY <1>1, <1>2, PooledIs DEF IsVector
    <2>2. vector.entries = e /\ vector.count = c /\ vector.unit = u
        BY <2>1 DEF VectorOf
    <2>3. /\ e # << >> /\ \A d \in DOMAIN e : IsFinite(e[d])
          /\ embedding' = [entries |-> e, count |-> c, unit |-> u, model |-> ModelId]
        BY <1>1, <1>4, <2>2 DEF WithModel
    <2>4. e \in Seq(Finite)
        <3>1. Len(e) \in Nat /\ DOMAIN e = 1 .. Len(e) /\ \A d \in 1 .. Len(e) : e[d] \in Floats
            BY LenProperties, ElementOfSeq
        <3>2. \A d \in 1 .. Len(e) : e[d] \in Finite
            BY <2>3, <3>1, FloatsAre
        <3>3. e \in [1 .. Len(e) -> Finite]
            BY <3>1, <3>2, LenProperties
        <3>4. QED
            BY <3>1, <3>3, SeqDef
    <2>5. embedding' \in Embeddings({ModelId})
        BY <2>3, <2>4 DEF Embeddings
    <2>6. /\ embedding'.entries = e /\ embedding'.count = c /\ embedding'.unit = u
        BY <2>3
    <2>7. SumOfSquares(embedding') = SumOfSquares(vector)
        BY <2>2, <2>6, SquaresOfEntries
    <2>8. Made(embedding', vector)
        BY <2>1, <2>2, <2>3, <2>5, <2>6, <2>7 DEF Made, HasNorm
    <2>9. (vector # Nothing /\ Made(embedding, vector))'
        BY <1>1, <2>8
    <2>10. QED
        BY <1>1, <1>2, <2>9
<1>5. QED
    BY <1>3, <1>4

LEMMA NormalizePoInv == ASSUME PoInv, Normalize PROVE PoInv'
<1> USE DEF PoInv
<1>1. /\ IsEmbedding(embedding) /\ other # Nothing /\ vector # Nothing /\ Made(embedding, vector)
      /\ embedding' = L2Normalize(embedding)
      /\ similarity' = SemanticSimilarity(embedding', other)
      /\ UNCHANGED <<hidden, mask, pooling, rank, vector, other>>
    BY DEF Normalize
<1>2. PTypeOK /\ PTypeOK' /\ Pooled' = Pooled
    BY <1>1 DEF PTypeOK, Pooled
<1>3. Made(embedding', vector)
    <2>1. CASE embedding' = embedding
        BY <1>1, <2>1
    <2>2. CASE embedding' # embedding
        <3>1. HasNorm(embedding) /\ embedding' = [embedding EXCEPT !.unit = TRUE]
            BY <1>1, <2>2 DEF L2Normalize, HasNorm
        <3>2. embedding \in Embeddings({ModelId})
            BY <1>1 DEF Made
        <3>3. /\ embedding' \in Embeddings({ModelId})
              /\ embedding'.entries = embedding.entries /\ embedding'.count = embedding.count
              /\ embedding'.unit = TRUE
            BY <3>1, <3>2 DEF Embeddings
        <3>4. SumOfSquares(embedding') = SumOfSquares(embedding)
            BY <3>3, SquaresOfEntries
        <3>5. QED
            BY <1>1, <3>1, <3>3, <3>4 DEF Made, HasNorm
    <2>3. QED
        BY <2>1, <2>2
<1>4. (vector # Nothing /\ Made(embedding, vector))'
    BY <1>1, <1>3
<1>5. IsEmbedding(embedding)'
    BY <1>3, AnEmbedding DEF Made
<1>6. QED
    BY <1>1, <1>2, <1>4, <1>5

LEMMA NextPoInv == PoInv /\ [PoolingNext]_poolingVars => PoInv'
<1> SUFFICES ASSUME PoInv, [PoolingNext]_poolingVars PROVE PoInv'
    OBVIOUS
<1>1. CASE UNCHANGED poolingVars
    BY <1>1 DEF PoInv, poolingVars, PTypeOK, Pooled, IsEmbedding, Made, HasNorm, SumOfSquares,
        SemanticSimilarity
<1>2. CASE PoolOutput
    <2>1. vector' = Pooled /\ UNCHANGED <<hidden, mask, pooling, rank, embedding, other, similarity>>
        BY <1>2 DEF PoolOutput, Pooled
    <2>2. PTypeOK' /\ Pooled' = Pooled
        BY <2>1 DEF PoInv, PTypeOK, Pooled
    <2>3. ~IsEmbedding(embedding) /\ other = Nothing
        BY <1>2 DEF PoInv, PoolOutput
    <2>4. (~IsEmbedding(embedding))' /\ other' = Nothing
        BY <2>1, <2>3 DEF IsEmbedding
    <2>5. QED
        BY <2>1, <2>2, <2>4 DEF PoInv
<1>3. CASE EmbedVector
    BY <1>3, EmbedPoInv
<1>4. CASE Compare
    <2>1. /\ IsEmbedding(embedding) /\ other' \in Stored
          /\ similarity' = SemanticSimilarity(embedding, other')
          /\ UNCHANGED <<hidden, mask, pooling, rank, vector, embedding>>
        BY <1>4 DEF Compare
    <2>2. PTypeOK' /\ Pooled' = Pooled
        BY <2>1 DEF PoInv, PTypeOK, Pooled
    <2>3. vector # Nothing /\ vector = Pooled /\ Made(embedding, vector)
        BY <2>1 DEF PoInv
    <2>4. (vector # Nothing /\ Made(embedding, vector))'
        BY <2>1, <2>3
    <2>5. IsEmbedding(embedding)'
        BY <2>1 DEF IsEmbedding
    <2>6. QED
        BY <2>1, <2>2, <2>3, <2>4, <2>5 DEF PoInv
<1>5. CASE Normalize
    BY <1>5, NormalizePoInv
<1>6. QED
    BY <1>1, <1>2, <1>3, <1>4, <1>5 DEF PoolingNext

LEMMA PoolingInvariance == PoolingSpec => []PoInv
BY InitPoInv, NextPoInv, PTL DEF PoolingSpec

(* Nothing that is not finite gets into an embedding, and what a normalizing strategy
   stores has norm one unless it has none (pooling.rs:61-106, 119-125). *)
THEOREM EmbeddingIsSound == PoolingSpec => []EmbeddingsSound
<1>1. PoInv => EmbeddingsSound
    <2> SUFFICES ASSUME PoInv, IsEmbedding(embedding)
                 PROVE  /\ \A d \in DOMAIN embedding.entries : IsFinite(embedding.entries[d])
                        /\ pooling # "Max" =>
                              \A tok \in ReadTokens : \A d \in DOMAIN hidden[tok] : IsFinite(hidden[tok][d])
                        /\ Normalizes(pooling) =>
                              embedding.unit \/ SumOfSquares(embedding) = 0 \/ HugeNorm(embedding)
        BY DEF EmbeddingsSound
    <2>1. PTypeOK /\ vector = Pooled /\ Made(embedding, vector)
        BY DEF PoInv
    <2> DEFINE e == embedding.entries
    <2>2. /\ e = Pooled.entries /\ e # << >> /\ embedding.count = Pooled.count
          /\ Pooled.unit => embedding.unit
          /\ e \in Seq(Finite) /\ embedding.count \in Nat
        BY <2>1 DEF Made, Embeddings
    <2>3. \A d \in DOMAIN e : IsFinite(e[d])
        <3>1. \A d \in 1 .. Len(e) : e[d] \in Finite
            BY <2>2, ElementOfSeq
        <3>2. DOMAIN e = 1 .. Len(e)
            BY <2>2, LenProperties
        <3> HIDE DEF e
        <3>3. QED
            BY <3>1, <3>2, FloatsAre
    <2>4. /\ Normalizes(pooling) => Pooled.unit \/ ~HasNorm(Pooled)
          /\ AllReadWidth(e)
          /\ pooling # "Max" => FiniteWhereRead(e)
        BY <2>1, <2>2, PooledIs
    <2>5. ASSUME pooling # "Max", NEW tok \in ReadTokens, NEW d \in DOMAIN hidden[tok]
          PROVE  IsFinite(hidden[tok][d])
        BY <2>3, <2>4, <2>5 DEF AllReadWidth, FiniteWhereRead
    <2>6. ASSUME Normalizes(pooling), ~embedding.unit, SumOfSquares(embedding) # 0
          PROVE  HugeNorm(embedding)
        <3>1. ~HasNorm(Pooled)
            BY <2>2, <2>4, <2>6
        <3>2. SumOfSquares(Pooled) = SumOfSquares(embedding)
            BY <2>2, SquaresOfEntries
        <3>3. SumOfSquares(embedding) # NaN
            BY <2>2, SquaresOfFinite
        <3>4. QED
            BY <2>6, <3>1, <3>2, <3>3 DEF HasNorm, HugeNorm
    <2>7. QED
        BY <2>3, <2>5, <2>6
<1>2. QED
    BY <1>1, PoolingInvariance, PTL

-----------------------------------------------------------------------------
(* Comparisons. *)
LEMMA RefusedWhen ==
    ASSUME NEW a, NEW b
    PROVE  /\ SemanticSimilarity(a, b) = Refused <=> ~Compatible(a, b) \/ ZeroNorm(a) \/ ZeroNorm(b)
           /\ SemanticSimilarity(a, b) # Refused =>
                 SemanticSimilarity(a, b) =
                     [products |-> Products(a, b), left |-> SumOfSquares(a), right |-> SumOfSquares(b)]
<1>1. \A p, l, r : [products |-> p, left |-> l, right |-> r] # Refused
    <2> SUFFICES ASSUME NEW p, NEW l, NEW r PROVE [products |-> p, left |-> l, right |-> r] # Refused
        OBVIOUS
    <2>1. "left" \in DOMAIN [products |-> p, left |-> l, right |-> r] /\ "left" \notin DOMAIN Refused
        BY DEF Refused
    <2>2. QED
        BY <2>1
<1>2. QED
    BY <1>1 DEF SemanticSimilarity

\* The square of a norm that is not huge.
LEMMA NotHuge ==
    ASSUME NEW models, NEW e \in Embeddings(models), e.unit => HasNorm(e), ~HugeNorm(e)
    PROVE  e.entries \in Seq(Int) /\ SumOfSquares(e) = Dot(e.entries, e.entries)
<1>1. e.entries \in Seq(Finite) /\ e.count \in Nat /\ e.unit \in BOOLEAN
    BY DEF Embeddings
<1>2. SumOfSquares(e) \in {Inf, Products(e, e)}
    BY <1>1, SquaresOfFinite
<1>3. SumOfSquares(e) # Inf
    BY DEF HugeNorm, HasNorm
<1>4. e.entries \in Seq(Int)
    <2>1. Finite \subseteq Int
        BY FloatsAre
    <2> DEFINE s == e.entries
    <2>2. s \in Seq(Finite)
        BY <1>1
    <2> HIDE DEF s
    <2>3. Len(s) \in Nat /\ DOMAIN s = 1 .. Len(s) /\ \A d \in 1 .. Len(s) : s[d] \in Finite
        BY <2>2, LenProperties, ElementOfSeq
    <2>4. s \in [1 .. Len(s) -> Int]
        BY <2>1, <2>2, <2>3, LenProperties
    <2>5. s \in Seq(Int)
        BY <2>3, <2>4, SeqDef
    <2>6. QED
        BY <2>5 DEF s
<1>5. QED
    BY <1>2, <1>3, <1>4 DEF Products

(* A comparison is a cosine between -1 and 1 of two vectors that have one, or it is
   refused, from either side (provider.rs:88-110). *)
THEOREM SimilarityIsSound == PoolingSpec => []SimilaritySound
<1>1. PoInv => SimilaritySound
    <2> SUFFICES ASSUME PoInv, other # Nothing PROVE SimilaritySound
        BY DEF SimilaritySound
    <2> DEFINE a == embedding
               b == other
    <2>1. /\ b \in Embeddings({b.model}) /\ (b.unit => HasNorm(b))
          /\ similarity = SemanticSimilarity(a, b)
        BY PoolingAssumption DEF PoInv, HasNorm
    <2>2. a \in Embeddings({ModelId}) /\ (a.unit => HasNorm(a)) /\ a.model = ModelId
        BY DEF PoInv, Made, Embeddings
    <2>3. Compatible(a, b) <=> Compatible(b, a)
        BY DEF Compatible
    <2>4. similarity = Refused <=> SemanticSimilarity(b, a) = Refused
        BY <2>1, <2>3, RefusedWhen
    <2>5. ASSUME similarity # Refused
          PROVE  Dim(a) = Dim(b) /\ b.model \in {Nothing, ModelId}
        <3>1. Compatible(a, b)
            BY <2>1, <2>5, RefusedWhen
        <3>2. ModelId # Nothing
            BY PoolingAssumption
        <3>3. QED
            BY <2>2, <3>1, <3>2 DEF Compatible
    <2>6. ASSUME similarity # Refused, ~Huge
          PROVE  /\ similarity.products * similarity.products <= similarity.left * similarity.right
                 /\ similarity.left > 0 /\ similarity.right > 0
        <3> DEFINE x == a.entries
                   y == b.entries
        <3>1. ~HugeNorm(a) /\ ~HugeNorm(b)
            BY <2>6 DEF Huge
        <3>2. x \in Seq(Int) /\ SumOfSquares(a) = Dot(x, x)
            BY <2>2, <3>1, NotHuge
        <3>3. y \in Seq(Int) /\ SumOfSquares(b) = Dot(y, y)
            BY <2>1, <3>1, NotHuge
        <3>4. Len(x) = Len(y)
            BY <2>5, <2>6 DEF Dim
        <3>5. /\ similarity = [products |-> Products(a, b), left |-> SumOfSquares(a), right |-> SumOfSquares(b)]
              /\ ~ZeroNorm(a) /\ ~ZeroNorm(b)
            BY <2>1, <2>6, RefusedWhen
        <3>6. /\ similarity.products = Dot(x, y) /\ similarity.left = Dot(x, x)
              /\ similarity.right = Dot(y, y) /\ Dot(x, x) # 0 /\ Dot(y, y) # 0
            BY <3>2, <3>3, <3>5 DEF Products, ZeroNorm
        <3> HIDE DEF x, y
        <3>7. /\ Dot(x, y) \in Int /\ Dot(x, x) \in Int /\ Dot(y, y) \in Int
              /\ Within(Dot(x, y), Dot(x, x), Dot(y, y))
            BY <3>2, <3>3, <3>4, CauchySchwarz
        <3>8. QED
            BY <3>6, <3>7 DEF Within
    <2>7. QED
        BY <2>4, <2>5, <2>6 DEF SimilaritySound
<1>2. QED
    BY <1>1, PoolingInvariance, PTL

-----------------------------------------------------------------------------
(* Padding. *)
LEMMA NothingKept ==
    ASSUME NEW h \in Hidden, h # << >>, NEW m, Kept(h, m) = << >>, NEW s \in Strategies, s # "Cls"
    PROVE  Apply(s, h, m) = Vector(Zeros(h), 1)
<1> DEFINE w == Len(h[1])
           z == Zeros(h)
<1>1. w \in Nat /\ h[1] \in Rows(w) /\ DOMAIN h[1] = 1 .. w
    <2>1. h[1] \in Rows(w) /\ w \in Nat
        BY HiddenRows
    <2>2. QED
        BY <2>1 DEF Rows
<1> HIDE DEF w
<1>2. z = [d \in 1 .. w |-> 0] /\ z \in Rows(w)
    BY <1>1, StartsAreRows DEF Zeros
<1>3. SumOf(<< >>, z) = z
    <2>1. << >> \in Seq(Rows(w)) /\ Len(<< >>) = 0
        OBVIOUS
    <2> DEFINE none == << >>
    <2> HIDE DEF none, z
    <2>2. none \in Seq(Rows(w)) /\ Len(none) = 0
        BY <2>1 DEF none
    <2>3. PICK F \in [0 .. Len(none) -> Rows(w)] :
              /\ SumOf(none, z) = F[Len(none)]
              /\ F[0] = z
              /\ \A i \in 1 .. Len(none) : F[i] = Add(F[i - 1], none[i])
        <3>1. w \in Nat /\ none \in Seq(Rows(w)) /\ z \in Rows(w)
            BY <1>1, <1>2, <2>2
        <3>2. QED
            BY <3>1, SumIs, Zenon
    <2>4. SumOf(none, z) = z
        BY <2>2, <2>3
    <2>5. QED
        BY <2>4 DEF none
<1>4. RawOf(s, h, m) = Vector(z, 1)
    BY <1>3 DEF RawOf, MaxOf, MeanOf
<1>5. z \in Seq(Floats) /\ z \in Seq(Int) /\ z \in Seq(Finite) /\ Len(z) = w /\ \A d \in 1 .. w : z[d] = 0
    <2>1. 0 \in Floats /\ 0 \in Finite
        BY FloatsAre
    <2>2. z \in [1 .. w -> Floats] /\ z \in [1 .. w -> Int] /\ z \in [1 .. w -> Finite]
        BY <1>2, <2>1
    <2>3. z \in Seq(Floats) /\ z \in Seq(Int) /\ z \in Seq(Finite)
        BY <1>1, <2>2, SeqDef
    <2>4. DOMAIN z = 1 .. w /\ \A d \in 1 .. w : z[d] = 0
        BY <1>2
    <2> HIDE DEF z
    <2>5. Len(z) = w
        BY <1>1, <2>3, <2>4, LenProperties
    <2>6. QED
        BY <2>3, <2>4, <2>5
<1> HIDE DEF z
<1>6. Dot(z, z) = 0
    BY <1>5, ZerosHaveNoNorm
<1> DEFINE v == Vector(z, 1)
<1>7. HasNorm(v) = FALSE
    <2>1. v.entries = z /\ v.count = 1
        BY DEF Vector
    <2>2. Products(v, v) = 0
        BY <1>6, <2>1 DEF Products
    <2> HIDE DEF v
    <2>3. SumOfSquares(v) = 0
        BY <1>5, <2>1, <2>2, SquaresOfFinite
    <2>4. QED
        BY <2>3 DEF HasNorm
<1>8. L2Normalize(v) = v
    <2>1. L2Normalize(v) = VectorOf(z, 1, HasNorm(v)) /\ v = VectorOf(z, 1, FALSE)
        <3>1. 1 \in Nat \ {0}
            OBVIOUS
        <3>2. QED
            BY <1>5, <3>1, VectorIs, Zenon
    <2>2. QED
        BY <1>7, <2>1
<1>9. QED
    BY <1>4, <1>8, ApplyIs DEF z

LEMMA OnlyCounting ==
    ASSUME NEW h \in Hidden, h # << >>, NEW m, NEW s \in Strategies, s # "Cls",
           NEW n \in Nat, n # 0, NEW counting, IsCounting(counting, n, h, m)
    PROVE  Apply(s, h, m) = Apply(s, [i \in 1 .. n |-> h[counting[i]]], Nothing)
<1> DEFINE w == Len(h[1])
           sub == [i \in 1 .. n |-> h[counting[i]]]
           same == [i \in 1 .. n |-> i]
<1>1. /\ w \in Nat /\ h \in Seq(Rows(w)) /\ Len(h) \in Nat \ {0}
      /\ \A i \in 1 .. Len(h) : h[i] \in Rows(w) /\ DOMAIN h[i] = 1 .. w
    BY HiddenRows
<1>2. 1 \in 1 .. Len(h) /\ DOMAIN h[1] = 1 .. w
    BY <1>1
<1> HIDE DEF w
<1>3. \A i \in 1 .. n : counting[i] \in 1 .. Len(h)
    BY DEF IsCounting
<1>4. Kept(h, m) = sub
    BY <1>1, KeptIsCounting
<1>5. /\ sub \in [1 .. n -> Rows(w)] /\ DOMAIN sub = 1 .. n
      /\ 1 \in 1 .. n /\ DOMAIN sub[1] = 1 .. w
    BY <1>1, <1>3
<1>6. sub \in Seq(Rows(w)) /\ Len(sub) = n /\ sub # << >>
    <2> HIDE DEF sub
    <2>1. sub \in Seq(Rows(w))
        BY <1>5, SeqDef
    <2>2. Len(sub) = n
        BY <1>5, <2>1, LenProperties
    <2>3. QED
        BY <2>1, <2>2
<1>7. sub = [i \in 1 .. n |-> sub[same[i]]]
    OBVIOUS
<1>8. IsCounting(same, n, sub, Nothing)
    <2>1. \A tok : Keep(Nothing, tok)
        BY DEF Keep
    <2>2. same \in [1 .. n -> 1 .. n] /\ \A i \in 1 .. n : same[i] = i
        OBVIOUS
    <2> HIDE DEF sub, same
    <2>3. QED
        BY <1>6, <2>1, <2>2 DEF IsCounting
<1> HIDE DEF sub, same
<1>9. Kept(sub, Nothing) = sub
    <2>1. Kept(sub, Nothing) = [i \in 1 .. n |-> sub[same[i]]]
        BY <1>6, <1>8, KeptIsCounting
    <2>2. QED
        BY <1>7, <2>1
<1>10. Zeros(sub) = Zeros(h) /\ DOMAIN sub[1] = DOMAIN h[1]
    BY <1>2, <1>5 DEF Zeros
<1>11. RawOf(s, sub, Nothing) = RawOf(s, h, m)
    <2>1. MeanOf(sub, Nothing) = MeanOf(h, m)
        BY <1>4, <1>9, <1>10 DEF MeanOf
    <2>2. MaxOf(sub, Nothing) = MaxOf(h, m)
        BY <1>4, <1>9, <1>10 DEF MaxOf
    <2>3. QED
        BY <2>1, <2>2 DEF RawOf
<1>12. Apply(s, sub, Nothing) = Apply(s, h, m)
    BY <1>6, <1>11, ApplyIs
<1>13. QED
    BY <1>12 DEF sub

(* What comes of the hidden states is what comes of those of the tokens that count
   (pooling.rs:61-106, 119-125). *)
THEOREM PaddingIsInvisible == PoolingSpec => []PaddingDoesNotShow
<1>1. PoInv => PaddingDoesNotShow
    <2> SUFFICES ASSUME PoInv, vector # Nothing, rank = 3, pooling # "Cls", hidden # << >>,
                        NEW n \in 0 .. Len(hidden), NEW counting \in [1 .. n -> DOMAIN hidden],
                        Range(counting) = ReadTokens,
                        \A i, j \in 1 .. n : i < j => counting[i] < counting[j]
                 PROVE  vector = IF n = 0 THEN Vector(Zeros(hidden), 1)
                                 ELSE Apply(pooling, [i \in 1 .. n |-> hidden[counting[i]]], Nothing)
        BY DEF PaddingDoesNotShow
    <2>1. vector = Apply(pooling, hidden, mask) /\ hidden \in Hidden /\ pooling \in Strategies
        BY DEF PoInv, Pooled, PTypeOK
    <2>2. Len(hidden) \in Nat \ {0} /\ hidden \in Seq(Rows(Len(hidden[1]))) /\ DOMAIN hidden = 1 .. Len(hidden)
        BY <2>1, HiddenRows, LenProperties
    <2>3. n \in Nat
        BY <2>2
    <2>4. IsCounting(counting, n, hidden, mask)
        <3>1. ReadTokens = {tok \in 1 .. Len(hidden) : Keep(mask, tok)}
            BY <2>2 DEF ReadTokens, Keep
        <3>2. Range(counting) = {counting[i] : i \in 1 .. n}
            BY DEF Range
        <3>3. ASSUME NEW tok \in 1 .. Len(hidden)
              PROVE  Keep(mask, tok) <=> \E i \in 1 .. n : counting[i] = tok
            BY <3>1, <3>2
        <3>4. QED
            BY <2>2, <3>3 DEF IsCounting
    <2>5. CASE n = 0
        <3>1. Kept(hidden, mask) = [i \in 1 .. n |-> hidden[counting[i]]]
            <4> DEFINE R == Rows(Len(hidden[1]))
            <4>1. hidden \in Seq(R)
                BY <2>2
            <4> HIDE DEF R
            <4>2. QED
                BY <2>3, <2>4, <4>1, KeptIsCounting
        <3>2. Kept(hidden, mask) = << >>
            BY <2>5, <3>1
        <3>3. QED
            BY <2>1, <2>5, <3>2, NothingKept
    <2>6. CASE n # 0
        BY <2>1, <2>3, <2>4, <2>6, OnlyCounting
    <2>7. QED
        BY <2>5, <2>6
<1>2. QED
    BY <1>1, PoolingInvariance, PTL
=============================================================================
