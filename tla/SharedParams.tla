----------------------------- MODULE SharedParams ---------------------------
(***************************************************************************)
(* BatchedEvrfPublicParams::shared and ::setup of golden-evrf's paper.rs   *)
(* and BulletproofGens::new of bulletproofs-cycle: threads of one process  *)
(* ask for the Bulletproof generators of a circuit shape.                  *)
(*                                                                         *)
(* There are two caches.  shared keeps one instance per shape: a mutex     *)
(* guards the map from shapes to entries, an entry is a OnceLock, filled   *)
(* outside the mutex.  Below it derive keeps, per label, the longest       *)
(* prefix of the label's generators anybody needed so far; it reads the    *)
(* prefix under a second mutex, extends it outside and stores it under the *)
(* mutex again.  No critical section of either mutex waits for anything,   *)
(* so each of them is one step here.                                       *)
(*                                                                         *)
(* Mutex, HashMap and OnceLock are the standard library's.  A constructor  *)
(* that panics leaves its OnceLock empty, and one waiting thread tries     *)
(* again.  The k-th generator of a label is written k.                     *)
(***************************************************************************)
EXTENDS Naturals, Sequences, FiniteSets

CONSTANTS
    Threads,
    Shapes,         \* (threshold, receiver_count) pairs that are asked for
    ValidShapes,    \* those validated_shape accepts
    SlowShapes,     \* those whose generators may take for ever to derive
    Capacity,       \* gens_capacity of each valid shape
    MaxCalls,       \* bound on the calls of a thread
    MaxPanics,      \* bound on the constructions that panic
    MaxClears,      \* bound on the calls of clear_generator_cache
    Free,           \* nobody
    NoShape         \* the shape of a thread that makes no call

ASSUME SharedParamsAssumption ==
    /\ ValidShapes \subseteq Shapes /\ SlowShapes \subseteq ValidShapes
    /\ Capacity \in [ValidShapes -> Nat \ {0}]
    /\ MaxCalls \in Nat /\ MaxPanics \in Nat /\ MaxClears \in Nat
    /\ Free \notin Threads /\ NoShape \notin Shapes

VARIABLES
    pc,         \* where each thread is in its call
    shape,      \* the shape it asked for
    entry,      \* its clone of the cache entry: an entry's number, 0 for none
    vecs,       \* the generator lists its construction has so far
    have,       \* the prefix it read and is extending
    got,        \* what shared has returned: [shape, instance]; an instance is
                \* known by the number of the entry that holds it
    calls,      \* the calls each thread has started
    map,        \* shared's cache: the entry of each shape, 0 when absent
    once,       \* the entries' OnceLocks: [by, set]
    cache,      \* derive's cache: the prefix of each label
    built,      \* the parameters built, [shape, gens_capacity, G, H]
    panics,     \* constructions that panicked
    clears      \* calls of clear_generator_cache

callVars == <<got, calls, map>>
vars == <<pc, shape, entry, vecs, have, got, calls, map, once, cache, built, panics, clears>>

(* The labels of the only party, in the order increase_capacity derives them. *)
Labels == <<"G", "H">>

Init ==
    /\ pc = [t \in Threads |-> "idle"]
    /\ shape = [t \in Threads |-> NoShape]
    /\ entry = [t \in Threads |-> 0]
    /\ vecs = [t \in Threads |-> << >>]
    /\ have = [t \in Threads |-> << >>]
    /\ got = {}
    /\ calls = [t \in Threads |-> 0]
    /\ map = [s \in Shapes |-> 0]
    /\ once = << >>
    /\ cache = [l \in {"G", "H"} |-> << >>]
    /\ built = {}
    /\ panics = 0
    /\ clears = 0

(* A OnceLock nobody has filled or is filling. *)
Unset == [by |-> Free, set |-> FALSE]

Go(t, label) == pc' = [pc EXCEPT ![t] = label]

(* The call is over and its local variables are gone. *)
Return(t) ==
    /\ Go(t, "idle")
    /\ shape' = [shape EXCEPT ![t] = NoShape]
    /\ entry' = [entry EXCEPT ![t] = 0]
    /\ vecs' = [vecs EXCEPT ![t] = << >>]
    /\ have' = [have EXCEPT ![t] = << >>]

(* validated_shape refuses the shape before anything is touched, or the    *)
(* thread goes on: shared to the cache, setup to the construction.         *)
Call(t, s, first) ==
    /\ pc[t] = "idle"
    /\ calls[t] < MaxCalls
    /\ calls' = [calls EXCEPT ![t] = @ + 1]
    /\ IF s \in ValidShapes
       THEN /\ shape' = [shape EXCEPT ![t] = s]
            /\ Go(t, first)
       ELSE UNCHANGED <<shape, pc>>
    /\ UNCHANGED <<entry, vecs, have, got, map, once, cache, built, panics, clears>>

CallShared(t, s) == Call(t, s, "lock")
CallSetup(t, s) == Call(t, s, "read")

(* Mutant: the guard of the mutex lives until get_or_init returns. *)
CloneEntry_HeldWhileBuilding(t) ==
    LET fresh == Len(once) + 1
    IN  /\ pc[t] = "lock"
        /\ \A u \in Threads : entry[u] = 0
        /\ entry' = [entry EXCEPT ![t] = IF map[shape[t]] # 0 THEN map[shape[t]] ELSE fresh]
        /\ map' = [map EXCEPT ![shape[t]] = IF @ # 0 THEN @ ELSE fresh]
        /\ once' = IF map[shape[t]] # 0 THEN once ELSE Append(once, Unset)
        /\ Go(t, "once")
        /\ UNCHANGED <<shape, vecs, have, got, calls, cache, built, panics, clears>>

(* Mutant: the entry is inserted whether or not there is one. *)
CloneEntry_Overwrites(t) ==
    LET fresh == Len(once) + 1
    IN  /\ pc[t] = "lock"
        /\ entry' = [entry EXCEPT ![t] = fresh]
        /\ map' = [map EXCEPT ![shape[t]] = fresh]
        /\ once' = Append(once, Unset)
        /\ Go(t, "once")
        /\ UNCHANGED <<shape, vecs, have, got, calls, cache, built, panics, clears>>

(* Mutant: the key of the map leaves out part of the shape. *)
CloneEntry_KeyTooShort(t) ==
    /\ pc[t] = "lock"
    /\ entry' = [entry EXCEPT ![t] = 1]
    /\ map' = [map EXCEPT ![shape[t]] = 1]
    /\ once' = IF once = << >> THEN <<Unset>> ELSE once
    /\ Go(t, "once")
    /\ UNCHANGED <<shape, vecs, have, got, calls, cache, built, panics, clears>>

(* Under the mutex: entry(..).or_insert_with(..) and Arc::clone. *)
CloneEntry(t) ==
    LET fresh == Len(once) + 1
    IN  /\ pc[t] = "lock"
        /\ entry' = [entry EXCEPT ![t] = IF map[shape[t]] # 0 THEN map[shape[t]] ELSE fresh]
        /\ map' = [map EXCEPT ![shape[t]] = IF @ # 0 THEN @ ELSE fresh]
        /\ once' = IF map[shape[t]] # 0 THEN once ELSE Append(once, Unset)
        /\ Go(t, "once")
        /\ UNCHANGED <<shape, vecs, have, got, calls, cache, built, panics, clears>>

(* get_or_init on an empty OnceLock nobody is filling: this thread runs the *)
(* closure.  A thread that finds another one filling it waits.              *)
Begin(t) ==
    /\ pc[t] = "once"
    /\ once[entry[t]] = Unset
    /\ once' = [once EXCEPT ![entry[t]] = [by |-> t, set |-> FALSE]]
    /\ Go(t, "read")
    /\ UNCHANGED <<shape, entry, vecs, have, callVars, cache, built, panics, clears>>

(***************************************************************************)
(* from_shape, which calls BulletproofGens::new, which calls derive for    *)
(* each label.                                                             *)
(***************************************************************************)
Label(t) == Labels[Len(vecs[t]) + 1]

(* The first half of derive's loop: enough cached generators are returned,  *)
(* also more than enough.                                                   *)
ReadCache(t) ==
    /\ pc[t] = "read"
    /\ Len(vecs[t]) < Len(Labels)
    /\ LET found == cache[Label(t)]
       IN  IF Len(found) >= Capacity[shape[t]]
           THEN /\ vecs' = [vecs EXCEPT ![t] = Append(@, found)]
                /\ UNCHANGED <<have, pc>>
           ELSE /\ have' = [have EXCEPT ![t] = found]
                /\ Go(t, "extend")
                /\ UNCHANGED vecs
    /\ UNCHANGED <<shape, entry, callVars, once, cache, built, panics, clears>>

(* GeneratorsChain::new(label).fast_forward(skip).take(n) *)
Chain(skip, n) == [k \in 1..n |-> skip + k]

(* Mutant: the chain is not fast-forwarded past the cached generators. *)
Extended_FromTheStart(found, capacity) == found \o Chain(0, capacity - Len(found))

Extended(found, capacity) == found \o Chain(Len(found), capacity - Len(found))

(* Mutant: the extended list is stored whatever happened in between. *)
ExtendCache_Overwrites(t) ==
    /\ pc[t] = "extend"
    /\ cache' = [cache EXCEPT ![Label(t)] = Extended(have[t], Capacity[shape[t]])]
    /\ have' = [have EXCEPT ![t] = << >>]
    /\ Go(t, "read")
    /\ UNCHANGED <<shape, entry, vecs, callVars, once, built, panics, clears>>

(* The second half: the extended list is stored if the cached one still has *)
(* the length it had, and the loop starts again either way.                 *)
ExtendCache(t) ==
    /\ pc[t] = "extend"
    /\ cache' = IF Len(cache[Label(t)]) = Len(have[t])
                THEN [cache EXCEPT ![Label(t)] = Extended(have[t], Capacity[shape[t]])]
                ELSE cache
    /\ have' = [have EXCEPT ![t] = << >>]
    /\ Go(t, "read")
    /\ UNCHANGED <<shape, entry, vecs, callVars, once, built, panics, clears>>

Received(t) == got' = got \cup {[shape |-> shape[t], instance |-> entry[t]]}

Instance(t) ==
    [shape |-> shape[t], gens_capacity |-> Capacity[shape[t]], G |-> vecs[t][1], H |-> vecs[t][2]]

(* from_shape returns, and get_or_init or setup with it. *)
Build(t) ==
    /\ pc[t] = "read"
    /\ Len(vecs[t]) = Len(Labels)
    /\ built' = built \cup {Instance(t)}
    /\ IF entry[t] = 0
       THEN UNCHANGED <<once, got>>
       ELSE /\ once' = [once EXCEPT ![entry[t]] = [by |-> Free, set |-> TRUE]]
            /\ Received(t)
    /\ Return(t)
    /\ UNCHANGED <<calls, map, cache, panics, clears>>

(* Deriving panics, outside both mutexes: the thread unwinds out of the call. *)
Panic(t) ==
    /\ pc[t] = "extend"
    /\ panics < MaxPanics
    /\ panics' = panics + 1
    /\ once' = IF entry[t] = 0 THEN once ELSE [once EXCEPT ![entry[t]] = Unset]
    /\ Return(t)
    /\ UNCHANGED <<callVars, cache, built, clears>>

(* get_or_init on a filled OnceLock. *)
Get(t) ==
    /\ pc[t] = "once"
    /\ once[entry[t]].set
    /\ Received(t)
    /\ Return(t)
    /\ UNCHANGED <<calls, map, once, cache, built, panics, clears>>

(* Tests and benchmarks empty the cache, at any time. *)
ClearGeneratorCache ==
    /\ clears < MaxClears
    /\ clears' = clears + 1
    /\ cache' = [l \in DOMAIN cache |-> << >>]
    /\ UNCHANGED <<pc, shape, entry, vecs, have, callVars, once, built, panics>>

Next ==
    \/ \E t \in Threads :
        \/ \E s \in Shapes : CallShared(t, s) \/ CallSetup(t, s)
        \/ CloneEntry(t) \/ Begin(t) \/ Get(t)
        \/ ReadCache(t) \/ ExtendCache(t) \/ Build(t) \/ Panic(t)
    \/ ClearGeneratorCache

Spec == Init /\ [][Next]_vars

(***************************************************************************)
(* A thread inside a call keeps running, unless it derives the generators  *)
(* of a slow shape.  The mutexes need not be fair: the calls of the other  *)
(* threads are finite.                                                     *)
(***************************************************************************)
Fairness == \A t \in Threads :
    /\ WF_vars(CloneEntry(t))
    /\ WF_vars(Begin(t) \/ Get(t))
    /\ WF_vars(ReadCache(t) \/ Build(t) \/ (shape[t] \notin SlowShapes /\ ExtendCache(t)))

FairSpec == Spec /\ Fairness

(***************************************************************************)
(* Serialization of parameters: the shape and the generators.              *)
(***************************************************************************)
Serialize(params) ==
    [shape |-> params.shape,
     bp_gens |-> [gens_capacity |-> params.gens_capacity, party_capacity |-> 1,
                  g_vec |-> <<params.G>>, h_vec |-> <<params.H>>]]

Dimensions(parties, gens) ==
    /\ Len(parties) = gens.party_capacity
    /\ \A i \in DOMAIN parties : Len(parties[i]) = gens.gens_capacity

(* The generators' dimensions are checked first, then the shape. *)
Deserialize(repr) ==
    LET gens == repr.bp_gens
    IN  IF /\ Dimensions(gens.g_vec, gens) /\ Dimensions(gens.h_vec, gens)
           /\ repr.shape \in ValidShapes
           /\ gens.gens_capacity = Capacity[repr.shape] /\ gens.party_capacity = 1
        THEN [shape |-> repr.shape, gens_capacity |-> gens.gens_capacity,
              G |-> gens.g_vec[1], H |-> gens.h_vec[1]]
        ELSE [err |-> "generator dimensions or capacity do not match"]

-----------------------------------------------------------------------------
(* The state has its types. *)
TypeOK ==
    /\ pc \in [Threads -> {"idle", "lock", "once", "read", "extend"}]
    /\ shape \in [Threads -> Shapes \cup {NoShape}]
    /\ vecs \in [Threads -> Seq(Seq(Nat))]
    /\ have \in [Threads -> Seq(Nat)]
    /\ calls \in [Threads -> 0..MaxCalls]
    /\ once \in Seq([by : Threads \cup {Free}, set : BOOLEAN])
    /\ map \in [Shapes -> {0} \cup DOMAIN once]
    /\ entry \in [Threads -> {0} \cup DOMAIN once]
    /\ got \subseteq [shape : Shapes, instance : DOMAIN once]
    /\ cache \in [{"G", "H"} -> Seq(Nat)]
    /\ panics \in 0..MaxPanics /\ clears \in 0..MaxClears

(* All the callers of the process that ask shared for a shape get the same *)
(* instance, and callers that ask for different shapes get different ones, *)
(* whatever the interleaving and also after constructions that panicked.   *)
OneInstancePerShape ==
    \A a, b \in got : a.instance = b.instance <=> a.shape = b.shape

Building(t) == pc[t] \in {"read", "extend"} /\ entry[t] # 0

(* shared never builds a shape in two threads at a time, nor again once it *)
(* has been built.                                                         *)
NoDuplicateWork ==
    \A t \in Threads : Building(t) =>
        /\ \A u \in Threads \ {t} : ~(Building(u) /\ shape[u] = shape[t])
        /\ \A a \in got : a.shape # shape[t]

(* Every instance has the first generators of both labels, at least as     *)
(* many as its shape needs, however the threads that filled the cache and  *)
(* those that emptied it interleaved: provers and verifiers of one shape   *)
(* in different processes use the same generators.                         *)
GeneratorsAreTheChain ==
    \A params \in built : \A list \in {params.G, params.H} :
        /\ Len(list) >= params.gens_capacity
        /\ \A k \in DOMAIN list : list[k] = k

(* The generator cache "grows monotonically, never shrinks", unless it is  *)
(* emptied: a thread that extended a short prefix does not replace a       *)
(* longer one that was stored meanwhile.                                   *)
CacheNeverShrinks ==
    [][\A l \in DOMAIN cache : Len(cache'[l]) >= Len(cache[l]) \/ clears' # clears]_vars

(* A call for a shape that is not slow returns, also while another thread  *)
(* derives a slow shape's generators for ever: that happens outside both   *)
(* mutexes, and derive's loop ends although others change the cache.       *)
FastCallsReturn ==
    \A t \in Threads :
        (pc[t] # "idle" /\ shape[t] \notin SlowShapes) ~> pc[t] = "idle"

(* Parameters decode from their own serialization, as the test             *)
(* public_parameters_roundtrip_without_regeneration expects.               *)
ParametersRoundTrip ==
    \A params \in built : Deserialize(Serialize(params)) = params
=============================================================================
