------------------------- MODULE SharedParamsProofs -------------------------
(***************************************************************************)
(* Theorems about SharedParams, for any number of threads, shapes and      *)
(* calls: what shared returns, and what is in the generator cache.         *)
(***************************************************************************)
EXTENDS SharedParams, TLAPS

(* Thread t is inside a call of get_or_init. *)
InCall(t) == pc[t] # "idle"

(* What a OnceLock is: filled, being filled by a thread, or neither. *)
OnceLocks == [by : Threads \cup {Free}, set : BOOLEAN]

(* A OnceLock that t is filling. *)
Claimed(t) == [by |-> t, set |-> FALSE]

(* The lists that are the beginning of their label's chain of generators. *)
Chains == {list \in Seq(Nat) : \A k \in 1..Len(list) : list[k] = k}

(***************************************************************************)
(* The inductive invariant, in three parts.                                *)
(***************************************************************************)
(* A thread in a call has a valid shape, and one that extends a prefix has *)
(* a label left to derive and a prefix that is too short.                  *)
CallInv ==
    \A t \in Threads :
        /\ InCall(t) => shape[t] \in ValidShapes
        /\ pc[t] \in {"lock", "idle"} => entry[t] = 0
        /\ pc[t] = "once" => entry[t] # 0
        /\ pc[t] \in {"lock", "idle", "once"} => vecs[t] = << >>
        /\ pc[t] = "extend" => Len(vecs[t]) < 2 /\ Len(have[t]) < Capacity[shape[t]]

(* Entries belong to one shape each, threads hold their own shape's entry, *)
(* a OnceLock is claimed exactly while the thread that claimed it builds,  *)
(* and what shared returned is in a filled OnceLock of the shape.          *)
EntryInv ==
    /\ \A r, s \in Shapes : map[r] = map[s] /\ map[r] # 0 => r = s
    /\ \A t \in Threads : entry[t] # 0 => entry[t] = map[shape[t]]
    /\ \A t \in Threads : Building(t) => once[entry[t]] = Claimed(t)
    /\ \A a \in got : a.instance = map[a.shape] /\ once[a.instance].set

(* Every list there is, cached or on its way, is a beginning of the chain. *)
ChainInv ==
    /\ cache \in [{"G", "H"} -> Chains]
    /\ have \in [Threads -> Chains]
    /\ vecs \in [Threads -> Seq(Chains)]
    /\ \A t \in Threads :
        /\ Len(vecs[t]) <= 2
        /\ \A k \in 1..Len(vecs[t]) : Len(vecs[t][k]) >= Capacity[shape[t]]
    /\ \A params \in built : \A list \in {params.G, params.H} :
        list \in Chains /\ Len(list) >= params.gens_capacity

(* The inductive invariant. *)
IInv == TypeOK /\ CallInv /\ EntryInv /\ ChainInv

(***************************************************************************)
(* Deriving more generators continues the chain.                           *)
(***************************************************************************)
LEMMA ExtendedIsChain ==
    ASSUME NEW found \in Chains, NEW n \in Nat, Len(found) < n
    PROVE  Extended(found, n) \in Chains /\ Len(Extended(found, n)) = n
<1>1. found \in Seq(Nat) BY DEF Chains
<1>2. Chain(Len(found), n - Len(found)) \in Seq(Nat)
  BY <1>1 DEF Chain
<1>3. Len(Chain(Len(found), n - Len(found))) = n - Len(found)
  BY <1>1 DEF Chain
<1>4. Extended(found, n) \in Seq(Nat) /\ Len(Extended(found, n)) = n
  BY <1>1, <1>2, <1>3 DEF Extended
<1>5. ASSUME NEW k \in 1..n PROVE Extended(found, n)[k] = k
  <2>1. CASE k <= Len(found)
    BY <2>1, <1>1, <1>2 DEF Extended, Chains
  <2>2. CASE k > Len(found)
    <3>1. Extended(found, n)[k] = Chain(Len(found), n - Len(found))[k - Len(found)]
      BY <2>2, <1>1, <1>2, <1>3 DEF Extended
    <3> QED BY <3>1, <2>2, <1>1 DEF Chain
  <2> QED BY <2>1, <2>2, <1>1
<1> QED BY <1>4, <1>5 DEF Chains

(* The beginnings of a chain are lists of numbers, the empty list among them. *)
LEMMA ChainsAreLists == << >> \in Chains /\ Chains \subseteq Seq(Nat)
BY DEF Chains

(* A OnceLock that is being filled is neither free nor filled. *)
LEMMA OnceLockFacts ==
    /\ Unset \in OnceLocks /\ \A t \in Threads : Claimed(t) \in OnceLocks
    /\ \A t \in Threads : Claimed(t) # Unset /\ ~Claimed(t).set
    /\ \A t, u \in Threads : Claimed(t) = Claimed(u) => t = u
BY SharedParamsAssumption DEF Unset, Claimed, OnceLocks

(* A thread in a call needs a positive number of generators. *)
LEMMA CapacityInCall ==
    ASSUME IInv, NEW t \in Threads, InCall(t)
    PROVE  shape[t] \in ValidShapes /\ shape[t] \in Shapes /\ Capacity[shape[t]] \in Nat \ {0}
BY SharedParamsAssumption DEF IInv, CallInv

(* A call that has not derived both lists has a label left to derive. *)
LEMMA LabelToDerive ==
    ASSUME IInv, NEW t \in Threads, Len(vecs[t]) < Len(Labels)
    PROVE  Label(t) \in {"G", "H"} /\ cache[Label(t)] \in Chains /\ Len(vecs[t]) < 2
<1>1. Len(Labels) = 2 /\ Labels[1] = "G" /\ Labels[2] = "H" BY DEF Labels
<1>2. Len(vecs[t]) \in Nat BY DEF IInv, TypeOK
<1>3. Len(vecs[t]) < 2 BY <1>1
<1>4. Len(vecs[t]) = 0 \/ Len(vecs[t]) = 1
  <2>1. \A n \in Nat : n < 2 => n = 0 \/ n = 1 OBVIOUS
  <2> QED BY <2>1, <1>2, <1>3
<1>5. Label(t) \in {"G", "H"} BY <1>1, <1>4 DEF Label
<1> QED BY <1>3, <1>5 DEF IInv, ChainInv

(* The invariant holds initially. *)
LEMMA InitInvariant == Init => IInv
BY SharedParamsAssumption, ChainsAreLists DEF Init, IInv, TypeOK, CallInv, EntryInv, ChainInv, InCall, Building

(***************************************************************************)
(* Every step preserves the invariant.                                     *)
(***************************************************************************)
LEMMA CallPreserves ==
    ASSUME IInv, NEW t \in Threads, NEW s \in Shapes, NEW first \in {"lock", "read"},
           Call(t, s, first)
    PROVE  IInv'
<1> USE SharedParamsAssumption, ChainsAreLists
<1>1. TypeOK'
  <2>1. pc' \in [Threads -> {"idle", "lock", "once", "read", "extend"}]
    BY DEF IInv, TypeOK, Call, Go
  <2>2. shape' \in [Threads -> Shapes \cup {NoShape}]
    BY DEF IInv, TypeOK, Call
  <2>3. calls' \in [Threads -> 0..MaxCalls]
    BY DEF IInv, TypeOK, Call
  <2> QED BY <2>1, <2>2, <2>3 DEF IInv, TypeOK, Call
<1>2. CallInv' BY DEF IInv, TypeOK, CallInv, Call, Go, InCall
<1>3. EntryInv'
  <2>1. UNCHANGED <<entry, got, map, once>> /\ entry[t] = 0
    BY DEF IInv, CallInv, Call
  <2>2. ASSUME NEW u \in Threads, entry[u] # 0
        PROVE  shape'[u] = shape[u] /\ pc'[u] = pc[u]
    BY <2>1, <2>2 DEF IInv, TypeOK, Call, Go
  <2>3. \A u \in Threads : Building(u)' => Building(u) BY <2>1, <2>2 DEF Building
  <2> QED BY <2>1, <2>2, <2>3 DEF IInv, EntryInv
<1>4. ChainInv'
  <2>1. ASSUME NEW u \in Threads PROVE shape'[u] = shape[u] \/ vecs[u] = << >>
    BY DEF IInv, TypeOK, CallInv, Call
  <2>2. ASSUME NEW u \in Threads
        PROVE  \A k \in 1..Len(vecs[u]) : Len(vecs[u][k]) >= Capacity[shape'[u]]
    <3>1. CASE vecs[u] = << >> BY <3>1
    <3>2. CASE shape'[u] = shape[u] BY <3>2 DEF IInv, ChainInv
    <3> QED BY <3>1, <3>2, <2>1
  <2> QED BY <2>2 DEF IInv, ChainInv, Call
<1> QED BY <1>1, <1>2, <1>3, <1>4 DEF IInv

(* Taking the entry out of the map keeps the invariant. *)
LEMMA CloneEntryPreserves ==
    ASSUME IInv, NEW t \in Threads, CloneEntry(t)
    PROVE  IInv'
<1> USE SharedParamsAssumption
<1> DEFINE s == shape[t]
           fresh == Len(once) + 1
<1>1. s \in Shapes /\ map[s] \in {0} \cup DOMAIN once
  BY CapacityInCall DEF CloneEntry, InCall, IInv, TypeOK
<1>2. once \in Seq(OnceLocks) /\ DOMAIN once = 1..Len(once) /\ Len(once) \in Nat
  BY DEF IInv, TypeOK, OnceLocks
<1>3. once' \in Seq(OnceLocks) /\ DOMAIN once \subseteq DOMAIN once'
      /\ \A e \in DOMAIN once : once'[e] = once[e]
  BY <1>2, OnceLockFacts DEF CloneEntry
<1>4. map'[s] \in DOMAIN once' /\ map'[s] # 0
  BY <1>1, <1>2 DEF CloneEntry, IInv, TypeOK
<1>5. map' = [map EXCEPT ![s] = map'[s]] /\ entry' = [entry EXCEPT ![t] = map'[s]]
  BY <1>1 DEF CloneEntry, IInv, TypeOK
<1>6. map[s] # 0 => map'[s] = map[s]
  BY <1>1 DEF CloneEntry, IInv, TypeOK
<1>7. map[s] = 0 => map'[s] \notin DOMAIN once
  BY <1>1, <1>2 DEF CloneEntry, IInv, TypeOK
<1>8. TypeOK'
  <2>1. pc' \in [Threads -> {"idle", "lock", "once", "read", "extend"}]
    BY DEF IInv, TypeOK, CloneEntry, Go
  <2>2. map' \in [Shapes -> {0} \cup DOMAIN once']
    BY <1>1, <1>3, <1>4, <1>5 DEF IInv, TypeOK
  <2>3. entry' \in [Threads -> {0} \cup DOMAIN once']
    BY <1>3, <1>4, <1>5 DEF IInv, TypeOK
  <2>4. got' \subseteq [shape : Shapes, instance : DOMAIN once']
    BY <1>3 DEF IInv, TypeOK, CloneEntry
  <2> QED BY <1>3, <2>1, <2>2, <2>3, <2>4 DEF IInv, TypeOK, CloneEntry, OnceLocks
<1>9. CallInv' BY <1>4, <1>5 DEF IInv, TypeOK, CallInv, CloneEntry, Go, InCall
<1>10. EntryInv'
  <2>1. ASSUME NEW q \in Shapes, NEW r \in Shapes, map'[q] = map'[r], map'[q] # 0
        PROVE  q = r
    <3>1. map \in [Shapes -> {0} \cup DOMAIN once] BY DEF IInv, TypeOK
    <3>2. ASSUME NEW x \in Shapes \ {s} PROVE map'[x] = map[x]
      BY <1>1, <1>5, <3>1
    <3>3. ASSUME NEW x \in Shapes \ {s} PROVE map[x] # map'[s]
      BY <1>1, <1>4, <1>6, <1>7, <3>1 DEF IInv, EntryInv
    <3> QED BY <2>1, <3>2, <3>3, <1>1 DEF IInv, EntryInv
  <2>2. \A u \in Threads : entry'[u] # 0 => entry'[u] = map'[shape'[u]]
    BY <1>1, <1>2, <1>5, <1>6 DEF IInv, TypeOK, EntryInv, CloneEntry
  <2>3. ASSUME NEW u \in Threads, Building(u)' PROVE once'[entry'[u]] = Claimed(u)
    BY <2>3, <1>2, <1>3, <1>5 DEF IInv, TypeOK, EntryInv, Building, CloneEntry, Go
  <2>4. ASSUME NEW a \in got' PROVE a.instance = map'[a.shape] /\ once'[a.instance].set
    <3>1. a \in got /\ a.shape \in Shapes /\ a.instance \in DOMAIN once
          /\ a.instance = map[a.shape] /\ once[a.instance].set
      BY DEF IInv, TypeOK, EntryInv, CloneEntry
    <3> QED BY <3>1, <1>1, <1>2, <1>3, <1>5, <1>6 DEF IInv, TypeOK
  <2> QED BY <2>1, <2>2, <2>3, <2>4 DEF EntryInv
<1>11. ChainInv' BY DEF IInv, ChainInv, CloneEntry
<1> QED BY <1>8, <1>9, <1>10, <1>11 DEF IInv

(* Claiming the OnceLock keeps the invariant. *)
LEMMA BeginPreserves ==
    ASSUME IInv, NEW t \in Threads, Begin(t)
    PROVE  IInv'
<1> USE SharedParamsAssumption
<1>1. once \in Seq(OnceLocks) /\ entry[t] \in DOMAIN once /\ once[entry[t]] = Unset
  BY DEF IInv, TypeOK, CallInv, Begin, OnceLocks
<1>2. once' = [once EXCEPT ![entry[t]] = Claimed(t)]
  BY DEF Begin, Claimed
<1>3. once' \in Seq(OnceLocks) /\ DOMAIN once' = DOMAIN once
  BY <1>1, <1>2, OnceLockFacts
<1>4. TypeOK'
  <2>1. pc' \in [Threads -> {"idle", "lock", "once", "read", "extend"}]
    BY DEF IInv, TypeOK, Begin, Go
  <2> QED BY <1>3, <2>1 DEF IInv, TypeOK, Begin, callVars, OnceLocks
<1>5. CallInv' BY DEF IInv, TypeOK, CallInv, Begin, Go, InCall
<1>6. EntryInv'
  <2>1. ASSUME NEW u \in Threads, Building(u)' PROVE once'[entry'[u]] = Claimed(u)
    <3>1. CASE u = t BY <3>1, <1>1, <1>2 DEF Begin
    <3>2. CASE u # t
      <4>1. Building(u) /\ once[entry[u]] = Claimed(u)
        BY <3>2, <2>1 DEF IInv, TypeOK, EntryInv, Building, Begin, Go
      <4>2. entry[u] # entry[t] BY <4>1, <1>1, OnceLockFacts
      <4>3. entry[u] \in DOMAIN once BY <4>1 DEF IInv, TypeOK, Building
      <4> QED BY <4>1, <4>2, <4>3, <1>1, <1>2 DEF Begin
    <3> QED BY <3>1, <3>2
  <2>2. ASSUME NEW a \in got' PROVE a.instance = map'[a.shape] /\ once'[a.instance].set
    <3>1. a \in got /\ a.instance \in DOMAIN once
          /\ a.instance = map[a.shape] /\ once[a.instance].set
      BY DEF IInv, TypeOK, EntryInv, Begin, callVars
    <3>2. a.instance # entry[t] BY <3>1, <1>1 DEF Unset
    <3> QED BY <3>1, <3>2, <1>1, <1>2 DEF Begin, callVars
  <2> QED BY <2>1, <2>2 DEF IInv, EntryInv, Begin, callVars
<1>7. ChainInv' BY DEF IInv, ChainInv, Begin
<1> QED BY <1>4, <1>5, <1>6, <1>7 DEF IInv

(* Reading the generator cache keeps the invariant. *)
LEMMA ReadCachePreserves ==
    ASSUME IInv, NEW t \in Threads, ReadCache(t)
    PROVE  IInv'
<1> USE SharedParamsAssumption
<1> DEFINE found == cache[Label(t)]
<1>1. found \in Chains /\ found \in Seq(Nat) /\ Len(found) \in Nat /\ Len(vecs[t]) < 2
  BY LabelToDerive, ChainsAreLists DEF ReadCache
<1>2. Capacity[shape[t]] \in Nat BY CapacityInCall DEF ReadCache, InCall
<1>3. pc[t] = "read" BY DEF ReadCache
<1>4. UNCHANGED <<shape, entry, got, calls, map, once, cache, built, panics, clears>>
  BY DEF ReadCache, callVars
<1>5. CASE Len(found) >= Capacity[shape[t]]
  <2>1. vecs' = [vecs EXCEPT ![t] = Append(@, found)] /\ UNCHANGED <<have, pc>>
    BY <1>5 DEF ReadCache
  <2> HIDE DEF found
  <2>2. vecs' \in [Threads -> Seq(Seq(Nat))] BY <2>1, <1>1 DEF IInv, TypeOK
  <2>3. vecs' \in [Threads -> Seq(Chains)] BY <2>1, <1>1 DEF IInv, ChainInv
  <2>4. TypeOK' BY <1>4, <2>1, <2>2 DEF IInv, TypeOK
  <2>5. CallInv' BY <1>3, <1>4, <2>1 DEF IInv, TypeOK, CallInv, InCall
  <2>6. EntryInv' BY <1>4, <2>1 DEF IInv, EntryInv, Building
  <2>7. ASSUME NEW u \in Threads
        PROVE  /\ Len(vecs'[u]) <= 2
               /\ \A k \in 1..Len(vecs'[u]) : Len(vecs'[u][k]) >= Capacity[shape[u]]
    <3>1. CASE u # t BY <3>1, <2>1 DEF IInv, TypeOK, ChainInv
    <3>2. CASE u = t
      <4>1. vecs[t] \in Seq(Seq(Nat)) /\ vecs'[t] = Append(vecs[t], found)
        BY <2>1 DEF IInv, TypeOK
      <4>2. Len(vecs'[t]) = Len(vecs[t]) + 1 /\ vecs'[t][Len(vecs[t]) + 1] = found
            /\ \A k \in 1..Len(vecs[t]) : vecs'[t][k] = vecs[t][k]
        BY <4>1, <1>1
      <4>3. \A k \in 1..Len(vecs[t]) : Len(vecs[t][k]) >= Capacity[shape[t]]
        BY DEF IInv, ChainInv
      <4>4. Len(vecs[t]) \in Nat BY <4>1
      <4>5. ASSUME NEW k \in 1..Len(vecs'[t]) PROVE Len(vecs'[t][k]) >= Capacity[shape[t]]
        <5>1. CASE k = Len(vecs[t]) + 1 BY <5>1, <4>2, <1>5
        <5>2. CASE k \in 1..Len(vecs[t]) BY <5>2, <4>2, <4>3
        <5> QED BY <5>1, <5>2, <4>2, <4>4
      <4> QED BY <3>2, <4>2, <4>4, <4>5, <1>1
    <3> QED BY <3>1, <3>2
  <2>8. ChainInv' BY <1>4, <2>1, <2>3, <2>7 DEF IInv, ChainInv
  <2> QED BY <2>4, <2>5, <2>6, <2>8 DEF IInv
<1>6. CASE ~(Len(found) >= Capacity[shape[t]])
  <2>1. have' = [have EXCEPT ![t] = found] /\ pc' = [pc EXCEPT ![t] = "extend"] /\ vecs' = vecs
    BY <1>6 DEF ReadCache, Go
  <2> HIDE DEF found
  <2>2. have' \in [Threads -> Seq(Nat)] BY <2>1, <1>1 DEF IInv, TypeOK
  <2>3. have' \in [Threads -> Chains] BY <2>1, <1>1 DEF IInv, ChainInv
  <2>4. pc' \in [Threads -> {"idle", "lock", "once", "read", "extend"}] BY <2>1 DEF IInv, TypeOK
  <2>5. TypeOK' BY <1>4, <2>1, <2>2, <2>4 DEF IInv, TypeOK
  <2>6. CallInv' BY <1>1, <1>2, <1>3, <1>4, <1>6, <2>1 DEF IInv, TypeOK, CallInv, InCall
  <2>7. EntryInv' BY <1>3, <1>4, <2>1 DEF IInv, TypeOK, EntryInv, Building
  <2>8. ChainInv' BY <1>4, <2>1, <2>3 DEF IInv, ChainInv
  <2> QED BY <2>5, <2>6, <2>7, <2>8 DEF IInv
<1> QED BY <1>5, <1>6

(* Extending the generator cache keeps the invariant. *)
LEMMA ExtendCachePreserves ==
    ASSUME IInv, NEW t \in Threads, ExtendCache(t)
    PROVE  IInv'
<1> USE SharedParamsAssumption, ChainsAreLists
<1>1. Label(t) \in {"G", "H"} BY DEF IInv, TypeOK, CallInv, ExtendCache, Label, Labels
<1>2. Capacity[shape[t]] \in Nat /\ Len(have[t]) < Capacity[shape[t]]
  BY DEF IInv, CallInv, ExtendCache, InCall
<1>3. have[t] \in Chains BY DEF IInv, ChainInv
<1> DEFINE new == Extended(have[t], Capacity[shape[t]])
<1>4. new \in Chains /\ Len(new) = Capacity[shape[t]]
  BY <1>2, <1>3, ExtendedIsChain
<1>5. cache' \in {cache, [cache EXCEPT ![Label(t)] = new]}
  BY DEF ExtendCache
<1> HIDE DEF new
<1>6. TypeOK'
  <2>1. pc' \in [Threads -> {"idle", "lock", "once", "read", "extend"}]
    BY DEF IInv, TypeOK, ExtendCache, Go
  <2>2. have' \in [Threads -> Seq(Nat)] BY DEF IInv, TypeOK, ExtendCache
  <2>3. cache' \in [{"G", "H"} -> Seq(Nat)]
    BY <1>1, <1>4, <1>5, ChainsAreLists DEF IInv, TypeOK
  <2> QED BY <2>1, <2>2, <2>3 DEF IInv, TypeOK, ExtendCache, callVars
<1>7. CallInv' BY DEF IInv, TypeOK, CallInv, ExtendCache, Go, InCall
<1>8. EntryInv'
  <2>1. UNCHANGED <<shape, entry, got, map, once>> BY DEF ExtendCache, callVars
  <2>2. \A u \in Threads : Building(u)' => Building(u)
    BY <2>1 DEF IInv, TypeOK, ExtendCache, Go, Building
  <2> QED BY <2>1, <2>2 DEF IInv, EntryInv
<1>9. ChainInv' BY <1>1, <1>4, <1>5 DEF IInv, TypeOK, ChainInv, ExtendCache, Go
<1> QED BY <1>6, <1>7, <1>8, <1>9 DEF IInv

(* Returning disturbs only what the thread itself had. *)
LEMMA ReturnTypes ==
    ASSUME IInv, NEW t \in Threads, Return(t)
    PROVE  /\ pc' \in [Threads -> {"idle", "lock", "once", "read", "extend"}]
           /\ shape' \in [Threads -> Shapes \cup {NoShape}]
           /\ vecs' \in [Threads -> Seq(Seq(Nat))]
           /\ have' \in [Threads -> Seq(Nat)]
           /\ entry' \in [Threads -> {0} \cup DOMAIN once]
<1>1. << >> \in Seq(Nat) /\ << >> \in Seq(Seq(Nat)) OBVIOUS
<1> QED BY <1>1 DEF Return, Go, IInv, TypeOK

(* A return resets what the thread holds and leaves the other threads alone. *)
LEMMA ReturnLeavesOthers ==
    ASSUME IInv, NEW t \in Threads, Return(t)
    PROVE  /\ pc'[t] = "idle" /\ entry'[t] = 0 /\ vecs'[t] = << >>
           /\ \A u \in Threads \ {t} : /\ pc'[u] = pc[u] /\ shape'[u] = shape[u]
                                       /\ entry'[u] = entry[u] /\ vecs'[u] = vecs[u]
                                       /\ have'[u] = have[u]
BY DEF Return, Go, IInv, TypeOK

(* A return keeps what the invariant says about calls. *)
LEMMA ReturnPreservesCalls ==
    ASSUME IInv, NEW t \in Threads, Return(t)
    PROVE  CallInv'
BY ReturnLeavesOthers DEF IInv, CallInv, InCall

(* A return keeps what the invariant says about the lists in progress. *)
LEMMA ReturnPreservesLists ==
    ASSUME IInv, NEW t \in Threads, Return(t)
    PROVE  /\ have' \in [Threads -> Chains]
           /\ vecs' \in [Threads -> Seq(Chains)]
           /\ \A u \in Threads :
                /\ Len(vecs'[u]) <= 2
                /\ \A k \in 1..Len(vecs'[u]) : Len(vecs'[u][k]) >= Capacity[shape'[u]]
<1>1. have' \in [Threads -> Chains]
  BY ChainsAreLists DEF Return, IInv, ChainInv
<1>2. vecs' \in [Threads -> Seq(Chains)]
  <2>1. << >> \in Seq(Chains) OBVIOUS
  <2> QED BY <2>1 DEF Return, IInv, ChainInv
<1>3. ASSUME NEW u \in Threads
      PROVE  /\ Len(vecs'[u]) <= 2
             /\ \A k \in 1..Len(vecs'[u]) : Len(vecs'[u][k]) >= Capacity[shape'[u]]
  <2>1. CASE u = t BY <2>1, ReturnLeavesOthers
  <2>2. CASE u # t
    <3>1. shape'[u] = shape[u] /\ vecs'[u] = vecs[u] BY <2>2, ReturnLeavesOthers
    <3> QED BY <3>1 DEF IInv, ChainInv
  <2> QED BY <2>1, <2>2
<1> QED BY <1>1, <1>2, <1>3

(* A thread that leaves its OnceLock released or filled disturbs no other  *)
(* thread's claim and nothing that was returned.                           *)
LEMMA ReleasePreservesEntries ==
    ASSUME IInv, NEW t \in Threads, Return(t), Building(t), UNCHANGED map,
           NEW lock \in OnceLocks, once' = [once EXCEPT ![entry[t]] = lock]
    PROVE  /\ once' \in Seq(OnceLocks) /\ DOMAIN once' = DOMAIN once
           /\ entry[t] \in DOMAIN once /\ once'[entry[t]] = lock
           /\ entry[t] = map[shape[t]]
           /\ \A u \in Threads : entry'[u] # 0 => entry'[u] = map'[shape'[u]]
           /\ \A u \in Threads : Building(u)' => once'[entry'[u]] = Claimed(u)
           /\ \A a \in got : a.instance = map'[a.shape] /\ once'[a.instance].set
<1>1. once \in Seq(OnceLocks) /\ entry[t] \in DOMAIN once
      /\ entry[t] = map[shape[t]] /\ once[entry[t]] = Claimed(t)
  BY DEF IInv, TypeOK, EntryInv, Building, OnceLocks
<1>2. once' \in Seq(OnceLocks) /\ DOMAIN once' = DOMAIN once /\ once'[entry[t]] = lock
      /\ \A e \in DOMAIN once \ {entry[t]} : once'[e] = once[e]
  BY <1>1
<1>3. \A u \in Threads : entry'[u] # 0 => entry'[u] = map'[shape'[u]]
  BY ReturnLeavesOthers DEF IInv, EntryInv
<1>4. ASSUME NEW u \in Threads, Building(u)' PROVE once'[entry'[u]] = Claimed(u)
  <2>1. u # t BY <1>4, ReturnLeavesOthers DEF Building
  <2>2. Building(u) /\ entry'[u] = entry[u] /\ once[entry[u]] = Claimed(u)
    BY <1>4, <2>1, ReturnLeavesOthers DEF Building, IInv, EntryInv
  <2>3. entry[u] \in DOMAIN once BY <2>2 DEF Building, IInv, TypeOK
  <2>4. entry[u] # entry[t] BY <1>1, <2>1, <2>2, OnceLockFacts
  <2> QED BY <1>2, <2>2, <2>3, <2>4
<1>5. ASSUME NEW a \in got PROVE a.instance = map'[a.shape] /\ once'[a.instance].set
  <2>1. a.instance \in DOMAIN once /\ a.instance = map[a.shape] /\ once[a.instance].set
    BY DEF IInv, TypeOK, EntryInv
  <2>2. a.instance # entry[t] BY <2>1, <1>1, OnceLockFacts
  <2> QED BY <2>1, <2>2, <1>2
<1> QED BY <1>1, <1>2, <1>3, <1>4, <1>5

(* A thread that returns without touching a OnceLock. *)
LEMMA ReturnPreservesEntries ==
    ASSUME IInv, NEW t \in Threads, Return(t), UNCHANGED <<map, once>>
    PROVE  /\ \A u \in Threads : entry'[u] # 0 => entry'[u] = map'[shape'[u]]
           /\ \A u \in Threads : Building(u)' => once'[entry'[u]] = Claimed(u)
           /\ \A a \in got : a.instance = map'[a.shape] /\ once'[a.instance].set
BY ReturnLeavesOthers DEF IInv, EntryInv, Building

(* Building the parameters keeps the invariant. *)
LEMMA BuildPreserves ==
    ASSUME IInv, NEW t \in Threads, Build(t)
    PROVE  IInv'
<1> USE SharedParamsAssumption
<1> DEFINE filled == [by |-> Free, set |-> TRUE]
           mine == [shape |-> shape[t], instance |-> entry[t]]
<1>1. Return(t) /\ UNCHANGED <<calls, map, cache, panics, clears>> /\ pc[t] = "read"
      /\ Len(vecs[t]) = 2 /\ built' = built \cup {Instance(t)}
  BY DEF Build, Labels
<1>2. shape[t] \in ValidShapes /\ shape[t] \in Shapes /\ Capacity[shape[t]] \in Nat
  BY <1>1, CapacityInCall DEF InCall
<1>3. CallInv' BY <1>1, ReturnPreservesCalls
<1>4. ChainInv'
  <2>1. 1 \in 1..Len(vecs[t]) /\ 2 \in 1..Len(vecs[t]) BY <1>1
  <2>2. vecs[t][1] \in Chains /\ vecs[t][2] \in Chains
    <3>1. vecs[t] \in Seq(Chains) BY DEF IInv, ChainInv
    <3> QED BY <3>1, <2>1
  <2>3. Len(vecs[t][1]) >= Capacity[shape[t]] /\ Len(vecs[t][2]) >= Capacity[shape[t]]
    BY <2>1 DEF IInv, ChainInv
  <2>4. Instance(t).G = vecs[t][1] /\ Instance(t).H = vecs[t][2]
        /\ Instance(t).gens_capacity = Capacity[shape[t]]
    BY DEF Instance
  <2>5. ASSUME NEW params \in built', NEW list \in {params.G, params.H}
        PROVE  list \in Chains /\ Len(list) >= params.gens_capacity
    <3>1. CASE params \in built BY <3>1 DEF IInv, ChainInv
    <3>2. CASE params = Instance(t) BY <3>2, <2>2, <2>3, <2>4
    <3> QED BY <3>1, <3>2, <1>1
  <2> QED BY <1>1, <2>5, ReturnPreservesLists DEF IInv, ChainInv
<1>5. CASE entry[t] = 0
  <2>1. UNCHANGED <<once, got>> BY <1>5 DEF Build
  <2>2. TypeOK' BY <1>1, <2>1, ReturnTypes DEF IInv, TypeOK
  <2>3. EntryInv' BY <1>1, <2>1, ReturnPreservesEntries DEF IInv, EntryInv
  <2> QED BY <1>3, <1>4, <2>2, <2>3 DEF IInv
<1>6. CASE entry[t] # 0
  <2>1. once' = [once EXCEPT ![entry[t]] = filled] /\ got' = got \cup {mine}
    BY <1>6 DEF Build, Received
  <2>2. filled \in OnceLocks BY DEF OnceLocks
  <2>3. Building(t) BY <1>1, <1>6 DEF Building
  <2>4. filled.set /\ mine.shape = shape[t] /\ mine.instance = entry[t] OBVIOUS
  <2> HIDE DEF filled
  <2>5. once' \in Seq(OnceLocks) /\ DOMAIN once' = DOMAIN once
        /\ entry[t] \in DOMAIN once /\ once'[entry[t]] = filled /\ entry[t] = map[shape[t]]
    BY <1>1, <2>1, <2>2, <2>3, ReleasePreservesEntries
  <2>6. TypeOK'
    <3>1. got' \subseteq [shape : Shapes, instance : DOMAIN once']
      BY <2>1, <2>5, <1>2 DEF IInv, TypeOK
    <3> QED BY <1>1, <2>5, <3>1, ReturnTypes DEF IInv, TypeOK, OnceLocks
  <2>7. EntryInv'
    <3> HIDE DEF mine
    <3>1. ASSUME NEW a \in got' PROVE a.instance = map'[a.shape] /\ once'[a.instance].set
      <4>1. CASE a \in got
        BY <4>1, <1>1, <2>1, <2>2, <2>3, ReleasePreservesEntries
      <4>2. CASE a = mine BY <4>2, <1>1, <2>4, <2>5
      <4> QED BY <4>1, <4>2, <2>1
    <3>2. /\ \A u \in Threads : entry'[u] # 0 => entry'[u] = map'[shape'[u]]
          /\ \A u \in Threads : Building(u)' => once'[entry'[u]] = Claimed(u)
      BY <1>1, <2>1, <2>2, <2>3, ReleasePreservesEntries
    <3> QED BY <1>1, <3>1, <3>2 DEF IInv, EntryInv
  <2> QED BY <1>3, <1>4, <2>6, <2>7 DEF IInv
<1> QED BY <1>5, <1>6

(* A panic while the parameters are built keeps the invariant. *)
LEMMA PanicPreserves ==
    ASSUME IInv, NEW t \in Threads, Panic(t)
    PROVE  IInv'
<1> USE SharedParamsAssumption
<1>1. Return(t) /\ UNCHANGED <<got, calls, map, cache, built, clears>> /\ pc[t] = "extend"
      /\ panics' \in 0..MaxPanics
  BY DEF Panic, callVars, IInv, TypeOK
<1>2. CallInv' BY <1>1, ReturnPreservesCalls
<1>3. ChainInv' BY <1>1, ReturnPreservesLists DEF IInv, ChainInv
<1>4. CASE entry[t] = 0
  <2>1. once' = once BY <1>4 DEF Panic
  <2>2. TypeOK' BY <1>1, <2>1, ReturnTypes DEF IInv, TypeOK
  <2>3. EntryInv' BY <1>1, <2>1, ReturnPreservesEntries DEF IInv, EntryInv
  <2> QED BY <1>2, <1>3, <2>2, <2>3 DEF IInv
<1>5. CASE entry[t] # 0
  <2>1. Building(t) BY <1>1, <1>5 DEF Building
  <2>2. once' = [once EXCEPT ![entry[t]] = Unset] BY <1>5 DEF Panic
  <2>3. once' \in Seq(OnceLocks) /\ DOMAIN once' = DOMAIN once
    BY <1>1, <2>1, <2>2, OnceLockFacts, ReleasePreservesEntries
  <2>4. TypeOK' BY <1>1, <2>3, ReturnTypes DEF IInv, TypeOK, OnceLocks
  <2>5. EntryInv'
    <3>1. /\ \A u \in Threads : entry'[u] # 0 => entry'[u] = map'[shape'[u]]
          /\ \A u \in Threads : Building(u)' => once'[entry'[u]] = Claimed(u)
          /\ \A a \in got : a.instance = map'[a.shape] /\ once'[a.instance].set
      BY <1>1, <2>1, <2>2, OnceLockFacts, ReleasePreservesEntries
    <3> QED BY <1>1, <3>1 DEF IInv, EntryInv
  <2> QED BY <1>2, <1>3, <2>4, <2>5 DEF IInv
<1> QED BY <1>4, <1>5

(* Finding the OnceLock filled keeps the invariant. *)
LEMMA GetPreserves ==
    ASSUME IInv, NEW t \in Threads, Get(t)
    PROVE  IInv'
<1> USE SharedParamsAssumption
<1> DEFINE mine == [shape |-> shape[t], instance |-> entry[t]]
<1>1. Return(t) /\ UNCHANGED <<calls, map, once, cache, built, panics, clears>> /\ pc[t] = "once"
      /\ once[entry[t]].set /\ got' = got \cup {mine}
  BY DEF Get, Received
<1>2. shape[t] \in Shapes BY <1>1, CapacityInCall DEF InCall
<1>3. entry[t] \in DOMAIN once /\ entry[t] = map[shape[t]]
  BY <1>1 DEF IInv, TypeOK, CallInv, EntryInv
<1>4. mine.shape = shape[t] /\ mine.instance = entry[t] OBVIOUS
<1>5. TypeOK'
  <2>1. got' \subseteq [shape : Shapes, instance : DOMAIN once']
    BY <1>1, <1>2, <1>3 DEF IInv, TypeOK
  <2> QED BY <1>1, <2>1, ReturnTypes DEF IInv, TypeOK
<1>6. CallInv' BY <1>1, ReturnPreservesCalls
<1>7. EntryInv'
  <2> HIDE DEF mine
  <2>1. ASSUME NEW a \in got' PROVE a.instance = map'[a.shape] /\ once'[a.instance].set
    <3>1. CASE a \in got BY <3>1, <1>1, ReturnPreservesEntries
    <3>2. CASE a = mine BY <3>2, <1>1, <1>3, <1>4
    <3> QED BY <3>1, <3>2, <1>1
  <2> QED BY <1>1, <2>1, ReturnPreservesEntries DEF IInv, EntryInv
<1>8. ChainInv' BY <1>1, ReturnPreservesLists DEF IInv, ChainInv
<1> QED BY <1>5, <1>6, <1>7, <1>8 DEF IInv

(* Clearing the generator cache keeps the invariant. *)
LEMMA ClearPreserves ==
    ASSUME IInv, ClearGeneratorCache
    PROVE  IInv'
<1> USE SharedParamsAssumption, ChainsAreLists
<1>1. TypeOK' BY DEF IInv, TypeOK, ClearGeneratorCache, callVars
<1>2. CallInv' BY DEF IInv, CallInv, ClearGeneratorCache, InCall
<1>3. EntryInv' BY DEF IInv, EntryInv, ClearGeneratorCache, Building, callVars
<1>4. ChainInv' BY DEF IInv, TypeOK, ChainInv, ClearGeneratorCache
<1> QED BY <1>1, <1>2, <1>3, <1>4 DEF IInv

(* So does doing nothing. *)
LEMMA StutteringPreserves ==
    ASSUME IInv, UNCHANGED vars
    PROVE  IInv'
BY DEF IInv, TypeOK, CallInv, EntryInv, ChainInv, InCall, Building, vars

(* Every step keeps the invariant. *)
LEMMA StepPreserves ==
    ASSUME IInv, [Next]_vars
    PROVE  IInv'
<1>1. CASE UNCHANGED vars BY <1>1, StutteringPreserves
<1>2. CASE ClearGeneratorCache BY <1>2, ClearPreserves
<1>3. ASSUME NEW t \in Threads, NEW s \in Shapes, CallShared(t, s) \/ CallSetup(t, s)
      PROVE  IInv'
  BY <1>3, CallPreserves DEF CallShared, CallSetup
<1>4. ASSUME NEW t \in Threads, CloneEntry(t) PROVE IInv' BY <1>4, CloneEntryPreserves
<1>5. ASSUME NEW t \in Threads, Begin(t) PROVE IInv' BY <1>5, BeginPreserves
<1>6. ASSUME NEW t \in Threads, Get(t) PROVE IInv' BY <1>6, GetPreserves
<1>7. ASSUME NEW t \in Threads, ReadCache(t) PROVE IInv' BY <1>7, ReadCachePreserves
<1>8. ASSUME NEW t \in Threads, ExtendCache(t) PROVE IInv' BY <1>8, ExtendCachePreserves
<1>9. ASSUME NEW t \in Threads, Build(t) PROVE IInv' BY <1>9, BuildPreserves
<1>10. ASSUME NEW t \in Threads, Panic(t) PROVE IInv' BY <1>10, PanicPreserves
<1> QED BY <1>1, <1>2, <1>3, <1>4, <1>5, <1>6, <1>7, <1>8, <1>9, <1>10 DEF Next

(* The invariant holds in every reachable state. *)
LEMMA Invariant == Spec => []IInv
BY InitInvariant, StepPreserves, PTL DEF Spec

(***************************************************************************)
(* Theorems.                                                               *)
(***************************************************************************)
(* The state keeps its types, for shared, setup and derive alike. *)
THEOREM TypeCorrect == Spec => []TypeOK
<1>1. IInv => TypeOK BY DEF IInv
<1> QED BY <1>1, Invariant, PTL

(* Callers of shared get one instance for each shape: an entry belongs to  *)
(* one shape and is never replaced.                                        *)
THEOREM OneInstance == Spec => []OneInstancePerShape
<1>1. IInv => OneInstancePerShape
  BY DEF IInv, TypeOK, EntryInv, OneInstancePerShape
<1> QED BY <1>1, Invariant, PTL

(* shared builds a shape in one thread at a time and not again afterwards: *)
(* the OnceLock is claimed by one thread, and what was returned is in a    *)
(* OnceLock that is set.                                                   *)
THEOREM BuiltOnce == Spec => []NoDuplicateWork
<1>1. IInv => NoDuplicateWork
  <2> SUFFICES ASSUME IInv, NEW t \in Threads, Building(t)
               PROVE  /\ \A u \in Threads \ {t} : ~(Building(u) /\ shape[u] = shape[t])
                      /\ \A a \in got : a.shape # shape[t]
    BY DEF NoDuplicateWork
  <2>1. entry[t] = map[shape[t]] /\ once[entry[t]] = Claimed(t)
    BY DEF IInv, EntryInv, Building
  <2>2. ASSUME NEW u \in Threads, Building(u), shape[u] = shape[t] PROVE u = t
    BY <2>1, <2>2, OnceLockFacts DEF IInv, EntryInv, Building
  <2>3. ASSUME NEW a \in got, a.shape = shape[t] PROVE FALSE
    BY <2>1, <2>3, OnceLockFacts DEF IInv, EntryInv
  <2> QED BY <2>2, <2>3
<1> QED BY <1>1, Invariant, PTL

(* Every instance has the generators of the chain, however many threads    *)
(* derive, store and empty the cache at the same time.                     *)
THEOREM RightGenerators == Spec => []GeneratorsAreTheChain
<1>1. IInv => GeneratorsAreTheChain
  <2> SUFFICES ASSUME IInv, NEW params \in built, NEW list \in {params.G, params.H}
               PROVE  Len(list) >= params.gens_capacity /\ \A k \in DOMAIN list : list[k] = k
    BY DEF GeneratorsAreTheChain
  <2>1. list \in Chains /\ Len(list) >= params.gens_capacity BY DEF IInv, ChainInv
  <2>2. \A k \in DOMAIN list : list[k] = k BY <2>1 DEF Chains
  <2> QED BY <2>1, <2>2
<1> QED BY <1>1, Invariant, PTL

(* No thread shortens a cached prefix, except by emptying the cache. *)
THEOREM MonotoneCache == Spec => CacheNeverShrinks
<1> DEFINE Grows == \A l \in DOMAIN cache : Len(cache'[l]) >= Len(cache[l]) \/ clears' # clears
<1>1. ASSUME IInv, [Next]_vars PROVE [Grows]_vars
  <2> USE SharedParamsAssumption
  <2>1. TypeOK BY <1>1 DEF IInv
  <2>2. CASE cache' = cache
    BY <2>1, <2>2 DEF TypeOK
  <2>3. CASE ClearGeneratorCache
    BY <2>1, <2>3 DEF TypeOK, ClearGeneratorCache
  <2>4. ASSUME NEW t \in Threads, ExtendCache(t) PROVE Grows
    <3>1. Label(t) \in {"G", "H"} BY <1>1, <2>4 DEF IInv, TypeOK, CallInv, ExtendCache, Label, Labels
    <3>2. Capacity[shape[t]] \in Nat /\ Len(have[t]) < Capacity[shape[t]]
      BY <1>1, <2>4 DEF IInv, CallInv, ExtendCache, InCall
    <3>3. have[t] \in Chains BY <1>1 DEF IInv, ChainInv
    <3>4. Len(Extended(have[t], Capacity[shape[t]])) = Capacity[shape[t]]
      BY <3>2, <3>3, ExtendedIsChain
    <3> QED BY <2>1, <2>4, <3>1, <3>2, <3>3, <3>4 DEF TypeOK, ExtendCache
  <2>5. cache' = cache \/ ClearGeneratorCache \/ \E t \in Threads : ExtendCache(t)
    BY <1>1 DEF Next, vars, CallShared, CallSetup, Call, CloneEntry, Begin, Get, ReadCache, Build, Panic
  <2> QED BY <2>2, <2>3, <2>4, <2>5
<1> QED BY <1>1, Invariant, PTL DEF Spec, CacheNeverShrinks
=============================================================================
