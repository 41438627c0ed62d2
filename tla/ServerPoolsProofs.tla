--------------------------- MODULE ServerPoolsProofs ---------------------------
(***************************************************************************)
(* For any number of connections, headers and fields: the managers' free   *)
(* stacks and the live connections share out the handlers without overlap, *)
(* and no header field is lost or invented.                                *)
(***************************************************************************)
EXTENDS ServerPools, TLAPS, FiniteSetTheorems

(* The types.  A proxy_handler has both stream handlers or none. *)
StackTypes ==
  /\ current_free_position \in [Pools -> Nat]
  /\ free_data_stack \in [Pools -> [Slots -> Slots]]
HeldTypes ==
  /\ held \in [Slots -> [StreamKinds -> Nat]]
  /\ \A h \in Live : held[h] \in [StreamKinds -> Slots]

(* No element is twice among the free entries of a manager, nor with two live
   connections. *)
Distinct ==
  /\ \A p \in Pools : \A i, j \in current_free_position[p] + 1 .. MAX_CONNECTIONS :
       free_data_stack[p][i] = free_data_stack[p][j] => i = j
  /\ \A s \in StreamKinds : \A g, h \in Live : held[g][s] = held[h][s] => g = h

Split(p) == Taken(p) \cup Remaining(p) = Slots /\ Taken(p) \cap Remaining(p) = {}

(* The managers' positions count what is taken, and are all the same. *)
InStep ==
  \A p \in Pools :
    /\ Cardinality(Taken(p)) = current_free_position[p]
    /\ current_free_position[p] = current_free_position["proxy"]

PoolInv == StackTypes /\ HeldTypes /\ Distinct /\ (\A p \in Pools : Split(p)) /\ InStep

-------------------------------------------------------------------------------
LEMMA SlotsFinite ==
  /\ MAX_CONNECTIONS \in Nat \ {0} /\ 0 \notin Slots /\ Slots \subseteq Nat
  /\ 0 + 1 .. MAX_CONNECTIONS = Slots
  /\ \A S \in SUBSET Slots : IsFiniteSet(S)
<1>0. 0 + 1 .. MAX_CONNECTIONS = Slots
  BY DEF Slots
<1>1. MAX_CONNECTIONS \in Nat \ {0} /\ 0 \notin Slots /\ Slots \subseteq Nat
  BY PoolAssumption DEF Slots
<1>2. IsFiniteSet(Slots)
  BY <1>1, FS_Interval DEF Slots
<1>3. ASSUME NEW S \in SUBSET Slots PROVE IsFiniteSet(S)
  BY <1>2, FS_Subset
<1> QED BY <1>0, <1>1, <1>3

LEMMA PoolNames ==
  /\ "proxy" \in Pools /\ StreamKinds \subseteq Pools /\ "proxy" \notin StreamKinds
  /\ \A p \in Pools : p # "proxy" => p \in StreamKinds
BY DEF Pools, StreamKinds

(* A proxy_handler that holds a stream handler is not free. *)
LEMMA HeldIsLive ==
  ASSUME NEW e \in [StreamKinds -> Slots]
  PROVE  e # Free
<1>1. e["request"] # Free["request"]
  BY SlotsFinite DEF Free, StreamKinds
<1> QED BY <1>1

LEMMA TakenInSlots ==
  ASSUME PoolInv, NEW p \in Pools
  PROVE  Taken(p) \subseteq Slots /\ IsFiniteSet(Taken(p))
<1>1. Taken(p) \subseteq Slots
  BY PoolNames DEF PoolInv, HeldTypes, Taken, Live
<1> QED BY <1>1, SlotsFinite

LEMMA PoolsInit == PoolInit => PoolInv
<1> SUFFICES ASSUME PoolInit PROVE PoolInv
  OBVIOUS
<1> USE DEF PoolInit
<1>1. Live = {}
  BY DEF Live
<1>2. StackTypes
  BY DEF StackTypes
<1>3. HeldTypes
  BY <1>1 DEF HeldTypes, Free
<1>6. \A p \in Pools : /\ current_free_position[p] + 1 .. MAX_CONNECTIONS = Slots
                       /\ \A i \in Slots : free_data_stack[p][i] = i
  BY SlotsFinite
<1>4. Distinct
  BY <1>1, <1>6 DEF Distinct
<1>5. ASSUME NEW p \in Pools PROVE Taken(p) = {} /\ Remaining(p) = Slots
  <2>1. Taken(p) = {}
    BY <1>1 DEF Taken
  <2>2. Remaining(p) = {free_data_stack[p][i] : i \in Slots}
    BY ONLY <1>6, p \in Pools DEF Remaining
  <2>3. \A i \in Slots : free_data_stack[p][i] = i
    BY ONLY <1>6, p \in Pools
  <2>4. Remaining(p) = Slots
    BY ONLY <2>2, <2>3, Zenon
  <2> QED BY <2>1, <2>4
<1>7. InStep
  BY <1>5, PoolNames, FS_EmptySet DEF InStep
<1> QED BY <1>2, <1>3, <1>4, <1>5, <1>7 DEF PoolInv, Split

-------------------------------------------------------------------------------
(* allocate_element() takes an element that is free and no longer offers it. *)
LEMMA TakenFromStack ==
  ASSUME PoolInv, NEW p \in Pools, ~Exhausted(p)
  PROVE  /\ NextElement(p) \in Slots /\ NextElement(p) \in Remaining(p)
         /\ NextElement(p) \notin Taken(p)
         /\ Remaining(p) \ {NextElement(p)} =
              {free_data_stack[p][i] : i \in current_free_position[p] + 2 .. MAX_CONNECTIONS}
<1> DEFINE c == current_free_position[p]
           f == free_data_stack[p]
           M == MAX_CONNECTIONS
<1>1. c \in Nat /\ M \in Nat /\ c < M /\ f \in [Slots -> Slots] /\ Slots = 1 .. M
  BY SlotsFinite DEF PoolInv, StackTypes, Exhausted, Slots
<1>2. \A i, j \in c + 1 .. M : f[i] = f[j] => i = j
  BY DEF PoolInv, Distinct
<1>3. Remaining(p) = {f[i] : i \in c + 1 .. M} /\ NextElement(p) = f[c + 1]
  BY DEF Remaining, NextElement
<1> HIDE DEF c, f, M
<1>4. c + 1 \in c + 1 .. M /\ c + 1 \in Slots
  BY <1>1
<1>5. c + 2 .. M = (c + 1 .. M) \ {c + 1}
  BY <1>1
<1>6. {f[i] : i \in c + 1 .. M} \ {f[c + 1]} = {f[i] : i \in c + 2 .. M}
  BY <1>2, <1>4, <1>5
<1>7. NextElement(p) \in Slots /\ NextElement(p) \in Remaining(p)
  BY <1>1, <1>3, <1>4
<1>8. NextElement(p) \notin Taken(p)
  BY <1>7 DEF PoolInv, Split
<1> QED BY <1>3, <1>6, <1>7, <1>8 DEF c, f, M

LEMMA AcceptStep ==
  ASSUME PoolInv, AcceptClient
  PROVE  PoolInv'
<1> DEFINE h == NextElement("proxy")
           e == [s \in StreamKinds |-> NextElement(s)]
<1>0. UNCHANGED free_data_stack
  BY DEF AcceptClient
<1>1. /\ held' = [held EXCEPT ![h] = e]
      /\ current_free_position' = [p \in Pools |-> current_free_position[p] + 1]
      /\ \A p \in Pools : ~Exhausted(p)
  BY DEF AcceptClient
<1>2. h \in Slots /\ h \notin Live /\ e \in [StreamKinds -> Slots] /\ e # Free
  BY <1>1, TakenFromStack, PoolNames, HeldIsLive DEF Taken
<1>3. Live' = Live \cup {h}
  BY <1>1, <1>2 DEF PoolInv, HeldTypes, Live
<1>4. \A g \in Live : held'[g] = held[g] /\ g # h
  BY <1>1, <1>2 DEF PoolInv, HeldTypes, Live
<1>5. held'[h] = e
  BY <1>1, <1>2 DEF PoolInv, HeldTypes
<1>6. ASSUME NEW p \in Pools
      PROVE  /\ Taken(p)' = Taken(p) \cup {NextElement(p)}
             /\ Remaining(p)' = Remaining(p) \ {NextElement(p)}
  <2>1. Taken(p)' = Taken(p) \cup {NextElement(p)}
    <3>1. CASE p = "proxy"
      BY <1>3, <3>1 DEF Taken
    <3>2. CASE p # "proxy"
      <4>1. p \in StreamKinds /\ e[p] = NextElement(p)
        BY <3>2, PoolNames
      <4> HIDE DEF h, e
      <4>2. {held'[g][p] : g \in Live \cup {h}} = {held[g][p] : g \in Live} \cup {e[p]}
        BY <1>4, <1>5
      <4> QED BY <1>3, <3>2, <4>1, <4>2 DEF Taken
    <3> QED BY <3>1, <3>2
  <2>2. Remaining(p)' = {free_data_stack[p][i] : i \in current_free_position[p] + 2 .. MAX_CONNECTIONS}
    <3>1. current_free_position'[p] + 1 = current_free_position[p] + 2
      BY <1>1 DEF PoolInv, StackTypes
    <3> QED BY <1>0, <3>1 DEF Remaining
  <2> QED BY <1>1, <2>1, <2>2, TakenFromStack
<1> HIDE DEF h, e
<1>7. StackTypes'
  BY <1>0, <1>1 DEF PoolInv, StackTypes
<1>8. HeldTypes'
  <2>1. held' \in [Slots -> [StreamKinds -> Nat]]
    BY <1>1, <1>2, SlotsFinite DEF PoolInv, HeldTypes
  <2> QED BY <1>2, <1>3, <1>4, <1>5, <2>1 DEF PoolInv, HeldTypes
<1>9. Distinct'
  <2>1. ASSUME NEW p \in Pools,
               NEW i \in current_free_position'[p] + 1 .. MAX_CONNECTIONS,
               NEW j \in current_free_position'[p] + 1 .. MAX_CONNECTIONS,
               free_data_stack'[p][i] = free_data_stack'[p][j]
        PROVE  i = j
    <3>1. i \in current_free_position[p] + 1 .. MAX_CONNECTIONS /\ j \in current_free_position[p] + 1 .. MAX_CONNECTIONS
      BY <1>1, SlotsFinite DEF PoolInv, StackTypes
    <3> QED BY <1>0, <2>1, <3>1 DEF PoolInv, Distinct
  <2>2. ASSUME NEW s \in StreamKinds, NEW g \in Live
        PROVE  held'[g][s] # held'[h][s]
    <3>1. e[s] \notin {held[k][s] : k \in Live}
      BY <1>1, TakenFromStack, PoolNames DEF Taken, e
    <3> QED BY <1>4, <1>5, <3>1
  <2>3. ASSUME NEW s \in StreamKinds, NEW g \in Live \cup {h}, NEW k \in Live \cup {h}, held'[g][s] = held'[k][s]
        PROVE  g = k
    BY <1>4, <2>2, <2>3 DEF PoolInv, Distinct
  <2> QED BY <1>3, <2>1, <2>3 DEF Distinct
<1>10. ASSUME NEW p \in Pools PROVE Split(p)'
  BY <1>1, <1>6, TakenFromStack DEF PoolInv, Split
<1>11. InStep'
  <2>1. ASSUME NEW p \in Pools PROVE Cardinality(Taken(p)') = current_free_position[p] + 1
    <3>1. Cardinality(Taken(p) \cup {NextElement(p)}) = Cardinality(Taken(p)) + 1
      BY <1>1, TakenFromStack, TakenInSlots, FS_AddElement
    <3> QED BY <1>6, <3>1 DEF PoolInv, InStep
  <2> QED BY <1>1, <2>1, PoolNames DEF PoolInv, InStep
<1> QED BY <1>7, <1>8, <1>9, <1>10, <1>11 DEF PoolInv

(* release_element() of what a live connection holds puts it back, once. *)
LEMMA ShutdownStep ==
  ASSUME PoolInv, NEW h \in Slots, Shutdown(h)
  PROVE  PoolInv'
<1> DEFINE e == [p \in Pools |-> IF p = "proxy" THEN h ELSE held[h][p]]
           c == current_free_position["proxy"]
<1>1. /\ h \in Live /\ held' = [held EXCEPT ![h] = Free]
      /\ free_data_stack' = [p \in Pools |->
           [free_data_stack[p] EXCEPT ![current_free_position[p]] = e[p]]]
      /\ current_free_position' = [p \in Pools |-> current_free_position[p] - 1]
  BY DEF Shutdown, ReleaseElements
<1>2. ASSUME NEW p \in Pools PROVE e[p] \in Taken(p) /\ e[p] \in Slots
  BY <1>1, PoolNames DEF Taken, PoolInv, HeldTypes
<1>3. c \in Nat /\ c \in Slots /\ \A p \in Pools : current_free_position[p] = c
  <2>1. c \in Nat /\ \A p \in Pools : current_free_position[p] = c
    BY PoolNames DEF PoolInv, StackTypes, InStep
  <2>2. c = Cardinality(Live) /\ IsFiniteSet(Live) /\ Live \subseteq Slots
    BY PoolNames, TakenInSlots DEF PoolInv, InStep, Taken
  <2>3. c # 0
    BY <1>1, <2>2, FS_EmptySet
  <2>4. c <= Cardinality(Slots) /\ Cardinality(Slots) = MAX_CONNECTIONS
    <3>1. IsFiniteSet(Slots)
      BY SlotsFinite
    <3>2. Cardinality(Slots) = MAX_CONNECTIONS
      BY SlotsFinite, FS_Interval DEF Slots
    <3> QED BY <2>2, <3>1, <3>2, FS_Subset
  <2> QED BY <2>1, <2>3, <2>4, SlotsFinite DEF Slots
<1>4. Live' = Live \ {h} /\ \A g \in Live' : held'[g] = held[g]
  BY <1>1 DEF PoolInv, HeldTypes, Live
<1>5. ASSUME NEW p \in Pools
      PROVE  Taken(p)' = Taken(p) \ {e[p]}
  <2>1. CASE p = "proxy"
    BY <1>4, <2>1 DEF Taken
  <2>2. CASE p # "proxy"
    <3>1. p \in StreamKinds /\ e[p] = held[h][p]
      BY <2>2, PoolNames
    <3>2. \A g, k \in Live : held[g][p] = held[k][p] => g = k
      BY <3>1 DEF PoolInv, Distinct
    <3>3. {held'[g][p] : g \in Live'} = {held[g][p] : g \in Live} \ {held[h][p]}
      BY <1>1, <1>4, <3>2
    <3> QED BY <2>2, <3>1, <3>3 DEF Taken
  <2> QED BY <2>1, <2>2
<1> HIDE DEF e
<1>6. ASSUME NEW p \in Pools
      PROVE  /\ current_free_position'[p] = c - 1
             /\ free_data_stack'[p] = [free_data_stack[p] EXCEPT ![c] = e[p]]
  BY <1>1, <1>3
<1>7. ASSUME NEW p \in Pools
      PROVE  /\ free_data_stack'[p][c] = e[p]
             /\ \A i \in c + 1 .. MAX_CONNECTIONS : free_data_stack'[p][i] = free_data_stack[p][i]
             /\ free_data_stack'[p] \in [Slots -> Slots]
  <2>1. free_data_stack[p] \in [Slots -> Slots]
    BY DEF PoolInv, StackTypes
  <2>2. \A i \in c + 1 .. MAX_CONNECTIONS : i \in Slots /\ i # c
    BY <1>3, SlotsFinite DEF Slots
  <2> QED BY <1>2, <1>3, <1>6, <2>1, <2>2
<1>8. ASSUME NEW p \in Pools
      PROVE  Remaining(p)' = Remaining(p) \cup {e[p]}
  <2>1. c .. MAX_CONNECTIONS = (c + 1 .. MAX_CONNECTIONS) \cup {c} /\ c - 1 + 1 = c
    BY <1>3, SlotsFinite DEF Slots
  <2> HIDE DEF c
  <2>2. Remaining(p)' = {free_data_stack'[p][i] : i \in c .. MAX_CONNECTIONS}
    BY <1>6, <2>1 DEF Remaining
  <2>3. Remaining(p) = {free_data_stack[p][i] : i \in c + 1 .. MAX_CONNECTIONS}
    BY <1>3 DEF Remaining
  <2> QED BY <1>7, <2>1, <2>2, <2>3
<1>9. StackTypes'
  <2>1. c - 1 \in Nat
    BY <1>3, SlotsFinite
  <2>2. current_free_position' \in [Pools -> Nat]
    BY <1>1, <1>3, <2>1
  <2>3. free_data_stack' \in [Pools -> [Slots -> Slots]]
    BY <1>1, <1>7
  <2> QED BY <2>2, <2>3 DEF StackTypes
<1>10. HeldTypes'
  <2>1. Free \in [StreamKinds -> Nat]
    BY DEF Free
  <2> QED BY <1>1, <1>4, <2>1 DEF PoolInv, HeldTypes
<1>11. Distinct'
  <2>1. ASSUME NEW p \in Pools,
               NEW i \in current_free_position'[p] + 1 .. MAX_CONNECTIONS,
               NEW j \in current_free_position'[p] + 1 .. MAX_CONNECTIONS,
               free_data_stack'[p][i] = free_data_stack'[p][j]
        PROVE  i = j
    <3>1. /\ i = c \/ i \in c + 1 .. MAX_CONNECTIONS
          /\ j = c \/ j \in c + 1 .. MAX_CONNECTIONS
      <4>1. i \in c - 1 + 1 .. MAX_CONNECTIONS /\ j \in c - 1 + 1 .. MAX_CONNECTIONS
        BY <1>6
      <4> HIDE DEF c
      <4> QED BY <1>3, <4>1, SlotsFinite
    <3>2. \A k \in c + 1 .. MAX_CONNECTIONS : free_data_stack[p][k] # e[p]
      BY <1>2, <1>3 DEF PoolInv, Split, Remaining
    <3>3. \A k, l \in c + 1 .. MAX_CONNECTIONS : free_data_stack[p][k] = free_data_stack[p][l] => k = l
      BY <1>3 DEF PoolInv, Distinct
    <3> QED BY <1>7, <2>1, <3>1, <3>2, <3>3
  <2>2. \A s \in StreamKinds : \A g, k \in Live' : held'[g][s] = held'[k][s] => g = k
    BY <1>4 DEF PoolInv, Distinct
  <2> QED BY <2>1, <2>2 DEF Distinct
<1>12. ASSUME NEW p \in Pools PROVE Split(p)'
  BY <1>2, <1>5, <1>8 DEF PoolInv, Split
<1>13. InStep'
  <2>1. ASSUME NEW p \in Pools PROVE Cardinality(Taken(p)') = c - 1
    <3>1. Cardinality(Taken(p) \ {e[p]}) = Cardinality(Taken(p)) - 1
      BY <1>2, TakenInSlots, FS_RemoveElement
    <3>2. Cardinality(Taken(p)) = c
      BY <1>3 DEF PoolInv, InStep
    <3> QED BY <1>5, <3>1, <3>2
  <2> QED BY <1>6, <2>1, PoolNames DEF InStep
<1> QED BY <1>9, <1>10, <1>11, <1>12, <1>13 DEF PoolInv

LEMMA PoolStep ==
  ASSUME PoolInv, [PoolNext]_pvars
  PROVE  PoolInv'
<1>1. CASE UNCHANGED <<free_data_stack, current_free_position, held>>
  <2>1. Live' = Live /\ \A p \in Pools : Taken(p)' = Taken(p) /\ Remaining(p)' = Remaining(p)
    BY <1>1 DEF Live, Taken, Remaining
  <2>2. StackTypes' /\ HeldTypes' /\ Distinct'
    BY <1>1, <2>1 DEF PoolInv, StackTypes, HeldTypes, Distinct
  <2>3. (\A p \in Pools : Split(p))' /\ InStep'
    BY <1>1, <2>1 DEF PoolInv, Split, InStep
  <2> QED BY <2>2, <2>3 DEF PoolInv
<1>2. CASE AcceptFails \/ UNCHANGED pvars
  BY <1>1, <1>2 DEF AcceptFails, pvars
<1>3. CASE \E h \in Slots, s \in StreamKinds : AddField(h, s) \/ CompleteMessage(h, s)
  BY <1>1, <1>3 DEF AddField, CompleteMessage
<1> QED BY <1>2, <1>3, AcceptStep, ShutdownStep DEF PoolNext

LEMMA PoolInvariant == PoolSpec => []PoolInv
BY PoolsInit, PoolStep, PTL DEF PoolSpec

(* No two connections share a handler and none uses one that was released, for
   any size of the managers and any order of connections and shutdowns. *)
THEOREM HandlersNotShared == PoolSpec => []NoSharing
<1>1. ASSUME PoolInv PROVE NoSharing
  <2>1. Taken("proxy") = Live
    BY DEF Taken
  <2>2. \A p \in Pools : Cardinality(Taken(p)) = current_free_position[p] /\ Cardinality(Live) = current_free_position[p]
    BY <1>1, <2>1, PoolNames DEF PoolInv, InStep
  <2> QED BY <1>1, <2>2 DEF PoolInv, Split, NoSharing
<1> QED BY <1>1, PoolInvariant, PTL

-------------------------------------------------------------------------------
(* Induction by the least counterexample: the library's induction theorems take
   the property as an operator, which no prover here can instantiate. *)
LEMMA LeastNumber ==
  ASSUME NEW T \in SUBSET Nat, T # {}
  PROVE  \E n \in T : \A m \in T : n <= m
<1> DEFINE R == {ss \in Nat \X Nat : ss[1] < ss[2]}
<1>1. IsWellFoundedOn(R, Nat)
  BY NatLessThanWellFounded DEF OpToRel
<1>2. \E n \in T : \A m \in T : ~(<<m, n>> \in R)
  BY <1>1, WFMin
<1>3. \A m, n \in Nat : m < n => <<m, n>> \in R
  OBVIOUS
<1> HIDE DEF R
<1>4. \A m, n \in Nat : ~(m < n) => n <= m
  OBVIOUS
<1> QED BY <1>2, <1>3, <1>4

(* Induction over finite sets, in the same way. *)
LEMMA LeastSet ==
  ASSUME NEW T, T # {}, \A s \in T : IsFiniteSet(s)
  PROVE  \E s \in T : \A x \in s : s \ {x} \notin T
<1> DEFINE N == {Cardinality(s) : s \in T}
<1>1. N \in SUBSET Nat /\ N # {}
  BY FS_CardinalityType
<1>2. PICK n \in N : \A m \in N : n <= m
  BY <1>1, LeastNumber
<1>3. PICK s \in T : n = Cardinality(s)
  OBVIOUS
<1>4. ASSUME NEW x \in s, s \ {x} \in T PROVE FALSE
  <2>1. Cardinality(s \ {x}) = n - 1 /\ n \in Nat
    BY <1>1, <1>3, FS_RemoveElement
  <2>2. Cardinality(s \ {x}) \in N
    BY <1>4
  <2>3. n <= n - 1
    BY <1>2, <2>1, <2>2
  <2> QED BY <2>1, <2>3
<1> QED BY <1>4

-------------------------------------------------------------------------------
(* SumFunctionOnSet() is a recursion over sets that takes an unspecified
   element at each step. *)
Pick(s) == CHOOSE x \in s : TRUE
SumStep(f, g, s) == IF s = {} THEN 0 ELSE f[Pick(s)] + g[s \ {Pick(s)}]

Solves(f, S, g) == g = [s \in SUBSET S |-> SumStep(f, g, s)]

LEMMA PickIn == ASSUME NEW s, s # {} PROVE Pick(s) \in s
BY DEF Pick

(* The recursion of MapThenFoldSet() has a solution on the subsets of a finite
   set: one for those of n elements gives one for those of n + 1. *)
LEMMA SumExists ==
  ASSUME NEW f, NEW S, IsFiniteSet(S)
  PROVE  \E g : Solves(f, S, g)
<1> DEFINE L(n) == {s \in SUBSET S : Cardinality(s) <= n}
           Solved(n) == \E g : g = [s \in L(n) |-> SumStep(f, g, s)]
           T == {n \in Nat : ~Solved(n)}
<1>0. \A s \in SUBSET S : IsFiniteSet(s) /\ Cardinality(s) \in Nat
  BY FS_Subset, FS_CardinalityType
<1>1. Solved(0)
  <2>1. L(0) = {{}}
    <3>1. \A s \in SUBSET S : Cardinality(s) <= 0 <=> s = {}
      BY <1>0, FS_EmptySet
    <3> QED BY <3>1
  <2> DEFINE g == [s \in {{}} |-> 0]
  <2>2. g = [s \in L(0) |-> SumStep(f, g, s)]
    BY <2>1 DEF SumStep
  <2> QED BY <2>2
<1>2. ASSUME NEW n \in Nat, Solved(n) PROVE Solved(n + 1)
  <2>1. PICK g : g = [s \in L(n) |-> SumStep(f, g, s)]
    BY <1>2
  <2> DEFINE h == [s \in L(n + 1) |-> SumStep(f, g, s)]
  <2>2. \A s \in L(n) : h[s] = g[s]
    <3>1. ASSUME NEW s \in L(n) PROVE h[s] = g[s]
      <4>1. s \in L(n + 1)
        BY <1>0
      <4>2. g[s] = SumStep(f, g, s)
        BY <2>1, Zenon
      <4> QED BY <4>1, <4>2
    <3> QED BY <3>1
  <2>3. ASSUME NEW s \in L(n + 1), s # {} PROVE s \ {Pick(s)} \in L(n)
    <3>1. Cardinality(s \ {Pick(s)}) = Cardinality(s) - 1
      BY <1>0, <2>3, PickIn, FS_RemoveElement
    <3>2. s \in SUBSET S /\ Cardinality(s) <= n + 1 /\ Cardinality(s) \in Nat
      BY <1>0
    <3> QED BY <3>1, <3>2
  <2>4. ASSUME NEW s \in L(n + 1) PROVE SumStep(f, g, s) = SumStep(f, h, s)
    <3>1. CASE s = {}
      BY <3>1 DEF SumStep
    <3>2. CASE s # {}
      <4>1. g[s \ {Pick(s)}] = h[s \ {Pick(s)}]
        BY <2>2, <2>3, <3>2
      <4> QED BY <4>1 DEF SumStep
    <3> QED BY <3>1, <3>2
  <2> HIDE DEF L
  <2>5. h = [s \in L(n + 1) |-> SumStep(f, h, s)]
    BY <2>4
  <2> QED BY <2>5
<1> HIDE DEF Solved
<1>3. T = {}
  <2> SUFFICES ASSUME T # {} PROVE FALSE
    OBVIOUS
  <2>1. PICK n \in T : \A m \in T : n <= m
    BY LeastNumber
  <2>2. n \in Nat /\ ~Solved(n) /\ n # 0
    BY <1>1
  <2>3. n - 1 \in Nat /\ ~(n <= n - 1) /\ n - 1 + 1 = n
    BY <2>2
  <2>4. Solved(n - 1)
    BY <2>1, <2>3
  <2> QED BY <1>2, <2>2, <2>3, <2>4
<1>4. Solved(Cardinality(S))
  BY <1>0, <1>3
<1>5. L(Cardinality(S)) = SUBSET S
  BY FS_Subset
<1> QED BY <1>4, <1>5 DEF Solved, Solves

LEMMA SumUnfolds ==
  ASSUME NEW f, NEW S, IsFiniteSet(S)
  PROVE  \E g : Solves(f, S, g) /\ SumFunctionOnSet(f, S) = g[S]
<1> DEFINE h == CHOOSE g : Solves(f, S, g)
<1>1. Solves(f, S, h)
  BY SumExists
<1>2. SumFunctionOnSet(f, S) = h[S]
  BY DEF Solves, SumFunctionOnSet, FoldFunctionOnSet, MapThenFoldSet, SumStep, Pick
<1> QED BY <1>1, <1>2

(* Solutions for functions that agree on a set agree on its subsets. *)
LEMMA SumUnique ==
  ASSUME NEW f, NEW f2, NEW S, NEW S2, NEW g, NEW g2, IsFiniteSet(S),
         Solves(f, S, g), Solves(f2, S2, g2),
         S \subseteq S2, \A x \in S : f[x] = f2[x]
  PROVE  \A s \in SUBSET S : g[s] = g2[s]
<1> DEFINE T == {s \in SUBSET S : g[s] # g2[s]}
<1>1. SUFFICES ASSUME T # {} PROVE FALSE
  OBVIOUS
<1>2. \A s \in T : IsFiniteSet(s)
  BY FS_Subset
<1>3. PICK s \in T : \A x \in s : s \ {x} \notin T
  BY <1>1, <1>2, LeastSet
<1>4. s \in SUBSET S /\ s \in SUBSET S2
  OBVIOUS
<1>5. g[s] = SumStep(f, g, s) /\ g2[s] = SumStep(f2, g2, s)
  BY <1>4, Zenon DEF Solves
<1>6. CASE s = {}
  BY <1>5, <1>6 DEF SumStep
<1>7. CASE s # {}
  <2>1. Pick(s) \in s
    BY <1>7, PickIn
  <2>2. g[s \ {Pick(s)}] = g2[s \ {Pick(s)}]
    BY <1>3, <1>4, <2>1
  <2>3. f[Pick(s)] = f2[Pick(s)]
    BY <1>4, <2>1
  <2> QED BY <1>5, <1>7, <2>2, <2>3 DEF SumStep
<1> QED BY <1>6, <1>7

(* The sum depends on the values over the set only. *)
LEMMA SumSame ==
  ASSUME NEW f, NEW f2, NEW S, IsFiniteSet(S), \A x \in S : f[x] = f2[x]
  PROVE  SumFunctionOnSet(f, S) = SumFunctionOnSet(f2, S)
<1>1. PICK g : Solves(f, S, g) /\ SumFunctionOnSet(f, S) = g[S]
  BY SumUnfolds
<1>2. PICK g2 : Solves(f2, S, g2) /\ SumFunctionOnSet(f2, S) = g2[S]
  BY SumUnfolds
<1>3. \A s \in SUBSET S : g[s] = g2[s]
  BY <1>1, <1>2, SumUnique
<1> QED BY <1>1, <1>2, <1>3

LEMMA SumEmpty == ASSUME NEW f PROVE SumFunctionOnSet(f, {}) = 0
<1>1. PICK g : Solves(f, {}, g) /\ SumFunctionOnSet(f, {}) = g[{}]
  BY SumUnfolds, FS_EmptySet
<1>2. g[{}] = SumStep(f, g, {})
  BY <1>1, Zenon DEF Solves
<1> QED BY <1>1, <1>2 DEF SumStep

LEMMA SumPick ==
  ASSUME NEW f, NEW S, IsFiniteSet(S), S # {}
  PROVE  SumFunctionOnSet(f, S) = f[Pick(S)] + SumFunctionOnSet(f, S \ {Pick(S)})
<1> DEFINE U == S \ {Pick(S)}
<1>1. IsFiniteSet(U)
  BY FS_RemoveElement
<1>2. PICK g2 : Solves(f, S, g2) /\ SumFunctionOnSet(f, S) = g2[S]
  BY SumUnfolds
<1>3. PICK g : Solves(f, U, g) /\ SumFunctionOnSet(f, U) = g[U]
  BY <1>1, SumUnfolds
<1>4. g[U] = g2[U]
  <2>1. \A s \in SUBSET U : g[s] = g2[s]
    BY <1>1, <1>2, <1>3, SumUnique
  <2> QED BY <2>1
<1>5. g2[S] = SumStep(f, g2, S)
  BY <1>2, Zenon DEF Solves
<1> QED BY <1>2, <1>3, <1>4, <1>5 DEF SumStep

LEMMA SumType ==
  ASSUME NEW f, NEW S, IsFiniteSet(S), \A x \in S : f[x] \in Nat
  PROVE  SumFunctionOnSet(f, S) \in Nat
<1> DEFINE T == {s \in SUBSET S : SumFunctionOnSet(f, s) \notin Nat}
<1>1. SUFFICES ASSUME T # {} PROVE FALSE
  OBVIOUS
<1>2. \A s \in T : IsFiniteSet(s)
  BY FS_Subset
<1>3. PICK s \in T : \A x \in s : s \ {x} \notin T
  BY <1>1, <1>2, LeastSet
<1>4. s # {}
  BY SumEmpty
<1>5. Pick(s) \in s /\ f[Pick(s)] \in Nat
  BY <1>4, PickIn
<1>6. SumFunctionOnSet(f, s \ {Pick(s)}) \in Nat
  BY <1>3, <1>5
<1>7. SumFunctionOnSet(f, s) = f[Pick(s)] + SumFunctionOnSet(f, s \ {Pick(s)})
  BY <1>2, <1>4, SumPick
<1> QED BY <1>5, <1>6, <1>7

(* The order of the sum does not matter: any element can be taken first. *)
LEMMA SumTakeAny ==
  ASSUME NEW f, NEW S, IsFiniteSet(S), \A x \in S : f[x] \in Nat
  PROVE  \A x \in S : SumFunctionOnSet(f, S) = f[x] + SumFunctionOnSet(f, S \ {x})
<1> DEFINE P(s) == \A x \in s : SumFunctionOnSet(f, s) = f[x] + SumFunctionOnSet(f, s \ {x})
           T == {s \in SUBSET S : ~P(s)}
<1>1. SUFFICES ASSUME T # {} PROVE FALSE
  OBVIOUS
<1>2. \A s \in SUBSET S : IsFiniteSet(s)
  BY FS_Subset
<1>3. PICK s \in T : \A x \in s : s \ {x} \notin T
  BY <1>1, <1>2, LeastSet
<1>4. PICK x \in s : SumFunctionOnSet(f, s) # f[x] + SumFunctionOnSet(f, s \ {x})
  OBVIOUS
<1>5. \A y \in s : P(s \ {y})
  BY <1>3
<1> DEFINE c == Pick(s)
           u == (s \ {x}) \ {c}
<1>6. c \in s /\ SumFunctionOnSet(f, s) = f[c] + SumFunctionOnSet(f, s \ {c})
  BY <1>2, <1>4, PickIn, SumPick
<1> HIDE DEF c
<1>7. x # c
  BY <1>4, <1>6
<1>8. (s \ {c}) \ {x} = u
  OBVIOUS
<1>9. SumFunctionOnSet(f, s \ {c}) = f[x] + SumFunctionOnSet(f, u)
  BY <1>5, <1>6, <1>7, <1>8
<1>10. SumFunctionOnSet(f, s \ {x}) = f[c] + SumFunctionOnSet(f, u)
  BY <1>5, <1>6, <1>7
<1>11. f[x] \in Nat /\ f[c] \in Nat /\ SumFunctionOnSet(f, u) \in Nat
  BY <1>2, <1>6, SumType
<1> QED BY <1>4, <1>6, <1>9, <1>10, <1>11

(* One value changed changes the sum by as much. *)
LEMMA SumChange ==
  ASSUME NEW S, IsFiniteSet(S), NEW f \in [S -> Nat], NEW g \in [S -> Nat], NEW x \in S,
         \A y \in S \ {x} : g[y] = f[y]
  PROVE  SumFunction(g) + f[x] = SumFunction(f) + g[x]
<1>1. IsFiniteSet(S \ {x})
  BY FS_RemoveElement
<1>2. SumFunctionOnSet(g, S \ {x}) = SumFunctionOnSet(f, S \ {x})
  BY <1>1, SumSame
<1>3. SumFunctionOnSet(f, S) = f[x] + SumFunctionOnSet(f, S \ {x})
  BY SumTakeAny
<1>4. SumFunctionOnSet(g, S) = g[x] + SumFunctionOnSet(g, S \ {x})
  BY SumTakeAny
<1>5. SumFunctionOnSet(f, S \ {x}) \in Nat /\ f[x] \in Nat /\ g[x] \in Nat
  BY <1>1, SumType
<1>6. SumFunction(f) = SumFunctionOnSet(f, S) /\ SumFunction(g) = SumFunctionOnSet(g, S)
  BY DEF SumFunction
<1> QED BY <1>2, <1>3, <1>4, <1>5, <1>6

(* The values over xs go to 0, and the sum loses them. *)
Emptied(f, S, xs) == [x \in S |-> IF x \in xs THEN 0 ELSE f[x]]

LEMMA SumEmptied ==
  ASSUME NEW S, IsFiniteSet(S), NEW f \in [S -> Nat], NEW X \in SUBSET S
  PROVE  SumFunctionOnSet(f, X) + SumFunction(Emptied(f, S, X)) = SumFunction(f)
<1> DEFINE P(xs) == SumFunctionOnSet(f, xs) + SumFunction(Emptied(f, S, xs)) = SumFunction(f)
           T == {xs \in SUBSET S : ~P(xs)}
<1>1. SUFFICES ASSUME T # {} PROVE FALSE
  OBVIOUS
<1>2. \A xs \in SUBSET S : IsFiniteSet(xs)
  BY FS_Subset
<1>3. PICK xs \in T : \A x \in xs : xs \ {x} \notin T
  BY <1>1, <1>2, LeastSet
<1>4. xs # {}
  <2>1. SumFunctionOnSet(f, {}) = 0
    BY SumEmpty
  <2>2. Emptied(f, S, {}) = f
    BY DEF Emptied
  <2>3. SumFunction(f) \in Nat
    BY SumType DEF SumFunction
  <2> QED BY <2>1, <2>2, <2>3
<1>5. PICK x \in xs : TRUE
  BY <1>4
<1> DEFINE g == Emptied(f, S, xs)
           h == Emptied(f, S, xs \ {x})
<1>6. P(xs \ {x})
  BY <1>3
<1>7. g \in [S -> Nat] /\ h \in [S -> Nat] /\ g[x] = 0 /\ h[x] = f[x] /\ \A y \in S \ {x} : g[y] = h[y]
  BY DEF Emptied
<1>8. IsFiniteSet(xs) /\ \A y \in xs : f[y] \in Nat
  BY <1>2
<1>9. SumFunctionOnSet(f, xs) = f[x] + SumFunctionOnSet(f, xs \ {x})
  BY <1>8, SumTakeAny
<1>10. SumFunctionOnSet(f, xs \ {x}) \in Nat
  BY <1>2, <1>8, SumType
<1>11. SumFunction(g) \in Nat /\ SumFunction(h) \in Nat /\ f[x] \in Nat
  BY <1>7, <1>8, SumType DEF SumFunction
<1>12. ~P(xs)
  OBVIOUS
<1> HIDE DEF g, h
<1>13. SumFunction(g) + h[x] = SumFunction(h) + g[x]
  BY <1>7, SumChange
<1>14. SumFunction(g) + f[x] = SumFunction(h)
  BY <1>7, <1>11, <1>13
<1> QED BY <1>6, <1>9, <1>10, <1>11, <1>12, <1>14 DEF g, h

-------------------------------------------------------------------------------
(* No header is lost or invented. *)
FieldInv ==
  /\ fields \in [StreamHandlers -> Nat] /\ cache \in Nat
  /\ HeadersConserved

LEMMA HandlersFinite == IsFiniteSet(StreamHandlers)
<1>1. IsFiniteSet(StreamKinds)
  <2>1. StreamKinds = {"request"} \cup {"response"}
    BY DEF StreamKinds
  <2> QED BY <2>1, FS_Singleton, FS_Union
<1>2. IsFiniteSet(Slots)
  BY SlotsFinite
<1> QED BY <1>1, <1>2, FS_Product DEF StreamHandlers

LEMMA FieldInit == PoolInit => FieldInv
<1> SUFFICES ASSUME PoolInit PROVE FieldInv
  OBVIOUS
<1> DEFINE z == [x \in StreamHandlers |-> 0]
<1>1. fields = z /\ cache = HEADER_POOL_SIZE
  BY DEF PoolInit
<1>2. z \in [StreamHandlers -> Nat] /\ DOMAIN z = StreamHandlers
  OBVIOUS
<1>3. Emptied(z, StreamHandlers, StreamHandlers) = z
  BY DEF Emptied
<1> HIDE DEF z
<1>4. SumFunctionOnSet(z, StreamHandlers) + SumFunction(z) = SumFunction(z)
  BY <1>2, <1>3, HandlersFinite, SumEmptied
<1>5. SumFunction(z) \in Nat /\ SumFunction(z) = SumFunctionOnSet(z, StreamHandlers)
  BY <1>2, HandlersFinite, SumType DEF SumFunction
<1>6. SumFunction(z) = 0
  <2>1. \A a \in Nat : a + a = a => a = 0
    OBVIOUS
  <2> QED BY <1>4, <1>5, <2>1
<1> QED BY <1>1, <1>2, <1>6, PoolAssumption DEF FieldInv, HeadersConserved

(* message_buffer::reset() of any stream handlers. *)
LEMMA ReleaseKeeps ==
  ASSUME FieldInv, NEW xs \in SUBSET StreamHandlers, ReleaseHeaders(xs)
  PROVE  FieldInv'
<1>1. cache' = cache + SumFunctionOnSet(fields, xs) /\ fields' = Emptied(fields, StreamHandlers, xs)
  BY DEF ReleaseHeaders, Emptied
<1>2. fields \in [StreamHandlers -> Nat] /\ cache \in Nat
  BY DEF FieldInv
<1>3. fields' \in [StreamHandlers -> Nat]
  BY <1>1, <1>2 DEF Emptied
<1>4. SumFunctionOnSet(fields, xs) + SumFunction(fields') = SumFunction(fields)
  BY <1>1, <1>2, HandlersFinite, SumEmptied
<1>5. SumFunctionOnSet(fields, xs) \in Nat
  <2>1. IsFiniteSet(xs) /\ \A x \in xs : fields[x] \in Nat
    BY <1>2, HandlersFinite, FS_Subset
  <2> QED BY <2>1, SumType
<1>6. SumFunction(fields') \in Nat
  BY <1>3, HandlersFinite, SumType DEF SumFunction
<1> QED BY <1>1, <1>2, <1>3, <1>4, <1>5, <1>6 DEF FieldInv, HeadersConserved

LEMMA AddKeeps ==
  ASSUME PoolInv, FieldInv, NEW h \in Slots, NEW s \in StreamKinds, AddField(h, s)
  PROVE  FieldInv'
<1> DEFINE x == <<s, held[h][s]>>
<1>1. x \in StreamHandlers
  BY DEF AddField, PoolInv, HeldTypes, StreamHandlers
<1>2. cache > 0 /\ fields' = [fields EXCEPT ![x] = @ + 1] /\ cache' = cache - 1
  BY DEF AddField
<1> HIDE DEF x
<1>3. fields \in [StreamHandlers -> Nat] /\ cache \in Nat
  BY DEF FieldInv
<1>4. fields' \in [StreamHandlers -> Nat] /\ fields'[x] = fields[x] + 1 /\ \A y \in StreamHandlers \ {x} : fields'[y] = fields[y]
  BY <1>1, <1>2, <1>3
<1>5. SumFunction(fields') + fields[x] = SumFunction(fields) + fields'[x]
  BY <1>1, <1>3, <1>4, HandlersFinite, SumChange
<1>6. SumFunction(fields') \in Nat /\ SumFunction(fields) \in Nat /\ fields[x] \in Nat
  BY <1>1, <1>3, <1>4, HandlersFinite, SumType DEF SumFunction
<1> QED BY <1>2, <1>3, <1>4, <1>5, <1>6 DEF FieldInv, HeadersConserved

LEMMA FieldStep ==
  ASSUME PoolInv, FieldInv, [PoolNext]_pvars
  PROVE  FieldInv'
<1>1. CASE UNCHANGED <<fields, cache>>
  BY <1>1 DEF FieldInv, HeadersConserved
<1>2. CASE AcceptClient
  <2>1. \A s \in StreamKinds : NextElement(s) \in Slots
    BY <1>2, TakenFromStack, PoolNames DEF AcceptClient
  <2>2. {<<s, NextElement(s)>> : s \in StreamKinds} \in SUBSET StreamHandlers
    BY <2>1 DEF StreamHandlers
  <2> QED BY <1>2, <2>2, ReleaseKeeps DEF AcceptClient
<1>3. ASSUME NEW h \in Slots, NEW s \in StreamKinds, CompleteMessage(h, s) PROVE FieldInv'
  <2>1. held[h][s] \in Slots
    BY <1>3 DEF CompleteMessage, PoolInv, HeldTypes
  <2>2. {<<s, held[h][s]>>} \in SUBSET StreamHandlers
    BY <2>1 DEF StreamHandlers
  <2> QED BY <1>1, <1>3, <2>2, ReleaseKeeps DEF CompleteMessage
<1>4. CASE AcceptFails \/ (\E h \in Slots : Shutdown(h)) \/ UNCHANGED pvars
  BY <1>1, <1>4 DEF AcceptFails, Shutdown, pvars
<1> QED BY <1>2, <1>3, <1>4, AddKeeps DEF PoolNext

(* The header_cache and the message buffers, those of released stream handlers
   included, hold every header there is: whatever is added, completed, shut down
   or taken into use again. *)
THEOREM NoHeaderLost == PoolSpec => []HeadersConserved
<1>1. PoolInv /\ FieldInv /\ [PoolNext]_pvars => (PoolInv /\ FieldInv)'
  BY PoolStep, FieldStep
<1>2. PoolInv /\ FieldInv => HeadersConserved
  BY DEF FieldInv
<1> QED BY <1>1, <1>2, PoolsInit, FieldInit, PTL DEF PoolSpec

================================================================================
