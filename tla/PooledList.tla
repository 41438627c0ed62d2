------------------------------ MODULE PooledList ------------------------------
(***************************************************************************)
(* util/pooled_list: lists whose elements live in raw memory that moves    *)
(* between the free list of a pool and the active lists attached to it.  A *)
(* copy of a T may throw, and so does an insertion into a list whose pool  *)
(* is empty.  A constructor that throws has no destructor to give back     *)
(* what it took.  Which of its free elements a pool hands out cannot be    *)
(* observed: the free list is a set, of which some are taken.              *)
(***************************************************************************)
EXTENDS Integers, Sequences, FiniteSets, SequencesExt

CONSTANTS Lists, Pools, Values,
    PoolSize,           \* pool -> size_
    MaxLen              \* bound: values given to one operation

ASSUME PooledListAssumption ==
    /\ Pools # {} /\ PoolSize \in [Pools -> Nat]
    /\ Values \subseteq Nat /\ MaxLen \in Nat

VARIABLES
    op,                 \* the last call
    lists,              \* the lists that are constructed
    active_list_,       \* list -> its elements
    p_pool_,            \* list -> its pool
    free_list_,         \* pool -> its free elements
    data,               \* element -> the T constructed in it, or Dead
    lost,               \* elements that copies which threw took: nothing points at them
    threw               \* the last call ended in an exception

vars == <<op, lists, active_list_, p_pool_, free_list_, data, lost, threw>>

Elements(p) == {<<p, i>> : i \in 1 .. PoolSize[p]}
AllElements == UNION {Elements(p) : p \in Pools}
Dead        == -1           \* no T, and
Unseen      == -2           \* a T that nothing refers to: neither is in Values
NoPool      == CHOOSE p \in Pools : TRUE   \* of a list that is not constructed
Inputs      == UNION {[1 .. n -> Values] : n \in 0 .. MaxLen}

Drop(s, n) == SubSeq(s, n + 1, Len(s))

(* The elements of s that are in T. *)
Select(s, T) ==
  LET sel[i \in 0 .. Len(s)] ==
        IF i = 0 THEN <<>> ELSE IF s[i] \in T THEN Append(sel[i - 1], s[i]) ELSE sel[i - 1]
  IN  sel[Len(s)]
Of(l)       == [i \in DOMAIN active_list_[l] |-> data[active_list_[l][i]]]

Init ==
  /\ op = "none" /\ lists = {} /\ threw = FALSE
  /\ active_list_ = [l \in Lists |-> <<>>] /\ p_pool_ = [l \in Lists |-> NoPool]
  /\ free_list_ = [p \in Pools |-> Elements(p)]
  /\ data = [e \in AllElements |-> Dead] /\ lost = {}

-------------------------------------------------------------------------------
(* insert(pos, value) for the values of vals in turn: k elements of free were
   taken before one threw. *)
Fresh(free, k)   == CHOOSE s \in [1 .. k -> free] : IsInjective(s)
Taken(free, n)   == 0 .. IF n < Cardinality(free) THEN n ELSE Cardinality(free)
Written(s, vals) == [e \in AllElements |-> IF Contains(s, e) THEN vals[CHOOSE i \in DOMAIN s : s[i] = e]
                                           ELSE data[e]]

Leaked(s)        == [e \in AllElements |-> IF Contains(s, e) THEN Unseen ELSE data[e]]

(* erase() for the elements of s. *)
Destructed(s) == [e \in AllElements |-> IF Contains(s, e) THEN Dead ELSE data[e]]

(* A constructor, from copies of vals. *)
ConstructFrom(l, p, vals) ==
  /\ l \notin lists
  /\ \E k \in Taken(free_list_[p], Len(vals)) :
      LET s == Fresh(free_list_[p], k)
      IN  /\ threw' = (k < Len(vals))
          /\ free_list_' = [free_list_ EXCEPT ![p] = @ \ ToSet(s)]
          /\ IF threw' THEN /\ data' = Leaked(s) /\ lost' = lost \cup ToSet(s)
                            /\ UNCHANGED <<lists, active_list_, p_pool_>>
             ELSE /\ data' = Written(s, vals)
                  /\ lists' = lists \cup {l}
                  /\ active_list_' = [active_list_ EXCEPT ![l] = s]
                  /\ p_pool_' = [p_pool_ EXCEPT ![l] = p]
                  /\ UNCHANGED lost

pooled_list(l, p, vals) == op' = "construct" /\ ConstructFrom(l, p, vals)
CopyConstruct(l, x)     == op' = "copy construct" /\ ConstructFrom(l, p_pool_[x], Of(x))

InsertBefore(l, i, vals) ==
  LET p == p_pool_[l]
  IN  \E k \in Taken(free_list_[p], Len(vals)) :
        LET s == Fresh(free_list_[p], k)
        IN  /\ threw' = (k < Len(vals))
            /\ data' = Written(s, vals)
            /\ free_list_' = [free_list_ EXCEPT ![p] = @ \ ToSet(s)]
            /\ active_list_' = [active_list_ EXCEPT ![l] = SubSeq(@, 1, i) \o s \o Drop(@, i)]
            /\ UNCHANGED <<lists, p_pool_, lost>>

(* insert(), push_back(), push_front() *)
insert(l, i, vals) == op' = "insert" /\ InsertBefore(l, i, vals)

(* The elements of l in gone are erased, the others stay. *)
EraseAll(l, gone, stay) ==
  /\ threw' = FALSE
  /\ data' = Destructed(gone)
  /\ free_list_' = [free_list_ EXCEPT ![p_pool_[l]] = @ \cup ToSet(gone)]
  /\ active_list_' = [active_list_ EXCEPT ![l] = stay]
  /\ UNCHANGED lost

EraseFrom(l, i, j) ==
  EraseAll(l, SubSeq(active_list_[l], i + 1, j), SubSeq(active_list_[l], 1, i) \o Drop(active_list_[l], j))

(* erase(), pop_back(), pop_front(), clear() *)
erase(l, i, j) == op' = "erase" /\ EraseFrom(l, i, j) /\ UNCHANGED <<lists, p_pool_>>

Destroy(l) ==
  /\ op' = "destroy"
  /\ EraseAll(l, active_list_[l], <<>>)
  /\ lists' = lists \ {l} /\ p_pool_' = [p_pool_ EXCEPT ![l] = NoPool]

(* clear() and then insert(). *)
assign(l, vals) ==
  LET p    == p_pool_[l]
      free == free_list_[p] \cup ToSet(active_list_[l])
  IN  /\ op' = "assign"
      /\ \E k \in Taken(free, Len(vals)) :
            LET s == Fresh(free, k)
            IN  /\ threw' = (k < Len(vals))
                /\ data' = [e \in AllElements |-> IF Contains(s, e) THEN Written(s, vals)[e]
                                                  ELSE Destructed(active_list_[l])[e]]
                /\ free_list_' = [free_list_ EXCEPT ![p] = free \ ToSet(s)]
                /\ active_list_' = [active_list_ EXCEPT ![l] = s]
      /\ UNCHANGED <<lists, p_pool_, lost>>

resize_Short(l, n, v) ==                    \* mutant: stops one too late
  LET len == Len(active_list_[l])
  IN  /\ op' = "resize"
      /\ IF n < len THEN EraseFrom(l, n + 1, len) /\ UNCHANGED <<lists, p_pool_>>
         ELSE InsertBefore(l, len, [i \in 1 .. n - len |-> v])
resize(l, n, v) ==
  LET len == Len(active_list_[l])
  IN  /\ op' = "resize"
      /\ IF n <= len THEN EraseFrom(l, n, len) /\ UNCHANGED <<lists, p_pool_>>
         ELSE InsertBefore(l, len, [i \in 1 .. n - len |-> v])

(* remove() and remove_if() of the values in S. *)
remove_if(l, S) ==
  LET gone == {e \in AllElements : data[e] \in S}
  IN  /\ op' = "remove_if"
      /\ EraseAll(l, Select(active_list_[l], gone), Select(active_list_[l], AllElements \ gone))
      /\ UNCHANGED <<lists, p_pool_>>

(* The loop of unique(): cur is the last element kept. *)
Kept(l) ==
  LET s == active_list_[l]
      kept[i \in 0 .. Len(s)] ==
        IF i = 0 THEN <<>>
        ELSE IF i > 1 /\ data[Last(kept[i - 1])] = data[s[i]] THEN kept[i - 1]
        ELSE Append(kept[i - 1], s[i])
  IN  kept[Len(s)]
unique(l) ==
  /\ op' = "unique"
  /\ EraseAll(l, Select(active_list_[l], AllElements \ ToSet(Kept(l))), Kept(l))
  /\ UNCHANGED <<lists, p_pool_>>

-------------------------------------------------------------------------------
(* Operations that move elements and make none. *)
Rearranged == threw' = FALSE /\ UNCHANGED <<lists, free_list_, data, lost>>

reverse(l) ==
  /\ op' = "reverse" /\ Rearranged
  /\ active_list_' = [active_list_ EXCEPT ![l] = Reverse(@)] /\ UNCHANGED p_pool_

(* std::list::sort() is stable: p[i] is where the i-th element was. *)
sort(l) ==
  LET s == active_list_[l]
  IN  /\ op' = "sort" /\ Rearranged
      /\ \E p \in Bijection(DOMAIN s, DOMAIN s) :
            /\ \A i, j \in DOMAIN s :
                 i < j => \/ data[s[p[i]]] < data[s[p[j]]]
                          \/ data[s[p[i]]] = data[s[p[j]]] /\ p[i] < p[j]
            /\ active_list_' = [active_list_ EXCEPT ![l] = [i \in DOMAIN s |-> s[p[i]]]]
      /\ UNCHANGED p_pool_

(* std::list::merge(): taken[k] of the first k elements are from t, of which one
   comes first only where it is less than the next of s. *)
Merged(s, t) ==
  LET n == Len(s) + Len(t)
      taken[k \in 0 .. n] ==
        IF k = 0 THEN 0
        ELSE LET j == taken[k - 1]
                 i == k - 1 - j
             IN  IF j < Len(t) /\ (i < Len(s) => data[t[j + 1]] < data[s[i + 1]]) THEN j + 1 ELSE j
  IN  [k \in 1 .. n |-> IF taken[k] = taken[k - 1] THEN s[k - taken[k]] ELSE t[taken[k]]]

(* merge() and splice() of lists of one pool; others abort. *)
merge(l, x) ==
  /\ op' = "merge" /\ p_pool_[l] = p_pool_[x] /\ Rearranged
  /\ active_list_' = IF l = x THEN active_list_
                     ELSE [active_list_ EXCEPT ![l] = Merged(@, active_list_[x]), ![x] = <<>>]
  /\ UNCHANGED p_pool_

splice(l, i, x) ==
  /\ op' = "splice" /\ l # x /\ p_pool_[l] = p_pool_[x] /\ Rearranged
  /\ active_list_' = [active_list_ EXCEPT ![l] = SubSeq(@, 1, i) \o active_list_[x] \o Drop(@, i),
                                          ![x] = <<>>]
  /\ UNCHANGED p_pool_

swap_ListsOnly(l, x) ==                     \* mutant: the pools are not swapped
  /\ op' = "swap" /\ Rearranged
  /\ active_list_' = [active_list_ EXCEPT ![l] = active_list_[x], ![x] = active_list_[l]]
  /\ UNCHANGED p_pool_
swap(l, x) ==
  /\ op' = "swap" /\ Rearranged
  /\ active_list_' = [active_list_ EXCEPT ![l] = active_list_[x], ![x] = active_list_[l]]
  /\ p_pool_' = [p_pool_ EXCEPT ![l] = p_pool_[x], ![x] = p_pool_[l]]

(* operator=: a copy of x is made, swapped with l and destroyed. *)
CopyFrom(l, x) ==
  LET p == p_pool_[x]
      n == Len(active_list_[x])
  IN  /\ op' = "operator="
      /\ \E k \in Taken(free_list_[p], n) :
           LET s    == Fresh(free_list_[p], k)
               rest == [free_list_ EXCEPT ![p] = @ \ ToSet(s)]
           IN  /\ threw' = (k < n)
               /\ IF k < n
                  THEN /\ data' = Leaked(s) /\ lost' = lost \cup ToSet(s)
                       /\ free_list_' = rest
                       /\ UNCHANGED <<active_list_, p_pool_>>
                  ELSE /\ data' = [e \in AllElements |->
                                     IF Contains(active_list_[l], e) THEN Dead ELSE Written(s, Of(x))[e]]
                       /\ free_list_' = [rest EXCEPT ![p_pool_[l]] = @ \cup ToSet(active_list_[l])]
                       /\ active_list_' = [active_list_ EXCEPT ![l] = s]
                       /\ p_pool_' = [p_pool_ EXCEPT ![l] = p]
                       /\ UNCHANGED lost
      /\ UNCHANGED lists

(* Elements of pool p that m copies of y and n of z hold. *)
Copies(m, y, n, z, p) ==
  LET size(l) == IF p_pool_[l] = p THEN Len(active_list_[l]) ELSE 0
  IN  m * size(y) + n * size(z)

(* The comparisons take their arguments by value, and all but == and < hand
   them on to another that does: depth pairs of copies are alive at once, and
   which of a pair is made first is the compiler's.  All are made and destroyed;
   or beside n pairs, and the other of its own (m = 1), that of y throws with k
   elements taken. *)
Compare(l, x, depth) ==
  LET Fit(m, y, n, z) == \A p \in Pools : Copies(m, y, n, z, p) <= Cardinality(free_list_[p])
  IN  /\ op' = "compare" /\ UNCHANGED <<lists, active_list_, p_pool_>>
      /\ \/ /\ Fit(depth, l, depth, x) /\ threw' = FALSE
            /\ UNCHANGED <<free_list_, data, lost>>
         \/ \E y, z \in {l, x}, n \in 0 .. depth - 1, m \in {0, 1} :
              LET p == p_pool_[y]
              IN  /\ {y, z} = {l, x} /\ Fit(n, y, n + m, z) /\ threw' = TRUE
                  /\ \E k \in 0 .. Len(active_list_[y]) - 1 :
                       LET gone == Fresh(free_list_[p], k)
                       IN  /\ Copies(n, y, n + m, z, p) + k <= Cardinality(free_list_[p])
                           /\ lost' = lost \cup ToSet(gone)
                           /\ data' = Leaked(gone)
                           /\ free_list_' = [free_list_ EXCEPT ![p] = @ \ ToSet(gone)]

-------------------------------------------------------------------------------
Places(l) == 0 .. Len(active_list_[l])

Next ==
  \/ \E l \in Lists, p \in Pools, vals \in Inputs : pooled_list(l, p, vals)
  \/ \E l \in Lists, x \in lists : CopyConstruct(l, x)
  \/ \E l \in lists :
        \/ Destroy(l)
        \/ \E i \in Places(l), vals \in Inputs : insert(l, i, vals)
        \/ \E i, j \in Places(l) : i <= j /\ erase(l, i, j)
        \/ \E vals \in Inputs : assign(l, vals)
        \/ \E n \in 0 .. MaxLen, v \in Values : resize(l, n, v)
        \/ \E S \in SUBSET Values : remove_if(l, S)
        \/ unique(l) \/ reverse(l) \/ sort(l)
  \/ \E l, x \in lists :
        \/ \E i \in Places(l) : splice(l, i, x)
        \/ merge(l, x) \/ swap(l, x) \/ CopyFrom(l, x)
        \/ \E depth \in 1 .. 3 : Compare(l, x, depth)

Spec == Init /\ [][Next]_vars

-------------------------------------------------------------------------------
(* What pool p would have left if copies that threw had given back what they took. *)
Owed(p) == free_list_[p] \cup (lost \cap Elements(p))

Abstract == INSTANCE ListSpec WITH
  value     <- [l \in Lists |-> Of(l)],
  pool      <- p_pool_,
  remaining <- [p \in Pools |-> Cardinality(Owed(p))]

(* Whatever moves elements about, the lists hold the values std::list would, and
   every call takes from its pool what it added and no more (all operations).
   The promise that a throwing constructor, operator= or comparison leaves the
   pool as it was is not kept: what it lost is counted as if it were still free,
   so that this says that nothing else goes missing. *)
ImplementsListSpec == Abstract!Spec

(* Every element is in one place: free in the pool it was made for, in one list
   that is attached to that pool, or lost; and a T is alive in it exactly when it
   is not free.  Lists of two pools may be swapped and assigned to one another. *)
ElementsConserved ==
  \A p \in Pools :
    LET attached == {l \in Lists : p_pool_[l] = p}
        where(e) == {<<"free", 0>> : f \in free_list_[p] \cap {e}}
                      \cup UNION {{<<l, i>> : i \in {j \in DOMAIN active_list_[l] : active_list_[l][j] = e}} :
                                    l \in attached}
    IN  \A e \in Elements(p) :
          /\ Cardinality(where(e)) = IF e \in lost THEN 0 ELSE 1
          /\ data[e] = Dead <=> e \in free_list_[p]

===============================================================================
