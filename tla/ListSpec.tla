------------------------------- MODULE ListSpec -------------------------------
(***************************************************************************)
(* What util/pooled_list promises: lists of values with the operations of  *)
(* std::list, and pools of which only the number of elements left can be   *)
(* observed.  An operation takes one element for each value it adds and    *)
(* may throw before it has added them all.  A constructor, operator= and a *)
(* comparison are strongly exception safe: where they throw they change    *)
(* nothing, the pool included, which a copy drains only for a time.        *)
(***************************************************************************)
EXTENDS Integers, Sequences, SequencesExt

CONSTANTS Lists, Pools, Values,
    MaxLen              \* bound: values given to one operation

VARIABLES
    op,                 \* the last call
    lists,              \* the lists that are constructed
    value,              \* list -> its values
    pool,               \* list -> the pool it is attached to
    remaining,          \* pool -> elements_remaining()
    threw               \* the last call ended in an exception

vars == <<op, lists, value, pool, remaining, threw>>

Inputs    == UNION {[1 .. n -> Values] : n \in 0 .. MaxLen}
Drop(s, n) == SubSeq(s, n + 1, Len(s))

(* The elements of s that are in T. *)
Select(s, T) ==
  LET sel[i \in 0 .. Len(s)] ==
        IF i = 0 THEN <<>> ELSE IF s[i] \in T THEN Append(sel[i - 1], s[i]) ELSE sel[i - 1]
  IN  sel[Len(s)]

-------------------------------------------------------------------------------
(* pool p has n elements fewer. *)
Takes(p, n) == remaining' = [remaining EXCEPT ![p] = @ - n]

(* l is now s, nothing else has changed, and its pool made up the difference. *)
Becomes(l, s) ==
  /\ value' = [value EXCEPT ![l] = s]
  /\ UNCHANGED <<lists, pool>>
  /\ Takes(pool[l], Len(s) - Len(value[l]))

(* The first of vals were added, and unless it threw that was all of them. *)
Added(vals, k) == k \in 0 .. Len(vals) /\ threw' = (k < Len(vals))

(* Where there was a value to copy, that threw and it is as if nothing was called. *)
Nothing(vals) == threw' /\ vals # <<>> /\ UNCHANGED <<lists, value, pool, remaining>>

Construct(l, p, vals) ==
  /\ l \notin lists
  /\ \/ Nothing(vals)
     \/ /\ ~threw' /\ Takes(p, Len(vals))
        /\ lists' = lists \cup {l}
        /\ value' = [value EXCEPT ![l] = vals] /\ pool' = [pool EXCEPT ![l] = p]

Destroy(l) ==
  /\ ~threw' /\ lists' = lists \ {l}
  /\ value' = [value EXCEPT ![l] = <<>>] /\ \A y \in lists \ {l} : pool'[y] = pool[y]
  /\ Takes(pool[l], -Len(value[l]))

Insert(l, i, vals) ==
  \E k \in 0 .. Len(vals) :
    Added(vals, k) /\ Becomes(l, SubSeq(value[l], 1, i) \o SubSeq(vals, 1, k) \o Drop(value[l], i))

Erase(l, i, j) == ~threw' /\ Becomes(l, SubSeq(value[l], 1, i) \o Drop(value[l], j))

(* The old values are gone even where the call throws. *)
Assign(l, vals) == \E k \in 0 .. Len(vals) : Added(vals, k) /\ Becomes(l, SubSeq(vals, 1, k))

Resize(l, n, v) ==
  IF n <= Len(value[l]) THEN Erase(l, n, Len(value[l]))
  ELSE Insert(l, Len(value[l]), [i \in 1 .. n - Len(value[l]) |-> v])

RemoveIf(l, S) == ~threw' /\ Becomes(l, Select(value[l], Values \ S))

(* The first of every run of equal values is kept. *)
Firsts(s) == Select([i \in DOMAIN s |-> i], {i \in DOMAIN s : i > 1 => s[i] # s[i - 1]})
Unique(l) == ~threw' /\ Becomes(l, [i \in DOMAIN Firsts(value[l]) |-> value[l][Firsts(value[l])[i]]])

Reversed(l) == ~threw' /\ Becomes(l, Reverse(value[l]))

(* t is s in another order. *)
IsPerm(s, t) == \E p \in Bijection(DOMAIN t, DOMAIN s) : \A i \in DOMAIN t : t[i] = s[p[i]]
Ascending(s) == \A i \in 1 .. Len(s) - 1 : s[i] <= s[i + 1]

Sort(l) == ~threw' /\ Ascending(value'[l]) /\ IsPerm(value[l], value'[l]) /\ Becomes(l, value'[l])

(* All of x moves to l. *)
Moves(l, x, s) ==
  /\ ~threw' /\ pool[l] = pool[x]
  /\ value' = [value EXCEPT ![l] = s, ![x] = <<>>]
  /\ UNCHANGED <<lists, pool, remaining>>

Splice(l, i, x) == Moves(l, x, SubSeq(value[l], 1, i) \o value[x] \o Drop(value[l], i))

(* Sorted lists stay sorted. *)
Merge(l, x) ==
  /\ IsPerm(value[l] \o value[x], value'[l])
  /\ Ascending(value[l]) /\ Ascending(value[x]) => Ascending(value'[l])
  /\ Moves(l, x, value'[l])

Swap(l, x) ==
  /\ ~threw' /\ UNCHANGED <<lists, remaining>>
  /\ value' = [value EXCEPT ![l] = value[x], ![x] = value[l]]
  /\ pool' = [pool EXCEPT ![l] = pool[x], ![x] = pool[l]]

(* l is as x and attached to its pool, and its own values are given back. *)
Copy(l, x) ==
  \/ Nothing(value[x])
  \/ /\ ~threw' /\ UNCHANGED lists
     /\ value' = [value EXCEPT ![l] = value[x]] /\ pool' = [pool EXCEPT ![l] = pool[x]]
     /\ remaining' = [[remaining EXCEPT ![pool[x]] = @ - Len(value[x])]
                        EXCEPT ![pool[l]] = @ + Len(value[l])]

(* Copies of both are compared and destroyed. *)
Compare(l, x) ==
  /\ threw' => value[l] # <<>> \/ value[x] # <<>>
  /\ UNCHANGED <<lists, value, pool, remaining>>

-------------------------------------------------------------------------------
Places(l) == 0 .. Len(value[l])

Init ==
  /\ op = "none" /\ lists = {} /\ value = [l \in Lists |-> <<>>] /\ pool \in [Lists -> Pools]
  /\ remaining \in [Pools -> Nat] /\ threw = FALSE

Next ==
  \/ \E l \in Lists, p \in Pools, vals \in Inputs :
        op' = "construct" /\ Construct(l, p, vals)
  \/ \E l \in Lists, x \in lists :
        op' = "copy construct" /\ Construct(l, pool[x], value[x])
  \/ \E l \in lists :
        \/ op' = "destroy" /\ Destroy(l)
        \/ \E i \in Places(l), vals \in Inputs : op' = "insert" /\ Insert(l, i, vals)
        \/ \E i, j \in Places(l) : op' = "erase" /\ Erase(l, i, j)
        \/ \E vals \in Inputs : op' = "assign" /\ Assign(l, vals)
        \/ \E n \in 0 .. MaxLen, v \in Values : op' = "resize" /\ Resize(l, n, v)
        \/ \E S \in SUBSET Values : op' = "remove_if" /\ RemoveIf(l, S)
        \/ op' = "unique" /\ Unique(l)
        \/ op' = "reverse" /\ Reversed(l)
        \/ op' = "sort" /\ Sort(l)
  \/ \E l, x \in lists :
        \/ \E i \in Places(l) : op' = "splice" /\ Splice(l, i, x)
        \/ op' = "merge" /\ IF l = x THEN ~threw' /\ UNCHANGED <<lists, value, pool, remaining>>
                                               ELSE Merge(l, x)
        \/ op' = "swap" /\ Swap(l, x)
        \/ op' = "operator=" /\ Copy(l, x)
        \/ op' = "compare" /\ Compare(l, x)

Spec == Init /\ [][Next]_vars

===============================================================================
