--------------------------- MODULE PooledListProofs ---------------------------
(***************************************************************************)
(* No operation of pooled_list loses, shares or constructs twice an        *)
(* element, and the lists hold the values std::list would, for every       *)
(* number of lists, pools and elements.                                    *)
(*                                                                         *)
(* The inductive invariant is ListInv: where the elements are (HomeInv,    *)
(* ApartInv, OnceInv, CoverInv), and in which of them a T is alive         *)
(* (AliveInv).  Every operation exchanges elements between one list and    *)
(* the free elements of its pool (ListStep), loses some of those           *)
(* (LeakStep) or permutes what the lists hold (ExchangeStep).  The         *)
(* refinement takes each of them to the abstract operation of its name.    *)
(***************************************************************************)
EXTENDS PooledList, TLAPS, SequenceTheorems, FiniteSetTheorems, NaturalsInduction, WellFoundedInduction

-------------------------------------------------------------------------------
(* Induction, with a set for the property. *)
LEMMA SetInduction ==
  ASSUME NEW P, 0 \in P, \A k \in Nat : k \in P => k + 1 \in P
  PROVE  \A k \in Nat : k \in P
  <1> DEFINE R == {ij \in Nat \X Nat : ij[1] < ij[2]}
             Q == Nat \ P
  <1>1. IsWellFoundedOn(R, Nat)
    BY NatLessThanWellFounded DEF OpToRel
  <1>2. SUFFICES ASSUME Q # {} PROVE FALSE
    OBVIOUS
  <1>3. \E n \in Q : \A m \in Q : ~(<<m, n>> \in R)
    BY <1>1, <1>2, WFMin
  <1>4. \A m, n \in Nat : m < n => <<m, n>> \in R
    OBVIOUS
  <1> HIDE DEF R
  <1>5. PICK n \in Q : \A m \in Q : ~(m < n)
    BY <1>3, <1>4
  <1>6. n # 0 /\ n - 1 \in Nat /\ n - 1 < n /\ (n - 1) + 1 = n
    BY <1>5
  <1> QED BY <1>5, <1>6

(* f begins with base and follows step up to n. *)
Follows(f, n, base, step) == f[0] = base /\ \A k \in 1 .. n : f[k] = step[<<k, f[k - 1]>>]

(* A recursive definition over 0 .. n has a solution. *)
LEMMA Recursion ==
  ASSUME NEW S, NEW base \in S, NEW step \in [Nat \X S -> S]
  PROVE  \A n \in Nat : \E f \in [0 .. n -> S] : Follows(f, n, base, step)
  <1> DEFINE P == {n \in Nat : \E f \in [0 .. n -> S] : Follows(f, n, base, step)}
  <1>1. 0 \in P
    <2>1. [k \in 0 .. 0 |-> base] \in [0 .. 0 -> S] /\ Follows([k \in 0 .. 0 |-> base], 0, base, step)
      BY DEF Follows
    <2> QED BY <2>1
  <1>2. ASSUME NEW n \in Nat, n \in P PROVE n + 1 \in P
    <2>1. PICK f \in [0 .. n -> S] : Follows(f, n, base, step)
      BY <1>2
    <2> DEFINE g == [k \in 0 .. n + 1 |-> IF k <= n THEN f[k] ELSE step[<<n + 1, f[n]>>]]
    <2>2. f[n] \in S
      BY <2>1
    <2>3. step[<<n + 1, f[n]>>] \in S
      BY <2>2
    <2>4. g \in [0 .. n + 1 -> S]
      BY <2>3
    <2>5. \A k \in 0 .. n : g[k] = f[k]
      OBVIOUS
    <2>6. g[n + 1] = step[<<n + 1, f[n]>>]
      OBVIOUS
    <2> HIDE DEF g
    <2>7. \A k \in 1 .. n : g[k] = step[<<k, g[k - 1]>>]
      BY <2>1, <2>5 DEF Follows
    <2>8. g[n + 1] = step[<<n + 1, g[(n + 1) - 1]>>]
      <3>1. (n + 1) - 1 = n /\ n \in 0 .. n
        OBVIOUS
      <3> QED BY <2>5, <2>6, <3>1, Zenon
    <2>9. Follows(g, n + 1, base, step)
      <3>1. \A k \in 1 .. n + 1 : k \in 1 .. n \/ k = n + 1
        OBVIOUS
      <3>2. g[0] = base
        BY <2>1, <2>5 DEF Follows
      <3> QED BY <2>7, <2>8, <3>1, <3>2, Zenon DEF Follows
    <2> QED BY <2>4, <2>9
  <1> HIDE DEF P
  <1>3. \A n \in Nat : n \in P
    BY <1>1, <1>2, SetInduction
  <1> QED BY <1>3 DEF P

FollowsIn(S, f, n, base, step) ==
  f[0] = base /\ \A k \in 1 .. n : f[k - 1] \in S => f[k] = step[<<k, f[k - 1]>>]

(* A function that follows a rule from values of S to values of S stays in S. *)
LEMMA RecursiveType ==
  ASSUME NEW S, NEW base \in S, NEW step \in [Nat \X S -> S], NEW n \in Nat,
         NEW f, f = [k \in 0 .. n |-> f[k]], FollowsIn(S, f, n, base, step)
  PROVE  f \in [0 .. n -> S]
  <1> DEFINE P == {k \in Nat : k <= n => f[k] \in S}
  <1>1. 0 \in P
    BY DEF FollowsIn
  <1>2. ASSUME NEW k \in Nat, k \in P PROVE k + 1 \in P
    <2>1. SUFFICES ASSUME k + 1 <= n PROVE f[k + 1] \in S
      OBVIOUS
    <2>2. k <= n /\ k + 1 \in 1 .. n /\ (k + 1) - 1 = k
      BY <2>1
    <2>3. f[k] \in S
      BY <1>2, <2>2
    <2>4. f[k + 1] = step[<<k + 1, f[k]>>]
      BY <2>2, <2>3 DEF FollowsIn
    <2>5. <<k + 1, f[k]>> \in Nat \X S
      BY <2>3
    <2> QED BY <2>4, <2>5
  <1> HIDE DEF P
  <1>3. \A k \in Nat : k \in P
    BY <1>1, <1>2, SetInduction
  <1>4. \A k \in 0 .. n : f[k] \in S
    BY <1>3 DEF P
  <1> QED BY <1>4

-------------------------------------------------------------------------------
(* Select(s, T) *)

SelectStep(X, s, T) ==
  [iq \in Nat \X Seq(X) |->
     IF iq[1] \in 1 .. Len(s) /\ s[iq[1]] \in T THEN Append(iq[2], s[iq[1]]) ELSE iq[2]]

(* The loop of Select, as a function of the number of elements looked at. *)
IsSelectLoop(f, s, T) ==
  /\ f[0] = <<>> /\ Select(s, T) = f[Len(s)]
  /\ \A k \in 1 .. Len(s) : f[k] = IF s[k] \in T THEN Append(f[k - 1], s[k]) ELSE f[k - 1]

LEMMA SelectLoop ==
  ASSUME NEW X, NEW s \in Seq(X), NEW T
  PROVE  \E f \in [0 .. Len(s) -> Seq(X)] : IsSelectLoop(f, s, T)
  <1> DEFINE n == Len(s)
             Eqn(g) == [i \in 0 .. n |-> IF i = 0 THEN <<>>
                          ELSE IF s[i] \in T THEN Append(g[i - 1], s[i]) ELSE g[i - 1]]
             f == CHOOSE g : g = Eqn(g)
             step == SelectStep(X, s, T)
  <1>n. n \in Nat /\ \A k \in 1 .. n : s[k] \in X
    OBVIOUS
  <1>1. step \in [Nat \X Seq(X) -> Seq(X)]
    <2>1. \A k \in Nat, q \in Seq(X) : k \in 1 .. n => Append(q, s[k]) \in Seq(X)
      BY <1>n
    <2> QED BY <2>1 DEF SelectStep
  <1>2. \A k \in 1 .. n, q \in Seq(X) : step[<<k, q>>] = IF s[k] \in T THEN Append(q, s[k]) ELSE q
    BY <1>n DEF SelectStep
  <1> HIDE DEF step, n
  <1>3. PICK g \in [0 .. n -> Seq(X)] : g[0] = <<>> /\ \A k \in 1 .. n : g[k] = step[<<k, g[k - 1]>>]
    <2>1. <<>> \in Seq(X)
      OBVIOUS
    <2> DEFINE Q == Seq(X)
               b == <<>>
    <2>2. b \in Q /\ step \in [Nat \X Q -> Q]
      BY <1>1, <2>1
    <2> HIDE DEF Q, b
    <2>3. \E g \in [0 .. n -> Q] : Follows(g, n, b, step)
      BY <1>n, <2>2, Recursion, Zenon
    <2> QED BY <2>3 DEF Q, b, Follows
  <1>4. \A k \in 1 .. n : k - 1 \in 0 .. n /\ k # 0 /\ k \in 0 .. n
    BY <1>n
  <1>5. \A k \in 1 .. n : g[k] = IF s[k] \in T THEN Append(g[k - 1], s[k]) ELSE g[k - 1]
    BY <1>2, <1>3, <1>4
  <1>6. \A k \in 0 .. n : k # 0 => k \in 1 .. n
    BY <1>n
  <1>7. g = Eqn(g)
    BY <1>3, <1>5, <1>6
  <1>8. f = Eqn(f)
    BY <1>7, Zenon
  <1>9. Select(s, T) = f[n]
    BY Zenon DEF Select, n
  <1> HIDE DEF f
  <1>10. f[0] = <<>> /\ \A k \in 1 .. n : f[k] = IF s[k] \in T THEN Append(f[k - 1], s[k]) ELSE f[k - 1]
    <2>1. 0 \in 0 .. n
      BY <1>n
    <2>2. f[0] = Eqn(f)[0] /\ \A k \in 1 .. n : f[k] = Eqn(f)[k]
      BY <1>8, Zenon
    <2>3. Eqn(f)[0] = <<>>
      BY <2>1
    <2>4. \A k \in 1 .. n : Eqn(f)[k] = IF s[k] \in T THEN Append(f[k - 1], s[k]) ELSE f[k - 1]
      BY <1>4
    <2> HIDE DEF Eqn
    <2> QED BY <2>2, <2>3, <2>4, Zenon
  <1>11. f = [k \in 0 .. n |-> f[k]]
    BY <1>8
  <1>12. f \in [0 .. n -> Seq(X)]
    <2>1. \A k \in 1 .. n : f[k - 1] \in Seq(X) => f[k] = step[<<k, f[k - 1]>>]
      BY <1>2, <1>10
    <2>2. <<>> \in Seq(X)
      OBVIOUS
    <2> HIDE DEF Eqn
    <2> DEFINE Q == Seq(X)
               b == <<>>
    <2>3. /\ n \in Nat /\ b \in Q /\ step \in [Nat \X Q -> Q]
          /\ FollowsIn(Q, f, n, b, step)
      BY <1>n, <1>1, <1>10, <2>1, <2>2 DEF FollowsIn
    <2> HIDE DEF Q, b
    <2>4. f \in [0 .. n -> Q]
      BY <1>11, <2>3, RecursiveType, Zenon
    <2> QED BY <2>4 DEF Q
  <1> QED BY <1>9, <1>10, <1>12 DEF n, IsSelectLoop

-------------------------------------------------------------------------------
(* Kept(l) *)

KeptStep(X, s, d) ==
  [iq \in Nat \X Seq(X) |->
     IF iq[1] \in 1 .. Len(s)
     THEN IF iq[1] > 1 /\ d[Last(iq[2])] = d[s[iq[1]]] THEN iq[2] ELSE Append(iq[2], s[iq[1]])
     ELSE iq[2]]

(* The loop of unique(), as a function of the number of elements looked at. *)
LEMMA KeptLoop ==
  ASSUME NEW X, NEW l, active_list_[l] \in Seq(X)
  PROVE  LET s == active_list_[l] IN
         \E f \in [0 .. Len(s) -> Seq(X)] :
            /\ f[0] = <<>> /\ Kept(l) = f[Len(s)]
            /\ \A k \in 1 .. Len(s) :
                 f[k] = IF k > 1 /\ data[Last(f[k - 1])] = data[s[k]] THEN f[k - 1]
                        ELSE Append(f[k - 1], s[k])
  <1> DEFINE s == active_list_[l]
             n == Len(s)
             Eqn(g) == [i \in 0 .. n |-> IF i = 0 THEN <<>>
                          ELSE IF i > 1 /\ data[Last(g[i - 1])] = data[s[i]] THEN g[i - 1]
                          ELSE Append(g[i - 1], s[i])]
             f == CHOOSE g : g = Eqn(g)
             step == KeptStep(X, s, data)
  <1>0. Kept(l) = f[n]
    BY Zenon DEF Kept
  <1>s. s \in Seq(X)
    OBVIOUS
  <1> HIDE DEF s
  <1>n. n \in Nat /\ \A k \in 1 .. n : s[k] \in X
    BY <1>s
  <1>1. step \in [Nat \X Seq(X) -> Seq(X)]
    <2>1. \A k \in Nat, q \in Seq(X) : k \in 1 .. n => Append(q, s[k]) \in Seq(X)
      BY <1>n
    <2> QED BY <2>1 DEF KeptStep
  <1>2. \A k \in 1 .. n, q \in Seq(X) :
          step[<<k, q>>] = IF k > 1 /\ data[Last(q)] = data[s[k]] THEN q ELSE Append(q, s[k])
    BY <1>n DEF KeptStep
  <1> HIDE DEF step, n
  <1>3. PICK g \in [0 .. n -> Seq(X)] : g[0] = <<>> /\ \A k \in 1 .. n : g[k] = step[<<k, g[k - 1]>>]
    <2> DEFINE Q == Seq(X)
               b == <<>>
    <2>2. b \in Q /\ step \in [Nat \X Q -> Q]
      BY <1>1
    <2> HIDE DEF Q, b
    <2>3. \E g \in [0 .. n -> Q] : Follows(g, n, b, step)
      BY <1>n, <2>2, Recursion, Zenon
    <2> QED BY <2>3 DEF Q, b, Follows
  <1>4. \A k \in 1 .. n : k - 1 \in 0 .. n /\ k # 0 /\ k \in 0 .. n
    BY <1>n
  <1>5. \A k \in 1 .. n :
          g[k] = IF k > 1 /\ data[Last(g[k - 1])] = data[s[k]] THEN g[k - 1] ELSE Append(g[k - 1], s[k])
    BY <1>2, <1>3, <1>4
  <1>6. \A k \in 0 .. n : k # 0 => k \in 1 .. n
    BY <1>n
  <1>7. g = Eqn(g)
    BY <1>3, <1>5, <1>6
  <1>8. f = Eqn(f)
    BY <1>7, Zenon
  <1> HIDE DEF f
  <1>10. /\ f[0] = <<>>
         /\ \A k \in 1 .. n :
              f[k] = IF k > 1 /\ data[Last(f[k - 1])] = data[s[k]] THEN f[k - 1] ELSE Append(f[k - 1], s[k])
    <2>1. 0 \in 0 .. n
      BY <1>n
    <2>2. f[0] = Eqn(f)[0] /\ \A k \in 1 .. n : f[k] = Eqn(f)[k]
      BY <1>8, Zenon
    <2>3. Eqn(f)[0] = <<>>
      BY <2>1
    <2>4. \A k \in 1 .. n :
             Eqn(f)[k] = IF k > 1 /\ data[Last(f[k - 1])] = data[s[k]] THEN f[k - 1] ELSE Append(f[k - 1], s[k])
      BY <1>4
    <2> HIDE DEF Eqn
    <2> QED BY <2>2, <2>3, <2>4, Zenon
  <1>11. f = [k \in 0 .. n |-> f[k]]
    BY <1>8
  <1>12. f \in [0 .. n -> Seq(X)]
    <2>1. \A k \in 1 .. n : f[k - 1] \in Seq(X) => f[k] = step[<<k, f[k - 1]>>]
      BY <1>2, <1>10
    <2> HIDE DEF Eqn
    <2> DEFINE Q == Seq(X)
               b == <<>>
    <2>3. /\ n \in Nat /\ b \in Q /\ step \in [Nat \X Q -> Q]
          /\ FollowsIn(Q, f, n, b, step)
      BY <1>n, <1>1, <1>10, <2>1 DEF FollowsIn
    <2> HIDE DEF Q, b
    <2>4. f \in [0 .. n -> Q]
      BY <1>11, <2>3, RecursiveType, Zenon
    <2> QED BY <2>4 DEF Q
  <1> QED BY <1>0, <1>10, <1>12 DEF n, s

-------------------------------------------------------------------------------
(* Merged(s, t) *)

TakesSecond(s, t, d, k, j) ==
  j < Len(t) /\ (k - 1 - j < Len(s) => d[t[j + 1]] < d[s[k - 1 - j + 1]])

MergeStep(s, t, d) ==
  [kj \in Nat \X Nat |-> IF TakesSecond(s, t, d, kj[1], kj[2]) THEN kj[2] + 1 ELSE kj[2]]

(* The loop of std::list::merge(): how many were taken from t. *)
FollowsMerge(f, s, t) ==
  /\ f[0] = 0
  /\ Merged(s, t) = [k \in 1 .. Len(s) + Len(t) |-> IF f[k] = f[k - 1] THEN s[k - f[k]] ELSE t[f[k]]]
  /\ \A k \in 1 .. Len(s) + Len(t) :
       f[k] = IF TakesSecond(s, t, data, k, f[k - 1]) THEN f[k - 1] + 1 ELSE f[k - 1]

LEMMA MergeLoop ==
  ASSUME NEW X, NEW s \in Seq(X), NEW t \in Seq(X)
  PROVE  \E f \in [0 .. Len(s) + Len(t) -> Nat] : FollowsMerge(f, s, t)
  <1> DEFINE n == Len(s) + Len(t)
             Eqn(g) == [k \in 0 .. n |-> IF k = 0 THEN 0
                          ELSE IF TakesSecond(s, t, data, k, g[k - 1]) THEN g[k - 1] + 1 ELSE g[k - 1]]
             f == CHOOSE g : g = Eqn(g)
             step == MergeStep(s, t, data)
  <1>0. Merged(s, t) = [k \in 1 .. n |-> IF f[k] = f[k - 1] THEN s[k - f[k]] ELSE t[f[k]]]
    BY Zenon DEF Merged, TakesSecond
  <1>n. n \in Nat
    OBVIOUS
  <1>1. step \in [Nat \X Nat -> Nat]
    BY DEF MergeStep
  <1>2. \A k \in 1 .. n, j \in Nat :
          step[<<k, j>>] = IF TakesSecond(s, t, data, k, j) THEN j + 1 ELSE j
    BY <1>n DEF MergeStep
  <1> HIDE DEF step, n
  <1>3. PICK g \in [0 .. n -> Nat] : g[0] = 0 /\ \A k \in 1 .. n : g[k] = step[<<k, g[k - 1]>>]
    <2> DEFINE Q == Nat
               b == 0
    <2>2. b \in Q /\ step \in [Nat \X Q -> Q]
      BY <1>1
    <2> HIDE DEF Q, b
    <2>3. \E g \in [0 .. n -> Q] : Follows(g, n, b, step)
      BY <1>n, <2>2, Recursion, Zenon
    <2> QED BY <2>3 DEF Q, b, Follows
  <1>4. \A k \in 1 .. n : k - 1 \in 0 .. n /\ k # 0 /\ k \in 0 .. n
    BY <1>n
  <1>5. \A k \in 1 .. n :
          g[k] = IF TakesSecond(s, t, data, k, g[k - 1]) THEN g[k - 1] + 1 ELSE g[k - 1]
    BY <1>2, <1>3, <1>4
  <1>6. \A k \in 0 .. n : k # 0 => k \in 1 .. n
    BY <1>n
  <1>7. g = Eqn(g)
    BY <1>3, <1>5, <1>6
  <1>8. f = Eqn(f)
    BY <1>7, Zenon
  <1> HIDE DEF f
  <1>10. /\ f[0] = 0
         /\ \A k \in 1 .. n :
              f[k] = IF TakesSecond(s, t, data, k, f[k - 1]) THEN f[k - 1] + 1 ELSE f[k - 1]
    <2>1. 0 \in 0 .. n
      BY <1>n
    <2>2. f[0] = Eqn(f)[0] /\ \A k \in 1 .. n : f[k] = Eqn(f)[k]
      BY <1>8, Zenon
    <2>3. Eqn(f)[0] = 0
      BY <2>1
    <2>4. \A k \in 1 .. n :
             Eqn(f)[k] = IF TakesSecond(s, t, data, k, f[k - 1]) THEN f[k - 1] + 1 ELSE f[k - 1]
      BY <1>4
    <2> HIDE DEF Eqn
    <2> QED BY <2>2, <2>3, <2>4, Zenon
  <1>11. f = [k \in 0 .. n |-> f[k]]
    BY <1>8
  <1>12. f \in [0 .. n -> Nat]
    <2>1. \A k \in 1 .. n : f[k - 1] \in Nat => f[k] = step[<<k, f[k - 1]>>]
      BY <1>2, <1>10
    <2> HIDE DEF Eqn
    <2> DEFINE Q == Nat
               b == 0
    <2>3. /\ n \in Nat /\ b \in Q /\ step \in [Nat \X Q -> Q]
          /\ FollowsIn(Q, f, n, b, step)
      BY <1>n, <1>1, <1>10, <2>1 DEF FollowsIn
    <2> HIDE DEF Q, b
    <2>4. f \in [0 .. n -> Q]
      BY <1>11, <2>3, RecursiveType, Zenon
    <2> QED BY <2>4 DEF Q
  <1> QED BY <1>0, <1>10, <1>12 DEF n, FollowsMerge

-------------------------------------------------------------------------------
(* Sequences without repetition. *)

LEMMA InToSet ==
  ASSUME NEW X, NEW s \in Seq(X)
  PROVE  /\ ToSet(s) \subseteq X
         /\ \A i \in 1 .. Len(s) : s[i] \in ToSet(s)
         /\ \A e : e \in ToSet(s) <=> \E i \in 1 .. Len(s) : s[i] = e
         /\ \A e : Contains(s, e) <=> e \in ToSet(s)
  BY DEF ToSet, Contains

LEMMA Injective ==
  ASSUME NEW X, NEW s \in Seq(X)
  PROVE  IsInjective(s) <=> \A i, j \in 1 .. Len(s) : s[i] = s[j] => i = j
  BY DEF IsInjective

(* As many elements as positions. *)
LEMMA InjectiveCardinality ==
  ASSUME NEW X, NEW s \in Seq(X), IsInjective(s)
  PROVE  IsFiniteSet(ToSet(s)) /\ Cardinality(ToSet(s)) = Len(s)
  <1>1. s \in [1 .. Len(s) -> ToSet(s)]
    BY DEF ToSet
  <1>2. s \in Bijection(1 .. Len(s), ToSet(s))
    BY <1>1 DEF Bijection, Injection, Surjection, ToSet, IsInjective
  <1>3. Len(s) \in Nat /\ ExistsBijection(1 .. Len(s), ToSet(s))
    BY <1>2 DEF ExistsBijection
  <1> QED BY <1>3, FS_CountingElements, FS_NatBijection

LEMMA AppendNew ==
  ASSUME NEW X, NEW q \in Seq(X), NEW e \in X
  PROVE  /\ Append(q, e) \in Seq(X)
         /\ ToSet(Append(q, e)) = ToSet(q) \cup {e}
         /\ IsInjective(q) /\ e \notin ToSet(q) => IsInjective(Append(q, e))
  <1> DEFINE a == Append(q, e)
             n == Len(q)
  <1>1. /\ n \in Nat /\ a \in Seq(X) /\ Len(a) = n + 1
        /\ a[n + 1] = e /\ \A i \in 1 .. n : a[i] = q[i]
    BY AppendProperties
  <1>2. \A i \in 1 .. n + 1 : i \in 1 .. n \/ i = n + 1
    BY <1>1
  <1>3. \A i \in 1 .. n : i \in 1 .. n + 1
    BY <1>1
  <1>4. n + 1 \in 1 .. n + 1
    BY <1>1
  <1> HIDE DEF a
  <1>5. \A d : d \in ToSet(a) <=> \E i \in 1 .. n + 1 : a[i] = d
    BY <1>1, InToSet
  <1>6. \A d : d \in ToSet(q) <=> \E i \in 1 .. n : q[i] = d
    BY InToSet
  <1>7. ToSet(a) = ToSet(q) \cup {e}
    <2>1. \A d : d \in ToSet(a) <=> d \in ToSet(q) \/ d = e
      BY <1>1, <1>2, <1>3, <1>4, <1>5, <1>6
    <2> QED BY <2>1
  <1>8. ASSUME IsInjective(q), e \notin ToSet(q) PROVE IsInjective(a)
    <2>1. \A i, j \in 1 .. n : q[i] = q[j] => i = j
      BY <1>8, Injective
    <2>2. \A i, j \in 1 .. n + 1 : a[i] = a[j] => i = j
      BY <1>1, <1>2, <1>6, <1>8, <2>1
    <2> QED BY <1>1, <2>2, Injective
  <1> QED BY <1>1, <1>7, <1>8 DEF a

(* One after the other. *)
Joins(r, X, s, t) ==
  /\ r \in Seq(X) /\ Len(r) = Len(s) + Len(t) /\ ToSet(r) = ToSet(s) \cup ToSet(t)
  /\ IsInjective(s) /\ IsInjective(t) /\ ToSet(s) \cap ToSet(t) = {} => IsInjective(r)

LEMMA ConcatSets ==
  ASSUME NEW X, NEW s \in Seq(X), NEW t \in Seq(X)
  PROVE  Joins(s \o t, X, s, t)
  <1> DEFINE m == Len(s)
             n == Len(t)
             c == s \o t
  <1>1. /\ m \in Nat /\ n \in Nat /\ c \in Seq(X) /\ Len(c) = m + n
        /\ \A i \in 1 .. m + n : c[i] = IF i <= m THEN s[i] ELSE t[i - m]
    BY ConcatProperties
  <1> HIDE DEF m, n, c
  <1>2. \A i \in 1 .. m : i \in 1 .. m + n /\ c[i] = s[i]
    BY <1>1
  <1>3. \A i \in 1 .. n : i + m \in 1 .. m + n /\ c[i + m] = t[i]
    <2>1. \A i \in 1 .. n : i + m \in 1 .. m + n /\ ~(i + m <= m) /\ (i + m) - m = i
      BY <1>1
    <2> QED BY <1>1, <2>1
  <1>4. \A i \in 1 .. m + n : \/ i \in 1 .. m /\ c[i] = s[i]
                              \/ i - m \in 1 .. n /\ c[i] = t[i - m]
    BY <1>1
  <1>5. \A e : /\ e \in ToSet(s) <=> \E i \in 1 .. m : s[i] = e
               /\ e \in ToSet(t) <=> \E i \in 1 .. n : t[i] = e
               /\ e \in ToSet(c) <=> \E i \in 1 .. m + n : c[i] = e
    BY <1>1, InToSet DEF m, n
  <1>6. ToSet(c) = ToSet(s) \cup ToSet(t)
    <2>1. ASSUME NEW e \in ToSet(c) PROVE e \in ToSet(s) \cup ToSet(t)
      BY <1>4, <1>5
    <2>2. ASSUME NEW e \in ToSet(s) \cup ToSet(t) PROVE e \in ToSet(c)
      BY <1>2, <1>3, <1>5
    <2> QED BY <2>1, <2>2
  <1>7. ASSUME IsInjective(s), IsInjective(t), ToSet(s) \cap ToSet(t) = {} PROVE IsInjective(c)
    <2>1. /\ \A i, j \in 1 .. m : s[i] = s[j] => i = j
          /\ \A i, j \in 1 .. n : t[i] = t[j] => i = j
      BY <1>7, Injective DEF m, n
    <2>2. \A i \in 1 .. m, j \in 1 .. n : s[i] # t[j]
      BY <1>5, <1>7
    <2>3. ASSUME NEW i \in 1 .. m + n, NEW j \in 1 .. m + n, c[i] = c[j] PROVE i = j
      <3>1. \A k \in 1 .. m + n : k \in Int /\ m \in Int
        BY <1>1
      <3>2. i - m = j - m => i = j
        BY <3>1
      <3> QED BY <1>4, <2>1, <2>2, <2>3, <3>2
    <2> QED BY <1>1, <2>3, Injective
  <1> QED BY <1>1, <1>6, <1>7 DEF c, m, n, Joins

(* r is s from the element after the i-th to the j-th. *)
IsPart(r, X, s, i, j) ==
  /\ r \in Seq(X) /\ Len(r) = j - i
  /\ \A k \in 1 .. j - i : r[k] = s[i + k]
  /\ \A e : e \in ToSet(r) <=> \E k \in i + 1 .. j : s[k] = e
  /\ IsInjective(s) => IsInjective(r)

LEMMA SubSeqSet ==
  ASSUME NEW X, NEW s \in Seq(X), NEW i \in Nat, NEW j \in Nat, i <= j, j <= Len(s)
  PROVE  IsPart(SubSeq(s, i + 1, j), X, s, i, j)
  <1> DEFINE r == SubSeq(s, i + 1, j)
             n == j - i
  <1>1. n \in Nat /\ \A k \in i + 1 .. j : s[k] \in X /\ k \in 1 .. Len(s)
    OBVIOUS
  <1>2. /\ r \in Seq(X) /\ Len(r) = IF i + 1 <= j THEN j - (i + 1) + 1 ELSE 0
        /\ \A k \in 1 .. j - (i + 1) + 1 : r[k] = s[i + 1 + k - 1]
    <2>1. i + 1 \in Int /\ j \in Int /\ \A k \in i + 1 .. j : s[k] \in X
      BY <1>1
    <2> QED BY <2>1, SubSeqProperties
  <1>3. Len(r) = n
    BY <1>2
  <1>4. \A k \in 1 .. n : k \in 1 .. j - (i + 1) + 1 /\ i + 1 + k - 1 = i + k
    BY <1>1
  <1>5. \A k \in 1 .. n : r[k] = s[i + k]
    BY <1>2, <1>4
  <1> HIDE DEF r, n
  <1>6. \A k \in 1 .. n : i + k \in i + 1 .. j
    BY <1>1 DEF n
  <1>7. \A k \in i + 1 .. j : k - i \in 1 .. n /\ i + (k - i) = k
    BY <1>1 DEF n
  <1>8. \A e : e \in ToSet(r) <=> \E k \in 1 .. n : r[k] = e
    BY <1>2, <1>3, InToSet
  <1>9. ASSUME NEW e PROVE e \in ToSet(r) <=> \E k \in i + 1 .. j : s[k] = e
    <2>1. ASSUME e \in ToSet(r) PROVE \E k \in i + 1 .. j : s[k] = e
      BY <2>1, <1>5, <1>6, <1>8
    <2>2. ASSUME NEW k \in i + 1 .. j, s[k] = e PROVE e \in ToSet(r)
      <3>1. k - i \in 1 .. n /\ r[k - i] = e
        BY <1>5, <1>7, <2>2
      <3> QED BY <1>8, <3>1
    <2> QED BY <2>1, <2>2
  <1>10. ASSUME IsInjective(s) PROVE IsInjective(r)
    <2>1. \A a, b \in 1 .. Len(s) : s[a] = s[b] => a = b
      BY <1>10, Injective
    <2>2. \A a, b \in 1 .. n : i + a = i + b => a = b
      BY <1>1 DEF n
    <2>3. \A a, b \in 1 .. n : r[a] = r[b] => a = b
      BY <1>1, <1>5, <1>6, <2>1, <2>2
    <2> QED BY <1>2, <1>3, <2>3, Injective
  <1> QED BY <1>2, <1>3, <1>5, <1>9, <1>10 DEF r, n, IsPart

(* A sequence is its three parts. *)
LEMMA CutInThree ==
  ASSUME NEW X, NEW s \in Seq(X), NEW i \in Nat, NEW j \in Nat, i <= j, j <= Len(s)
  PROVE  LET a == SubSeq(s, 1, i)
             b == SubSeq(s, i + 1, j)
             c == Drop(s, j)
         IN  /\ a \in Seq(X) /\ b \in Seq(X) /\ c \in Seq(X)
             /\ Len(a) = i /\ Len(b) = j - i /\ Len(c) = Len(s) - j
             /\ ToSet(s) = ToSet(a) \cup ToSet(b) \cup ToSet(c)
             /\ IsInjective(s) => /\ IsInjective(a) /\ IsInjective(b) /\ IsInjective(c)
                                  /\ ToSet(a) \cap ToSet(b) = {} /\ ToSet(a) \cap ToSet(c) = {}
                                  /\ ToSet(b) \cap ToSet(c) = {}
  <1> DEFINE a == SubSeq(s, 1, i)
             b == SubSeq(s, i + 1, j)
             c == Drop(s, j)
             n == Len(s)
  <1>0. n \in Nat /\ 0 + 1 = 1 /\ 0 <= i /\ i <= n /\ j <= n /\ i - 0 = i
    OBVIOUS
  <1>1. /\ a \in Seq(X) /\ Len(a) = i /\ (IsInjective(s) => IsInjective(a))
        /\ \A e : e \in ToSet(a) <=> \E k \in 1 .. i : s[k] = e
    <2>1. PICK z \in Nat : z = 0
      OBVIOUS
    <2>2. z <= i /\ i <= Len(s) /\ z + 1 = 1 /\ i - z = i
      BY <2>1
    <2>3. IsPart(SubSeq(s, z + 1, i), X, s, z, i)
      BY <2>2, SubSeqSet, Zenon
    <2> QED BY <2>2, <2>3 DEF IsPart
  <1>2. /\ b \in Seq(X) /\ Len(b) = j - i /\ (IsInjective(s) => IsInjective(b))
        /\ \A e : e \in ToSet(b) <=> \E k \in i + 1 .. j : s[k] = e
    <2>1. IsPart(b, X, s, i, j)
      BY SubSeqSet, Zenon
    <2> QED BY <2>1 DEF IsPart
  <1>3. /\ c \in Seq(X) /\ Len(c) = n - j /\ (IsInjective(s) => IsInjective(c))
        /\ \A e : e \in ToSet(c) <=> \E k \in j + 1 .. n : s[k] = e
    <2>1. n \in Nat /\ j <= n /\ n <= Len(s)
      BY <1>0
    <2>2. IsPart(c, X, s, j, n)
      BY <2>1, SubSeqSet, Zenon DEF Drop
    <2> QED BY <2>2 DEF IsPart
  <1>4. \A e : e \in ToSet(s) <=> \E k \in 1 .. n : s[k] = e
    BY InToSet
  <1> HIDE DEF a, b, c, n
  <1>5. \A k \in 1 .. n : k \in 1 .. i \/ k \in i + 1 .. j \/ k \in j + 1 .. n
    BY <1>0
  <1>6. /\ \A k \in 1 .. i : k \in 1 .. n
        /\ \A k \in i + 1 .. j : k \in 1 .. n
        /\ \A k \in j + 1 .. n : k \in 1 .. n
    BY <1>0
  <1>7. ToSet(s) = ToSet(a) \cup ToSet(b) \cup ToSet(c)
    <2>1. \A e : e \in ToSet(s) <=> e \in ToSet(a) \/ e \in ToSet(b) \/ e \in ToSet(c)
      BY <1>1, <1>2, <1>3, <1>4, <1>5, <1>6
    <2> QED BY <2>1
  <1>8. ASSUME IsInjective(s)
        PROVE  /\ ToSet(a) \cap ToSet(b) = {} /\ ToSet(a) \cap ToSet(c) = {}
               /\ ToSet(b) \cap ToSet(c) = {}
    <2>1. \A k, m \in 1 .. n : s[k] = s[m] => k = m
      BY <1>8, Injective DEF n
    <2>2. /\ \A k \in 1 .. i, m \in i + 1 .. j : k # m
          /\ \A k \in 1 .. i, m \in j + 1 .. n : k # m
          /\ \A k \in i + 1 .. j, m \in j + 1 .. n : k # m
      BY <1>0
    <2>3. \A e : ~(e \in ToSet(a) /\ e \in ToSet(b))
      BY <1>1, <1>2, <1>6, <2>1, <2>2
    <2>4. \A e : ~(e \in ToSet(a) /\ e \in ToSet(c))
      BY <1>1, <1>3, <1>6, <2>1, <2>2
    <2>5. \A e : ~(e \in ToSet(b) /\ e \in ToSet(c))
      BY <1>2, <1>3, <1>6, <2>1, <2>2
    <2> QED BY <2>3, <2>4, <2>5
  <1> QED BY <1>1, <1>2, <1>3, <1>7, <1>8 DEF a, b, c, n

(* What Select returns. *)
LEMMA SelectSet ==
  ASSUME NEW X, NEW s \in Seq(X), IsInjective(s), NEW T
  PROVE  /\ Select(s, T) \in Seq(X) /\ IsInjective(Select(s, T))
         /\ ToSet(Select(s, T)) = ToSet(s) \cap T
  <1> DEFINE n == Len(s)
  <1>n. n \in Nat /\ \A k \in 1 .. n : s[k] \in X
    OBVIOUS
  <1>s. \A i, j \in 1 .. n : s[i] = s[j] => i = j
    BY Injective
  <1>1. PICK f \in [0 .. n -> Seq(X)] :
            /\ f[0] = <<>> /\ Select(s, T) = f[n]
            /\ \A k \in 1 .. n : f[k] = IF s[k] \in T THEN Append(f[k - 1], s[k]) ELSE f[k - 1]
    <2>1. PICK f \in [0 .. Len(s) -> Seq(X)] : IsSelectLoop(f, s, T)
      BY SelectLoop, Zenon
    <2> QED BY <2>1 DEF IsSelectLoop
  <1>e. \A e : e \in ToSet(s) <=> \E i \in 1 .. n : s[i] = e
    BY InToSet
  <1> HIDE DEF n
  <1> DEFINE First(k) == \A e : e \in ToSet(f[k]) <=> e \in T /\ \E i \in 1 .. k : s[i] = e
             P == {k \in Nat : k <= n => IsInjective(f[k]) /\ First(k)}
  <1>2. 0 \in P
    <2>1. \A e : e \notin ToSet(<<>>)
      BY DEF ToSet
    <2>2. IsInjective(<<>>)
      BY DEF IsInjective
    <2> QED BY <1>1, <2>1, <2>2
  <1>3. ASSUME NEW k \in Nat, k \in P PROVE k + 1 \in P
    <2> SUFFICES ASSUME k + 1 <= n PROVE IsInjective(f[k + 1]) /\ First(k + 1)
      OBVIOUS
    <2>1. /\ k <= n /\ k \in 0 .. n /\ k + 1 \in 1 .. n /\ (k + 1) - 1 = k
          /\ \A i \in 1 .. k + 1 : i \in 1 .. k \/ i = k + 1
          /\ \A i \in 1 .. k : i \in 1 .. k + 1 /\ i \in 1 .. n /\ i # k + 1
          /\ k + 1 \in 1 .. k + 1
      BY <1>n
    <2>2. f[k] \in Seq(X) /\ IsInjective(f[k]) /\ First(k) /\ s[k + 1] \in X
      BY <1>1, <1>3, <1>n, <2>1
    <2>3. f[k + 1] = IF s[k + 1] \in T THEN Append(f[k], s[k + 1]) ELSE f[k]
      BY <1>1, <2>1
    <2>4. CASE s[k + 1] \in T
      <3>1. s[k + 1] \notin ToSet(f[k])
        BY <1>s, <2>1, <2>2
      <3>2. IsInjective(f[k + 1]) /\ ToSet(f[k + 1]) = ToSet(f[k]) \cup {s[k + 1]}
        BY <2>2, <2>3, <2>4, <3>1, AppendNew
      <3> QED BY <2>1, <2>2, <2>4, <3>2
    <2>5. CASE s[k + 1] \notin T
      BY <2>1, <2>2, <2>3, <2>5
    <2> QED BY <2>4, <2>5
  <1> HIDE DEF P
  <1>4. n \in P
    BY <1>n, <1>2, <1>3, SetInduction
  <1>5. IsInjective(f[n]) /\ First(n)
    BY <1>4, <1>n DEF P
  <1>6. \A e : e \in ToSet(f[n]) <=> e \in ToSet(s) \cap T
    BY <1>5, <1>e
  <1> QED BY <1>1, <1>5, <1>6, <1>n

(* unique() keeps elements of the list, in their order. *)
LEMMA KeptSet ==
  ASSUME NEW X, NEW l, active_list_[l] \in Seq(X), IsInjective(active_list_[l])
  PROVE  /\ Kept(l) \in Seq(X) /\ IsInjective(Kept(l))
         /\ ToSet(Kept(l)) \subseteq ToSet(active_list_[l])
  <1> DEFINE s == active_list_[l]
             n == Len(s)
  <1>n. n \in Nat /\ \A k \in 1 .. n : s[k] \in X
    OBVIOUS
  <1>s. \A i, j \in 1 .. n : s[i] = s[j] => i = j
    BY Injective
  <1>1. PICK f \in [0 .. n -> Seq(X)] :
            /\ f[0] = <<>> /\ Kept(l) = f[n]
            /\ \A k \in 1 .. n :
                 f[k] = IF k > 1 /\ data[Last(f[k - 1])] = data[s[k]] THEN f[k - 1]
                        ELSE Append(f[k - 1], s[k])
    BY KeptLoop
  <1>e. \A e : e \in ToSet(s) <=> \E i \in 1 .. n : s[i] = e
    BY InToSet
  <1> HIDE DEF n, s
  <1> DEFINE First(k) == \A e \in ToSet(f[k]) : \E i \in 1 .. k : s[i] = e
             P == {k \in Nat : k <= n => IsInjective(f[k]) /\ First(k)}
  <1>2. 0 \in P
    <2>1. \A e : e \notin ToSet(<<>>)
      BY DEF ToSet
    <2>2. IsInjective(<<>>)
      BY DEF IsInjective
    <2> QED BY <1>1, <2>1, <2>2
  <1>3. ASSUME NEW k \in Nat, k \in P PROVE k + 1 \in P
    <2> SUFFICES ASSUME k + 1 <= n PROVE IsInjective(f[k + 1]) /\ First(k + 1)
      OBVIOUS
    <2>1. /\ k <= n /\ k \in 0 .. n /\ k + 1 \in 1 .. n /\ (k + 1) - 1 = k
          /\ \A i \in 1 .. k + 1 : i \in 1 .. k \/ i = k + 1
          /\ \A i \in 1 .. k : i \in 1 .. k + 1 /\ i \in 1 .. n /\ i # k + 1
          /\ k + 1 \in 1 .. k + 1
      BY <1>n
    <2>2. f[k] \in Seq(X) /\ IsInjective(f[k]) /\ First(k) /\ s[k + 1] \in X
      BY <1>1, <1>3, <1>n, <2>1
    <2>3. f[k + 1] = f[k] \/ f[k + 1] = Append(f[k], s[k + 1])
      BY <1>1, <2>1
    <2>4. CASE f[k + 1] = Append(f[k], s[k + 1])
      <3>1. s[k + 1] \notin ToSet(f[k])
        BY <1>s, <2>1, <2>2
      <3>2. IsInjective(f[k + 1]) /\ ToSet(f[k + 1]) = ToSet(f[k]) \cup {s[k + 1]}
        BY <2>2, <2>4, <3>1, AppendNew
      <3> QED BY <2>1, <2>2, <3>2
    <2>5. CASE f[k + 1] = f[k]
      BY <2>1, <2>2, <2>5
    <2> QED BY <2>3, <2>4, <2>5
  <1> HIDE DEF P
  <1>4. n \in P
    BY <1>n, <1>2, <1>3, SetInduction
  <1>5. IsInjective(f[n]) /\ First(n)
    BY <1>4, <1>n DEF P
  <1>6. \A e : e \in ToSet(f[n]) => e \in ToSet(s)
    BY <1>5, <1>e
  <1> QED BY <1>1, <1>5, <1>6, <1>n DEF s

(* A pool hands out as many different elements as it is asked for. *)
LEMMA FreshSet ==
  ASSUME NEW F, IsFiniteSet(F), NEW k \in Nat, k <= Cardinality(F)
  PROVE  /\ Fresh(F, k) \in Seq(F) /\ Len(Fresh(F, k)) = k /\ IsInjective(Fresh(F, k))
         /\ IsFiniteSet(ToSet(Fresh(F, k))) /\ Cardinality(ToSet(Fresh(F, k))) = k
  <1> DEFINE n == Cardinality(F)
             r == Fresh(F, k)
  <1>1. n \in Nat /\ ExistsBijection(1 .. n, F)
    BY FS_CardinalityType
  <1>2. PICK b \in [1 .. n -> F] : IsInjective(b)
    BY <1>1 DEF ExistsBijection, Bijection, Injection
  <1> DEFINE c == [i \in 1 .. k |-> b[i]]
  <1>3. \A i \in 1 .. k : i \in 1 .. n
    BY <1>1
  <1>4. c \in [1 .. k -> F] /\ IsInjective(c)
    BY <1>2, <1>3 DEF IsInjective
  <1> HIDE DEF c
  <1>5. r \in [1 .. k -> F] /\ IsInjective(r)
    BY <1>4, Zenon DEF Fresh
  <1> HIDE DEF r
  <1>6. r \in Seq(F) /\ Len(r) = k
    BY <1>5
  <1>7. IsFiniteSet(ToSet(r)) /\ Cardinality(ToSet(r)) = Len(r)
    BY <1>5, <1>6, InjectiveCardinality
  <1> QED BY <1>5, <1>6, <1>7 DEF r

(* std::list::reverse() and sort() move the elements. *)
LEMMA PermutedSet ==
  ASSUME NEW X, NEW s \in Seq(X), NEW p \in Bijection(DOMAIN s, DOMAIN s)
  PROVE  LET r == [i \in DOMAIN s |-> s[p[i]]]
         IN  /\ r \in Seq(X) /\ Len(r) = Len(s) /\ ToSet(r) = ToSet(s)
             /\ IsInjective(s) => IsInjective(r)
  <1> DEFINE r == [i \in DOMAIN s |-> s[p[i]]]
             n == Len(s)
  <1>1. n \in Nat /\ DOMAIN s = 1 .. n
    OBVIOUS
  <1> HIDE DEF n
  <1>2. /\ p \in [1 .. n -> 1 .. n] /\ \A i, j \in 1 .. n : p[i] = p[j] => i = j
        /\ \A j \in 1 .. n : \E i \in 1 .. n : p[i] = j
    BY <1>1 DEF Bijection, Injection, Surjection, IsInjective
  <1>3. \A i \in 1 .. n : s[i] \in X
    BY <1>1
  <1>4. r \in [1 .. n -> X] /\ \A i \in 1 .. n : r[i] = s[p[i]]
    BY <1>1, <1>2, <1>3
  <1> HIDE DEF r
  <1>5. r \in Seq(X) /\ Len(r) = n
    BY <1>1, <1>4
  <1>6. \A e : /\ e \in ToSet(r) <=> \E i \in 1 .. n : r[i] = e
               /\ e \in ToSet(s) <=> \E i \in 1 .. n : s[i] = e
    BY <1>5, InToSet DEF n
  <1>7. ToSet(r) = ToSet(s)
    <2>0. \A i \in 1 .. n : p[i] \in 1 .. n
      BY <1>2
    <2>1. ASSUME NEW e \in ToSet(r) PROVE e \in ToSet(s)
      BY <1>4, <1>6, <2>0, Zenon
    <2>2. ASSUME NEW e \in ToSet(s) PROVE e \in ToSet(r)
      <3>1. PICK j \in 1 .. n : s[j] = e
        BY <1>6
      <3>2. PICK i \in 1 .. n : p[i] = j
        BY <1>2
      <3>3. r[i] = e
        BY <1>4, <3>1, <3>2
      <3> QED BY <1>6, <3>3
    <2> QED BY <2>1, <2>2
  <1>8. ASSUME IsInjective(s) PROVE IsInjective(r)
    <2>0. \A i \in 1 .. n : p[i] \in 1 .. n
      BY <1>2
    <2>1. \A i, j \in 1 .. n : s[i] = s[j] => i = j
      BY <1>8, Injective DEF n
    <2>2. \A i, j \in 1 .. n : r[i] = r[j] => i = j
      <3> TAKE i, j \in 1 .. n
      <3> HAVE r[i] = r[j]
      <3>1. p[i] = p[j]
        BY <1>4, <2>0, <2>1, Zenon
      <3> QED BY <1>2, <3>1, Zenon
    <2> QED BY <1>5, <2>2, Injective
  <1> QED BY <1>5, <1>7, <1>8 DEF r, n

LEMMA ReverseSet ==
  ASSUME NEW X, NEW s \in Seq(X)
  PROVE  /\ Reverse(s) \in Seq(X) /\ Len(Reverse(s)) = Len(s) /\ ToSet(Reverse(s)) = ToSet(s)
         /\ IsInjective(s) => IsInjective(Reverse(s))
  <1> DEFINE n == Len(s)
             p == [i \in DOMAIN s |-> (n - i) + 1]
  <1>1. n \in Nat /\ DOMAIN s = 1 .. n
    OBVIOUS
  <1>2. /\ \A i \in 1 .. n : (n - i) + 1 \in 1 .. n /\ (n - ((n - i) + 1)) + 1 = i
        /\ \A i, j \in 1 .. n : (n - i) + 1 = (n - j) + 1 => i = j
    BY <1>1
  <1>3. Reverse(s) = [i \in DOMAIN s |-> s[p[i]]]
    BY <1>1 DEF Reverse
  <1> HIDE DEF n
  <1>4. /\ p \in [1 .. n -> 1 .. n] /\ \A i, j \in 1 .. n : p[i] = p[j] => i = j
        /\ \A j \in 1 .. n : \E i \in 1 .. n : p[i] = j
    BY <1>1, <1>2
  <1> HIDE DEF p
  <1>5. p \in Bijection(DOMAIN s, DOMAIN s)
    BY <1>1, <1>4 DEF Bijection, Injection, Surjection, IsInjective
  <1> QED BY <1>3, <1>5, PermutedSet

(* In a merge no more is taken than there is, and neither list ever goes back. *)
IsMergeLoop(f, s, t) ==
  /\ FollowsMerge(f, s, t)
  /\ \A k \in 1 .. Len(s) + Len(t) : f[k] <= k /\ f[k] <= Len(t) /\ k - f[k] <= Len(s)
  /\ \A a, b \in 0 .. Len(s) + Len(t) : a <= b => f[a] <= f[b] /\ a - f[a] <= b - f[b]

LEMMA MergeInvariant ==
  ASSUME NEW X, NEW s \in Seq(X), NEW t \in Seq(X)
  PROVE  \E f \in [0 .. Len(s) + Len(t) -> Nat] : IsMergeLoop(f, s, t)
  <1> DEFINE ls == Len(s)
             lt == Len(t)
             n == ls + lt
             Takes2(k, j) == TakesSecond(s, t, data, k, j)
  <1>1. PICK f \in [0 .. n -> Nat] :
            /\ f[0] = 0
            /\ Merged(s, t) = [k \in 1 .. n |-> IF f[k] = f[k - 1] THEN s[k - f[k]] ELSE t[f[k]]]
            /\ \A k \in 1 .. n : f[k] = IF Takes2(k, f[k - 1]) THEN f[k - 1] + 1 ELSE f[k - 1]
    <2>1. PICK f \in [0 .. Len(s) + Len(t) -> Nat] : FollowsMerge(f, s, t)
      BY MergeLoop, Zenon
    <2> QED BY <2>1 DEF FollowsMerge
  <1>2. ls \in Nat /\ lt \in Nat /\ n \in Nat
    OBVIOUS
  <1>3. /\ \A k, j : Takes2(k, j) => j < lt
        /\ \A k, j : ~Takes2(k, j) => ~(j < lt) \/ k - 1 - j < ls
    BY DEF TakesSecond
  <1> HIDE DEF ls, lt, Takes2
  <1> DEFINE P == {k \in Nat : k <= n => f[k] <= k /\ f[k] <= lt /\ k - f[k] <= ls}
             Q(a) == {b \in Nat : a <= b /\ b <= n => f[a] <= f[b] /\ a - f[a] <= b - f[b]}
  <1>4. 0 \in P
    BY <1>1, <1>2
  <1>5. \A k \in Nat : k + 1 <= n => /\ k + 1 \in 1 .. n /\ (k + 1) - 1 = k /\ k \in 0 .. n /\ k <= n
                                     /\ f[k] \in Nat /\ f[k + 1] \in Nat /\ k + 1 \in 0 .. n
    BY <1>1, <1>2
  <1>6. \A k \in Nat : k + 1 <= n => f[k + 1] = IF Takes2(k + 1, f[k]) THEN f[k] + 1 ELSE f[k]
    BY <1>1, <1>5
  <1>7. ASSUME NEW k \in Nat, k \in P PROVE k + 1 \in P
    <2> SUFFICES ASSUME k + 1 <= n
                 PROVE  f[k + 1] <= k + 1 /\ f[k + 1] <= lt /\ (k + 1) - f[k + 1] <= ls
      OBVIOUS
    <2>1. /\ f[k] \in Nat /\ f[k] <= k /\ f[k] <= lt /\ k - f[k] <= ls
          /\ f[k + 1] = IF Takes2(k + 1, f[k]) THEN f[k] + 1 ELSE f[k]
      BY <1>5, <1>6, <1>7
    <2>2. CASE Takes2(k + 1, f[k])
      <3>1. f[k] < lt
        BY <1>3, <2>2
      <3>2. f[k + 1] = f[k] + 1
        BY <2>1, <2>2
      <3>3. f[k] + 1 <= k + 1 /\ f[k] + 1 <= lt /\ (k + 1) - (f[k] + 1) <= ls
        <4>1. \A j \in Nat : j <= k /\ j < lt /\ k - j <= ls => j + 1 <= k + 1 /\ j + 1 <= lt /\ (k + 1) - (j + 1) <= ls
          BY <1>2
        <4> QED BY <2>1, <3>1, <4>1, Zenon
      <3> QED BY <3>2, <3>3, Zenon
    <2>3. CASE ~Takes2(k + 1, f[k])
      <3>1. ~(f[k] < lt) \/ (k + 1) - 1 - f[k] < ls
        BY <1>3, <2>3
      <3>2. f[k + 1] = f[k]
        BY <2>1, <2>3
      <3> QED BY <1>2, <2>1, <3>1, <3>2
    <2> QED BY <2>2, <2>3
  <1> HIDE DEF P
  <1>8. \A k \in Nat : k \in P
    BY <1>4, <1>7, SetInduction
  <1>9. \A k \in 1 .. n : f[k] <= k /\ f[k] <= lt /\ k - f[k] <= ls
    <2>1. \A k \in 1 .. n : k \in Nat /\ k <= n
      BY <1>2
    <2>2. \A k \in P : k <= n => f[k] <= k /\ f[k] <= lt /\ k - f[k] <= ls
      BY DEF P
    <2> QED BY <1>8, <2>1, <2>2, Zenon
  <1>10. ASSUME NEW a \in 0 .. n PROVE \A b \in Nat : b \in Q(a)
    <2>0. a \in Nat /\ f[a] \in Nat
      BY <1>1, <1>2
    <2>1. 0 \in Q(a)
      BY <2>0
    <2>2. ASSUME NEW b \in Nat, b \in Q(a) PROVE b + 1 \in Q(a)
      <3> SUFFICES ASSUME a <= b + 1, b + 1 <= n
                   PROVE  f[a] <= f[b + 1] /\ a - f[a] <= (b + 1) - f[b + 1]
        OBVIOUS
      <3>1. CASE a = b + 1
        BY <2>0, <3>1
      <3>2. CASE a # b + 1
        <4>1. a <= b /\ b <= n
          BY <2>0, <1>2, <3>2
        <4>2. f[a] <= f[b] /\ a - f[a] <= b - f[b]
          BY <2>2, <4>1
        <4>3. f[b] \in Nat /\ (f[b + 1] = f[b] + 1 \/ f[b + 1] = f[b])
          BY <1>5, <1>6
        <4> QED BY <2>0, <4>2, <4>3
      <3> QED BY <3>1, <3>2
    <2> DEFINE Qa == Q(a)
    <2>3. 0 \in Qa /\ \A b \in Nat : b \in Qa => b + 1 \in Qa
      BY <2>1, <2>2
    <2> HIDE DEF Qa
    <2>4. \A b \in Nat : b \in Qa
      BY <2>3, SetInduction
    <2> QED BY <2>4 DEF Qa
  <1>11. \A a, b \in 0 .. n : a <= b => f[a] <= f[b] /\ a - f[a] <= b - f[b]
    <2> TAKE a, b \in 0 .. n
    <2> HAVE a <= b
    <2>1. b \in Nat /\ b <= n /\ b \in Q(a)
      BY <1>2, <1>10
    <2> QED BY <2>1
  <1> QED BY <1>1, <1>9, <1>11 DEF IsMergeLoop, FollowsMerge, ls, lt, Takes2

(* What the k-th element of a merge is. *)
MergedAt(r, f, s, t, k) ==
  \/ /\ f[k] = f[k - 1] /\ k - f[k] \in 1 .. Len(s) /\ r[k] = s[k - f[k]]
     /\ ~TakesSecond(s, t, data, k, f[k - 1])
  \/ /\ f[k] = f[k - 1] + 1 /\ f[k] \in 1 .. Len(t) /\ r[k] = t[f[k]]
     /\ TakesSecond(s, t, data, k, f[k - 1])

LEMMA MergedElements ==
  ASSUME NEW X, NEW s \in Seq(X), NEW t \in Seq(X),
         NEW f \in [0 .. Len(s) + Len(t) -> Nat], IsMergeLoop(f, s, t)
  PROVE  \A k \in 1 .. Len(s) + Len(t) : MergedAt(Merged(s, t), f, s, t, k)
  <1> DEFINE ls == Len(s)
             lt == Len(t)
             n == ls + lt
             r == Merged(s, t)
             Takes2(k) == TakesSecond(s, t, data, k, f[k - 1])
  <1>1. ls \in Nat /\ lt \in Nat /\ n \in Nat /\ f \in [0 .. n -> Nat]
    OBVIOUS
  <1>2. \A k \in 1 .. n : /\ r[k] = IF f[k] = f[k - 1] THEN s[k - f[k]] ELSE t[f[k]]
                          /\ f[k] = IF Takes2(k) THEN f[k - 1] + 1 ELSE f[k - 1]
                          /\ f[k] <= k /\ f[k] <= lt /\ k - f[k] <= ls
    BY DEF IsMergeLoop, FollowsMerge
  <1>3. \A a, b \in 0 .. n : a <= b => f[a] <= f[b] /\ a - f[a] <= b - f[b]
    BY DEF IsMergeLoop
  <1>4. f[0] = 0
    BY DEF IsMergeLoop, FollowsMerge
  <1> HIDE DEF ls, lt, r, Takes2
  <1>5. SUFFICES ASSUME NEW k \in 1 .. n
                 PROVE  \/ f[k] = f[k - 1] /\ k - f[k] \in 1 .. ls /\ r[k] = s[k - f[k]] /\ ~Takes2(k)
                        \/ f[k] = f[k - 1] + 1 /\ f[k] \in 1 .. lt /\ r[k] = t[f[k]] /\ Takes2(k)
    BY DEF MergedAt, ls, lt, r, Takes2
  <1>6. k \in Nat /\ k - 1 \in 0 .. n /\ k \in 0 .. n /\ 0 \in 0 .. n /\ k - 1 <= k /\ 0 <= k - 1
    BY <1>1
  <1>7. f[k - 1] \in Nat /\ f[k] \in Nat
    BY <1>1, <1>6
  <1>8. CASE Takes2(k)
    <2>1. f[k] = f[k - 1] + 1
      BY <1>2, <1>8
    <2>2. f[k] <= lt /\ f[k] # f[k - 1]
      BY <1>2, <1>7, <2>1
    <2>3. f[k] \in 1 .. lt
      BY <1>1, <1>7, <2>1, <2>2
    <2>4. r[k] = t[f[k]]
      BY <1>2, <2>2
    <2> QED BY <1>8, <2>1, <2>3, <2>4
  <1>9. CASE ~Takes2(k)
    <2>1. f[k] = f[k - 1]
      BY <1>2, <1>9
    <2>2. 0 - f[0] <= (k - 1) - f[k - 1] /\ k - f[k] <= ls
      BY <1>2, <1>3, <1>6
    <2>3. k - f[k] \in 1 .. ls
      BY <1>1, <1>4, <1>6, <1>7, <2>1, <2>2
    <2>4. r[k] = s[k - f[k]]
      BY <1>2, <2>1
    <2> QED BY <1>9, <2>1, <2>3, <2>4
  <1> QED BY <1>8, <1>9

(* merge() keeps every element of both lists. *)
LEMMA MergedSet ==
  ASSUME NEW X, NEW s \in Seq(X), NEW t \in Seq(X), IsInjective(s), IsInjective(t),
         ToSet(s) \cap ToSet(t) = {}
  PROVE  /\ Merged(s, t) \in Seq(X) /\ Len(Merged(s, t)) = Len(s) + Len(t)
         /\ IsInjective(Merged(s, t)) /\ ToSet(Merged(s, t)) = ToSet(s) \cup ToSet(t)
  <1> DEFINE ls == Len(s)
             lt == Len(t)
             n == ls + lt
             r == Merged(s, t)
             U == ToSet(s) \cup ToSet(t)
  <1>1. PICK f \in [0 .. n -> Nat] : IsMergeLoop(f, s, t)
    BY MergeInvariant, Zenon
  <1>2. \A k \in 1 .. n : MergedAt(r, f, s, t, k)
    BY <1>1, MergedElements, Zenon
  <1>3. ls \in Nat /\ lt \in Nat /\ n \in Nat
    OBVIOUS
  <1>4. r = [k \in 1 .. n |-> r[k]]
    BY <1>1 DEF IsMergeLoop, FollowsMerge
  <1>5. \A a, b \in 0 .. n : a <= b => f[a] <= f[b] /\ a - f[a] <= b - f[b]
    BY <1>1 DEF IsMergeLoop
  <1>6. /\ \A i \in 1 .. ls : s[i] \in ToSet(s)
        /\ \A i \in 1 .. lt : t[i] \in ToSet(t)
        /\ U \subseteq X
    BY InToSet
  <1>7. /\ \A i, j \in 1 .. ls : s[i] = s[j] => i = j
        /\ \A i, j \in 1 .. lt : t[i] = t[j] => i = j
    BY Injective
  <1>8. \A k \in 1 .. n : \/ f[k] = f[k - 1] /\ k - f[k] \in 1 .. ls /\ r[k] = s[k - f[k]]
                          \/ f[k] = f[k - 1] + 1 /\ f[k] \in 1 .. lt /\ r[k] = t[f[k]]
    BY <1>2 DEF MergedAt
  <1> HIDE DEF r, ls, lt, U
  <1>9. \A k \in 1 .. n : r[k] \in U
    BY <1>6, <1>8 DEF U
  <1>10. r \in [1 .. n -> U]
    BY <1>4, <1>9
  <1>11. ASSUME NEW a \in 1 .. n, NEW b \in 1 .. n, a < b PROVE r[a] # r[b]
    <2>1. a \in 0 .. n /\ b - 1 \in 0 .. n /\ b \in 0 .. n /\ a <= b - 1
      BY <1>3, <1>11
    <2>2. f[a] <= f[b - 1] /\ a - f[a] <= (b - 1) - f[b - 1]
      BY <1>5, <2>1
    <2>3. f[a] \in Nat /\ f[b - 1] \in Nat /\ f[b] \in Nat
      BY <1>1, <2>1
    <2>4. CASE r[a] \in ToSet(s) /\ r[b] \in ToSet(s)
      <3>1. a - f[a] \in 1 .. ls /\ r[a] = s[a - f[a]]
        BY <1>6, <1>8, <2>4
      <3>2. f[b] = f[b - 1] /\ b - f[b] \in 1 .. ls /\ r[b] = s[b - f[b]]
        BY <1>6, <1>8, <2>4
      <3>3. a - f[a] # b - f[b]
        BY <2>1, <2>2, <2>3, <3>2
      <3> QED BY <1>7, <3>1, <3>2, <3>3
    <2>5. CASE r[a] \in ToSet(t) /\ r[b] \in ToSet(t)
      <3>1. f[a] \in 1 .. lt /\ r[a] = t[f[a]]
        BY <1>6, <1>8, <2>5
      <3>2. f[b] = f[b - 1] + 1 /\ f[b] \in 1 .. lt /\ r[b] = t[f[b]]
        BY <1>6, <1>8, <2>5
      <3>3. f[a] # f[b]
        BY <2>2, <2>3, <3>2
      <3> QED BY <1>7, <3>1, <3>2, <3>3
    <2> QED BY <1>9, <2>4, <2>5 DEF U
  <1>12. IsInjective(r)
    <2>1. \A a, b \in 1 .. n : a = b \/ a < b \/ b < a
      BY <1>3
    <2>2. DOMAIN r = 1 .. n
      BY <1>10
    <2> QED BY <1>11, <2>1, <2>2, Zenon DEF IsInjective
  <1>13. r \in Seq(U) /\ r \in Seq(X) /\ Len(r) = n
    <2>1. r \in [1 .. n -> X]
      BY <1>6, <1>10
    <2> QED BY <1>3, <1>10, <2>1
  <1>14. IsFiniteSet(U) /\ Cardinality(U) = n
    <2>1. /\ IsFiniteSet(ToSet(s)) /\ Cardinality(ToSet(s)) = ls
          /\ IsFiniteSet(ToSet(t)) /\ Cardinality(ToSet(t)) = lt
      BY InjectiveCardinality DEF ls, lt
    <2>2. /\ IsFiniteSet(U)
          /\ Cardinality(U) = Cardinality(ToSet(s)) + Cardinality(ToSet(t)) - Cardinality(ToSet(s) \cap ToSet(t))
      BY <2>1, FS_Union DEF U
    <2>3. Cardinality(ToSet(s) \cap ToSet(t)) = 0
      BY FS_EmptySet
    <2> QED BY <1>3, <2>1, <2>2, <2>3
  <1>15. ToSet(r) = U
    <2>1. IsFiniteSet(ToSet(r)) /\ Cardinality(ToSet(r)) = n
      BY <1>12, <1>13, InjectiveCardinality
    <2>2. ToSet(r) \subseteq U
      BY <1>13, InToSet
    <2> QED BY <1>14, <2>1, <2>2, FS_Subset
  <1> QED BY <1>12, <1>13, <1>15 DEF r, ls, lt, U

(* Sorted lists are merged into a sorted one. *)
LEMMA MergedAscending ==
  ASSUME NEW X, NEW s \in Seq(X), NEW t \in Seq(X), \A e \in X : data[e] \in Nat,
         \A i \in 1 .. Len(s) - 1 : data[s[i]] <= data[s[i + 1]],
         \A i \in 1 .. Len(t) - 1 : data[t[i]] <= data[t[i + 1]]
  PROVE  \A k \in 1 .. (Len(s) + Len(t)) - 1 : data[Merged(s, t)[k]] <= data[Merged(s, t)[k + 1]]
  <1> DEFINE ls == Len(s)
             lt == Len(t)
             n == ls + lt
             r == Merged(s, t)
  <1>1. PICK f \in [0 .. n -> Nat] : IsMergeLoop(f, s, t)
    BY MergeInvariant, Zenon
  <1>2. \A k \in 1 .. n : MergedAt(r, f, s, t, k)
    BY <1>1, MergedElements, Zenon
  <1>3. ls \in Nat /\ lt \in Nat /\ n \in Nat
    OBVIOUS
  <1>4. /\ \A i \in 1 .. ls : data[s[i]] \in Nat
        /\ \A i \in 1 .. lt : data[t[i]] \in Nat
    OBVIOUS
  <1>5. /\ \A i \in 1 .. ls, j \in 1 .. ls : j = i + 1 => data[s[i]] <= data[s[j]]
        /\ \A i \in 1 .. lt, j \in 1 .. lt : j = i + 1 => data[t[i]] <= data[t[j]]
    <2>1. \A m \in Nat : \A i, j \in 1 .. m : j = i + 1 => i \in 1 .. m - 1
      OBVIOUS
    <2> QED BY <1>3, <2>1
  <1> DEFINE Second(k, j) == TakesSecond(s, t, data, k, j)
  <1>6. \A k, j : /\ Second(k, j) /\ k - 1 - j < ls => data[t[j + 1]] < data[s[k - 1 - j + 1]]
                  /\ ~Second(k, j) /\ j < lt => ~(data[t[j + 1]] < data[s[k - 1 - j + 1]])
    BY DEF TakesSecond
  <1>7. \A k \in 1 .. n :
          \/ f[k] = f[k - 1] /\ k - f[k] \in 1 .. ls /\ r[k] = s[k - f[k]] /\ ~Second(k, f[k - 1])
          \/ f[k] = f[k - 1] + 1 /\ f[k] \in 1 .. lt /\ r[k] = t[f[k]] /\ Second(k, f[k - 1])
    BY <1>2 DEF MergedAt
  <1> HIDE DEF r, ls, lt, Second
  <1>8. ASSUME NEW k \in 1 .. n - 1 PROVE data[r[k]] <= data[r[k + 1]]
    <2>1. k \in 1 .. n /\ k + 1 \in 1 .. n /\ (k + 1) - 1 = k /\ k \in Nat /\ k - 1 \in 0 .. n /\ k \in 0 .. n
      BY <1>3
    <2>2. PICK j, a, b : j = f[k - 1] /\ a = f[k] /\ b = f[k + 1]
      OBVIOUS
    <2>3. j \in Nat /\ a \in Nat
      BY <1>1, <2>1, <2>2
    <2>4. \/ a = j /\ k - a \in 1 .. ls /\ r[k] = s[k - a] /\ ~Second(k, j)
          \/ a = j + 1 /\ a \in 1 .. lt /\ r[k] = t[a] /\ Second(k, j)
      BY <1>7, <2>1, <2>2
    <2>5. \/ b = a /\ (k + 1) - b \in 1 .. ls /\ r[k + 1] = s[(k + 1) - b]
          \/ b = a + 1 /\ b \in 1 .. lt /\ r[k + 1] = t[b]
      BY <1>7, <2>1, <2>2
    <2>6. CASE r[k] = s[k - a] /\ k - a \in 1 .. ls /\ r[k + 1] = s[(k + 1) - b] /\ b = a /\ (k + 1) - b \in 1 .. ls
      <3>1. (k + 1) - b = (k - a) + 1
        BY <2>1, <2>3, <2>6
      <3> QED BY <1>5, <2>6, <3>1
    <2>7. CASE a \in 1 .. lt /\ r[k] = t[a] /\ b = a + 1 /\ b \in 1 .. lt /\ r[k + 1] = t[b]
      BY <1>5, <2>7
    <2>8. CASE a = j /\ k - a \in 1 .. ls /\ r[k] = s[k - a] /\ ~Second(k, j) /\ b = a + 1 /\ b \in 1 .. lt /\ r[k + 1] = t[b]
      <3>1. j < lt /\ b = j + 1 /\ k - 1 - j + 1 = k - a
        BY <1>3, <2>1, <2>3, <2>8
      <3>2. ~(data[t[b]] < data[s[k - a]])
        BY <1>6, <2>8, <3>1
      <3>3. data[t[b]] \in Nat /\ data[s[k - a]] \in Nat
        BY <1>4, <2>8
      <3> QED BY <2>8, <3>2, <3>3
    <2>9. CASE a = j + 1 /\ a \in 1 .. lt /\ r[k] = t[a] /\ Second(k, j) /\ b = a /\ (k + 1) - b \in 1 .. ls /\ r[k + 1] = s[(k + 1) - b]
      <3>1. k - 1 - j < ls /\ k - 1 - j + 1 = (k + 1) - b
        BY <1>3, <2>1, <2>3, <2>9
      <3>2. data[t[a]] < data[s[(k + 1) - b]]
        BY <1>6, <2>9, <3>1
      <3>3. data[t[a]] \in Nat /\ data[s[(k + 1) - b]] \in Nat
        BY <1>4, <2>9
      <3> QED BY <2>9, <3>2, <3>3
    <2> QED BY <2>4, <2>5, <2>6, <2>7, <2>8, <2>9
  <1> QED BY <1>8 DEF r, ls, lt

-------------------------------------------------------------------------------
(***************************************************************************)
(* The inductive invariant: the elements that are free, held by a list and *)
(* lost are apart from one another, each at home in its pool, and together *)
(* they are all; and what is constructed in an element says where it is.   *)
(***************************************************************************)
Held(l) == ToSet(active_list_[l])

TypeInv ==
  /\ lists \subseteq Lists
  /\ active_list_ \in [Lists -> Seq(AllElements)] /\ p_pool_ \in [Lists -> Pools]
  /\ free_list_ \in [Pools -> SUBSET AllElements]
  /\ data \in [AllElements -> Values \cup {Dead, Unseen}]
  /\ lost \subseteq AllElements /\ threw \in BOOLEAN

HomeInv ==
  /\ \A p \in Pools : free_list_[p] \subseteq Elements(p)
  /\ \A l \in Lists : Held(l) \subseteq Elements(p_pool_[l])

OnceInv ==
  /\ \A l \in Lists : IsInjective(active_list_[l])
  /\ \A l, x \in Lists : l # x => Held(l) \cap Held(x) = {}

ApartInv ==
  /\ \A p \in Pools : free_list_[p] \cap lost = {}
  /\ \A l \in Lists : Held(l) \cap lost = {} /\ \A p \in Pools : Held(l) \cap free_list_[p] = {}

CoverInv ==
  \A e \in AllElements :
    e \in lost \/ (\E p \in Pools : e \in free_list_[p]) \/ (\E l \in Lists : e \in Held(l))

AliveInv ==
  /\ \A p \in Pools : \A e \in free_list_[p] : data[e] = Dead
  /\ \A l \in Lists : \A e \in Held(l) : data[e] \in Values
  /\ \A e \in lost : data[e] = Unseen

EmptyInv == \A l \in Lists \ lists : active_list_[l] = <<>>

ListInv == TypeInv /\ HomeInv /\ OnceInv /\ ApartInv /\ CoverInv /\ AliveInv /\ EmptyInv

-------------------------------------------------------------------------------
LEMMA ElementsFinite ==
  ASSUME NEW p \in Pools
  PROVE  IsFiniteSet(Elements(p)) /\ Cardinality(Elements(p)) \in Nat
  <1> DEFINE n == PoolSize[p]
             b == [i \in 1 .. n |-> <<p, i>>]
  <1>1. n \in Nat
    BY PooledListAssumption
  <1>2. b \in Surjection(1 .. n, Elements(p))
    <2>1. b \in [1 .. n -> Elements(p)]
      BY DEF Elements
    <2>2. \A e \in Elements(p) : \E i \in 1 .. n : b[i] = e
      BY DEF Elements
    <2> HIDE DEF b
    <2> QED BY <2>1, <2>2 DEF Surjection
  <1>3. IsFiniteSet(1 .. n)
    BY <1>1, FS_Interval
  <1>4. IsFiniteSet(Elements(p))
    BY <1>2, <1>3, FS_Surjection
  <1> QED BY <1>4, FS_CardinalityType

(* No element is at home in two pools. *)
LEMMA ElementsApart ==
  /\ \A p, q \in Pools : p # q => Elements(p) \cap Elements(q) = {}
  /\ \A p \in Pools : Elements(p) \subseteq AllElements
  /\ \A e \in AllElements : \E p \in Pools : e \in Elements(p)
  BY DEF Elements, AllElements

LEMMA DeadUnseen == Dead \notin Values /\ Unseen \notin Values /\ Dead # Unseen
  BY PooledListAssumption DEF Dead, Unseen

(* The elements that a pool hands out. *)
IsFresh(s, free, k, n) ==
  /\ k \in Nat /\ k <= n /\ Len(s) = k
  /\ s \in Seq(AllElements) /\ IsInjective(s) /\ ToSet(s) \subseteq free
  /\ IsFiniteSet(free) /\ Cardinality(free) \in Nat /\ k <= Cardinality(free)
  /\ IsFiniteSet(ToSet(s)) /\ Cardinality(ToSet(s)) = k
  /\ Cardinality(free \ ToSet(s)) = Cardinality(free) - k

LEMMA FreshFacts ==
  ASSUME NEW p \in Pools, NEW free \in SUBSET Elements(p), NEW n \in Nat, NEW k \in Taken(free, n)
  PROVE  IsFresh(Fresh(free, k), free, k, n)
  <1> DEFINE s == Fresh(free, k)
  <1>1. IsFiniteSet(free) /\ Cardinality(free) \in Nat
    BY ElementsFinite, FS_Subset, FS_CardinalityType
  <1>2. k \in Nat /\ k <= n /\ k <= Cardinality(free)
    BY <1>1 DEF Taken
  <1>3. /\ s \in Seq(free) /\ Len(s) = k /\ IsInjective(s)
        /\ IsFiniteSet(ToSet(s)) /\ Cardinality(ToSet(s)) = k
    BY <1>1, <1>2, FreshSet
  <1> HIDE DEF s
  <1>4. ToSet(s) \subseteq free
    BY <1>3, InToSet
  <1>5. s \in Seq(AllElements)
    <2>1. free \subseteq AllElements
      BY ElementsApart
    <2> QED BY <1>3, <2>1, SeqMonotonic
  <1>6. Cardinality(free \ ToSet(s)) = Cardinality(free) - k
    <2>1. Cardinality(free \ ToSet(s)) = Cardinality(free) - Cardinality(free \cap ToSet(s))
      BY <1>1, FS_Difference
    <2>2. free \cap ToSet(s) = ToSet(s)
      BY <1>4
    <2> QED BY <1>3, <2>1, <2>2
  <1> QED BY <1>1, <1>2, <1>3, <1>4, <1>5, <1>6 DEF s, IsFresh

LEMMA WrittenFacts ==
  ASSUME NEW s \in Seq(AllElements), IsInjective(s), NEW vals
  PROVE  /\ \A i \in 1 .. Len(s) : Written(s, vals)[s[i]] = vals[i]
         /\ \A e \in AllElements \ ToSet(s) : Written(s, vals)[e] = data[e]
         /\ Written(s, vals) = [e \in AllElements |-> Written(s, vals)[e]]
  <1>1. ASSUME NEW i \in 1 .. Len(s) PROVE Written(s, vals)[s[i]] = vals[i]
    <2> DEFINE e == s[i]
    <2>1. e \in AllElements /\ Contains(s, e)
      BY DEF Contains
    <2>2. (CHOOSE j \in DOMAIN s : s[j] = e) = i
      <3>1. i \in DOMAIN s /\ s[i] = e /\ \A j \in DOMAIN s : s[j] = e => j = i
        BY DEF IsInjective
      <3> HIDE DEF e
      <3> QED BY <3>1, Zenon
    <2> HIDE DEF e
    <2>3. Written(s, vals)[e] = vals[i]
      BY <2>1, <2>2, Zenon DEF Written
    <2> QED BY <2>3 DEF e
  <1>2. ASSUME NEW e \in AllElements \ ToSet(s) PROVE Written(s, vals)[e] = data[e]
    <2>1. ~Contains(s, e)
      BY InToSet
    <2> QED BY <2>1, Zenon DEF Written
  <1>3. Written(s, vals) = [e \in AllElements |-> Written(s, vals)[e]]
    BY DEF Written
  <1> QED BY <1>1, <1>2, <1>3

LEMMA GoneFacts ==
  ASSUME NEW s \in Seq(AllElements)
  PROVE  /\ \A e \in ToSet(s) : Leaked(s)[e] = Unseen /\ Destructed(s)[e] = Dead
         /\ \A e \in AllElements \ ToSet(s) : Leaked(s)[e] = data[e] /\ Destructed(s)[e] = data[e]
         /\ Leaked(s) = [e \in AllElements |-> Leaked(s)[e]]
         /\ Destructed(s) = [e \in AllElements |-> Destructed(s)[e]]
  <1>1. ToSet(s) \subseteq AllElements /\ \A e : Contains(s, e) <=> e \in ToSet(s)
    BY InToSet
  <1> QED BY <1>1 DEF Leaked, Destructed

-------------------------------------------------------------------------------
(* Every step is one of three: elements move between a list and its pool, *)
(* elements of a pool are lost, or elements move between two lists.       *)

(* l gives the elements of Out back and takes those of In. *)
ListChanges(l, In, Out) ==
  /\ \A x \in Lists \ {l} : active_list_'[x] = active_list_[x] /\ p_pool_'[x] = p_pool_[x]
  /\ In \subseteq free_list_[p_pool_'[l]] /\ Out \subseteq Held(l)
  /\ Held(l)' = (Held(l) \ Out) \cup In /\ Held(l) \ Out \subseteq Elements(p_pool_'[l])
  /\ IsInjective(active_list_'[l])
  /\ \A q \in Pools : free_list_'[q] = (free_list_[q] \ In) \cup (Out \cap Elements(q))
  /\ lost' = lost
  /\ \A e \in Out : data'[e] = Dead
  /\ \A e \in Held(l)' : data'[e] \in Values
  /\ \A e \in AllElements \ (In \cup Held(l)) : data'[e] = data[e]

LEMMA ListStep ==
  ASSUME ListInv, TypeInv', EmptyInv', NEW l \in Lists, NEW In, NEW Out, ListChanges(l, In, Out)
  PROVE  ListInv'
  <1> USE ElementsApart
  <1> DEFINE q0 == p_pool_[l]
             q1 == p_pool_'[l]
  <1>1. q0 \in Pools /\ q1 \in Pools
    BY DEF ListInv, TypeInv
  <1>2. /\ \A x \in Lists \ {l} : Held(x)' = Held(x) /\ p_pool_'[x] = p_pool_[x]
        /\ In \subseteq free_list_[q1] /\ Out \subseteq Held(l)
        /\ Held(l)' = (Held(l) \ Out) \cup In
        /\ Held(l) \ Out \subseteq Elements(q1)
    BY DEF ListChanges, Held
  <1>3. /\ \A q \in Pools : free_list_'[q] = (free_list_[q] \ In) \cup (Out \cap Elements(q))
        /\ lost' = lost
    BY DEF ListChanges
  <1>4. HomeInv'
    <2>1. \A q \in Pools : free_list_'[q] \subseteq Elements(q)
      BY <1>3 DEF ListInv, HomeInv
    <2>2. In \subseteq Elements(q1)
      BY <1>1, <1>2 DEF ListInv, HomeInv
    <2>3. Held(l)' \subseteq Elements(q1)
      BY <1>2, <2>2
    <2>4. \A x \in Lists \ {l} : Held(x)' \subseteq Elements(p_pool_'[x])
      BY <1>2 DEF ListInv, HomeInv
    <2> QED BY <2>1, <2>3, <2>4 DEF HomeInv
  <1>5. OnceInv'
    <2>1. \A x \in Lists : IsInjective(active_list_'[x])
      BY DEF ListChanges, ListInv, OnceInv
    <2>2. ASSUME NEW x \in Lists \ {l} PROVE Held(l)' \cap Held(x)' = {}
      <3>1. Held(l) \cap Held(x) = {} /\ Held(x) \cap free_list_[q1] = {}
        BY <1>1 DEF ListInv, OnceInv, ApartInv
      <3> QED BY <1>2, <3>1
    <2>3. ASSUME NEW x \in Lists, NEW y \in Lists, x # y PROVE Held(x)' \cap Held(y)' = {}
      <3>1. CASE x = l \/ y = l
        BY <2>2, <2>3, <3>1
      <3>2. CASE x # l /\ y # l
        BY <1>2, <2>3, <3>2 DEF ListInv, OnceInv
      <3> QED BY <3>1, <3>2
    <2> QED BY <2>1, <2>3 DEF OnceInv
  <1>6. ApartInv'
    <2>1. \A q \in Pools : free_list_'[q] \cap lost' = {}
      BY <1>2, <1>3 DEF ListInv, ApartInv
    <2>2. Held(l)' \cap lost' = {}
      BY <1>1, <1>2, <1>3 DEF ListInv, ApartInv
    <2>3. ASSUME NEW q \in Pools PROVE Held(l)' \cap free_list_'[q] = {}
      <3>1. Held(l) \cap free_list_[q] = {} /\ In \cap Held(l) = {}
        BY <1>1, <1>2 DEF ListInv, ApartInv
      <3> QED BY <1>2, <1>3, <3>1
    <2>4. ASSUME NEW x \in Lists \ {l} PROVE Held(x)' \cap lost' = {}
      BY <1>2, <1>3 DEF ListInv, ApartInv
    <2>5. ASSUME NEW x \in Lists \ {l}, NEW q \in Pools PROVE Held(x)' \cap free_list_'[q] = {}
      <3>1. Held(x) \cap free_list_[q] = {} /\ Held(x) \cap Held(l) = {}
        BY DEF ListInv, ApartInv, OnceInv
      <3> QED BY <1>2, <1>3, <3>1
    <2> QED BY <2>1, <2>2, <2>3, <2>4, <2>5 DEF ApartInv
  <1>7. CoverInv'
    <2> SUFFICES ASSUME NEW e \in AllElements
                 PROVE  \/ e \in lost' \/ \E q \in Pools : e \in free_list_'[q]
                        \/ \E x \in Lists : e \in Held(x)'
      BY DEF CoverInv
    <2>1. CASE e \in lost
      BY <1>3, <2>1
    <2>2. ASSUME NEW q \in Pools, e \in free_list_[q] PROVE (\E r \in Pools : e \in free_list_'[r]) \/ e \in Held(l)'
      BY <1>2, <1>3, <2>2
    <2>3. CASE e \in Held(l)
      <3>1. q0 \in Pools /\ e \in Elements(q0)
        BY <1>1, <2>3 DEF ListInv, HomeInv
      <3> QED BY <1>2, <1>3, <3>1, <2>3
    <2>4. ASSUME NEW x \in Lists \ {l}, e \in Held(x) PROVE e \in Held(x)'
      BY <1>2, <2>4
    <2>5. e \in lost \/ (\E q \in Pools : e \in free_list_[q]) \/ (\E x \in Lists : e \in Held(x))
      BY DEF ListInv, CoverInv
    <2> QED BY <2>1, <2>2, <2>3, <2>4, <2>5
  <1>8. AliveInv'
    <2>0. /\ \A e \in Out : data'[e] = Dead
          /\ \A e \in Held(l)' : data'[e] \in Values
          /\ \A e \in AllElements \ (In \cup Held(l)) : data'[e] = data[e]
      BY DEF ListChanges
    <2>1. ASSUME NEW q \in Pools, NEW e \in free_list_'[q] PROVE data'[e] = Dead
      <3>1. CASE e \in Out
        BY <2>0, <3>1
      <3>2. CASE e \notin Out
        <4>1. e \in free_list_[q] /\ e \notin In /\ e \notin Held(l) /\ e \in AllElements
          BY <1>3, <2>1, <3>2 DEF ListInv, ApartInv, TypeInv
        <4> QED BY <2>0, <4>1 DEF ListInv, AliveInv
      <3> QED BY <3>1, <3>2
    <2>2. ASSUME NEW x \in Lists \ {l}, NEW e \in Held(x)' PROVE data'[e] \in Values
      <3>1. e \in Held(x) /\ Held(x) \subseteq AllElements
        BY <1>2, <2>2 DEF ListInv, HomeInv, TypeInv
      <3>2. e \notin In /\ e \notin Held(l)
        BY <1>1, <1>2, <3>1 DEF ListInv, ApartInv, OnceInv
      <3> QED BY <2>0, <3>1, <3>2 DEF ListInv, AliveInv
    <2>3. ASSUME NEW e \in lost' PROVE data'[e] = Unseen
      <3>1. e \in lost /\ e \in AllElements
        BY <1>3, <2>3 DEF ListInv, TypeInv
      <3>2. e \notin In /\ e \notin Held(l)
        BY <1>1, <1>2, <3>1 DEF ListInv, ApartInv
      <3> QED BY <2>0, <3>1, <3>2 DEF ListInv, AliveInv
    <2> QED BY <2>0, <2>1, <2>2, <2>3 DEF AliveInv
  <1> QED BY <1>4, <1>5, <1>6, <1>7, <1>8 DEF ListInv

(* The elements of S are lost to pool p. *)
Leaks(p, S) ==
  /\ UNCHANGED <<lists, active_list_, p_pool_>>
  /\ S \subseteq free_list_[p] /\ lost' = lost \cup S
  /\ free_list_' = [free_list_ EXCEPT ![p] = @ \ S]
  /\ data' \in [AllElements -> Values \cup {Dead, Unseen}]
  /\ \A e \in S : data'[e] = Unseen
  /\ \A e \in AllElements \ S : data'[e] = data[e]

LEMMA LeakStep ==
  ASSUME ListInv, NEW p \in Pools, NEW S, Leaks(p, S), threw' \in BOOLEAN
  PROVE  ListInv'
  <1>1. /\ \A x \in Lists : Held(x)' = Held(x)
        /\ S \subseteq free_list_[p] /\ lost' = lost \cup S
        /\ \A q \in Pools : free_list_'[q] = IF q = p THEN free_list_[q] \ S ELSE free_list_[q]
    BY DEF Leaks, Held, ListInv, TypeInv
  <1>a. \A q \in Pools : q # p => free_list_[q] \cap S = {}
    BY <1>1, ElementsApart DEF ListInv, HomeInv
  <1>2. TypeInv' /\ EmptyInv'
    BY DEF Leaks, ListInv, TypeInv, EmptyInv
  <1>3. HomeInv'
    BY <1>1 DEF Leaks, ListInv, HomeInv
  <1>4. OnceInv'
    BY <1>1 DEF Leaks, ListInv, OnceInv
  <1>5. ApartInv'
    <2>1. \A q \in Pools : free_list_'[q] \cap lost' = {}
      BY <1>1, <1>a DEF ListInv, ApartInv
    <2>2. \A x \in Lists : Held(x)' \cap lost' = {} /\ \A q \in Pools : Held(x)' \cap free_list_'[q] = {}
      BY <1>1 DEF ListInv, ApartInv
    <2> QED BY <2>1, <2>2 DEF ApartInv
  <1>6. CoverInv'
    BY <1>1 DEF ListInv, CoverInv
  <1>7. AliveInv'
    <2>1. ASSUME NEW q \in Pools, NEW e \in free_list_'[q] PROVE data'[e] = Dead
      <3>1. e \in free_list_[q] /\ e \notin S /\ e \in AllElements
        BY <1>1, <1>a, <2>1 DEF ListInv, TypeInv
      <3> QED BY <3>1 DEF Leaks, ListInv, AliveInv
    <2>2. ASSUME NEW x \in Lists, NEW e \in Held(x)' PROVE data'[e] \in Values
      <3>1. e \in Held(x) /\ e \notin S /\ e \in AllElements
        BY <1>1, <2>2, ElementsApart DEF ListInv, ApartInv, HomeInv, TypeInv
      <3> QED BY <3>1 DEF Leaks, ListInv, AliveInv
    <2>3. ASSUME NEW e \in lost' PROVE data'[e] = Unseen
      <3>1. e \in S \/ (e \in lost /\ e \notin S /\ e \in AllElements)
        BY <1>1, <2>3 DEF ListInv, TypeInv
      <3> QED BY <3>1 DEF Leaks, ListInv, AliveInv
    <2> QED BY <2>1, <2>2, <2>3 DEF AliveInv
  <1> QED BY <1>2, <1>3, <1>4, <1>5, <1>6, <1>7 DEF ListInv

(* The elements of l and x are dealt out again between the two. *)
Exchanges(l, x) ==
  /\ UNCHANGED <<lists, free_list_, data, lost>>
  /\ \A y \in Lists \ {l, x} : active_list_'[y] = active_list_[y] /\ p_pool_'[y] = p_pool_[y]
  /\ Held(l)' \cup Held(x)' = Held(l) \cup Held(x) /\ Held(l)' \cap Held(x)' = {}
  /\ Held(l)' \subseteq Elements(p_pool_'[l]) /\ Held(x)' \subseteq Elements(p_pool_'[x])
  /\ IsInjective(active_list_'[l]) /\ IsInjective(active_list_'[x])

LEMMA ExchangeStep ==
  ASSUME ListInv, TypeInv', EmptyInv', NEW l \in Lists, NEW x \in Lists, l # x, Exchanges(l, x)
  PROVE  ListInv'
  <1>1. /\ \A y \in Lists \ {l, x} : Held(y)' = Held(y) /\ p_pool_'[y] = p_pool_[y]
        /\ Held(l)' \cup Held(x)' = Held(l) \cup Held(x) /\ Held(l)' \cap Held(x)' = {}
        /\ Held(l)' \subseteq Elements(p_pool_'[l]) /\ Held(x)' \subseteq Elements(p_pool_'[x])
        /\ free_list_' = free_list_ /\ data' = data /\ lost' = lost
    BY DEF Exchanges, Held
  <1>2. HomeInv'
    BY <1>1 DEF ListInv, HomeInv
  <1>3. OnceInv'
    <2>1. \A y \in Lists : IsInjective(active_list_'[y])
      BY DEF Exchanges, ListInv, OnceInv
    <2>2. ASSUME NEW y \in Lists \ {l, x} PROVE Held(y)' \cap Held(l)' = {} /\ Held(y)' \cap Held(x)' = {}
      BY <1>1 DEF ListInv, OnceInv
    <2>3. ASSUME NEW y \in Lists, NEW z \in Lists, y # z PROVE Held(y)' \cap Held(z)' = {}
      <3>1. CASE y \notin {l, x} /\ z \notin {l, x}
        BY <1>1, <2>3, <3>1 DEF ListInv, OnceInv
      <3> QED BY <1>1, <2>2, <2>3, <3>1
    <2> QED BY <2>1, <2>3 DEF OnceInv
  <1>4. \A y \in Lists : Held(y)' \subseteq Held(y) \cup Held(l) \cup Held(x)
    BY <1>1
  <1>5. ApartInv'
    <2>1. \A q \in Pools : free_list_'[q] \cap lost' = {}
      BY <1>1 DEF ListInv, ApartInv
    <2>2. \A y \in Lists : Held(y)' \cap lost' = {}
      BY <1>1, <1>4 DEF ListInv, ApartInv
    <2>3. \A y \in Lists : \A q \in Pools : Held(y)' \cap free_list_'[q] = {}
      BY <1>1, <1>4 DEF ListInv, ApartInv
    <2> QED BY <2>1, <2>2, <2>3 DEF ApartInv
  <1>6. CoverInv'
    <2>1. \A e : (\E y \in Lists : e \in Held(y)) => \E y \in Lists : e \in Held(y)'
      BY <1>1
    <2> QED BY <1>1, <2>1 DEF ListInv, CoverInv
  <1>7. AliveInv'
    BY <1>1, <1>4 DEF ListInv, AliveInv
  <1> QED BY <1>2, <1>3, <1>5, <1>6, <1>7 DEF ListInv

-------------------------------------------------------------------------------
(* One step after another. *)

LEMMA EmptySet == ToSet(<<>>) = {} /\ IsInjective(<<>>) /\ Len(<<>>) = 0
  BY DEF ToSet, IsInjective

LEMMA InitInv ==
  ASSUME Init
  PROVE  ListInv
  <1>1. Pools # {} /\ NoPool \in Pools
    BY PooledListAssumption DEF NoPool
  <1>2. \A l \in Lists : active_list_[l] = <<>> /\ Held(l) = {}
    BY EmptySet DEF Init, Held
  <1>3. TypeInv
    <2>1. active_list_ \in [Lists -> Seq(AllElements)] /\ p_pool_ \in [Lists -> Pools]
      BY <1>1 DEF Init
    <2>2. free_list_ \in [Pools -> SUBSET AllElements]
      BY ElementsApart DEF Init
    <2>3. data \in [AllElements -> Values \cup {Dead, Unseen}]
      BY DEF Init
    <2> QED BY <2>1, <2>2, <2>3 DEF Init, TypeInv
  <1>4. HomeInv /\ ApartInv /\ EmptyInv
    BY <1>2 DEF Init, HomeInv, ApartInv, EmptyInv
  <1>5. OnceInv
    BY <1>2, EmptySet DEF OnceInv
  <1>6. CoverInv
    BY ElementsApart DEF Init, CoverInv
  <1>7. AliveInv
    BY <1>2, ElementsApart DEF Init, AliveInv
  <1> QED BY <1>3, <1>4, <1>5, <1>6, <1>7 DEF ListInv

LEMMA OfType ==
  ASSUME ListInv, NEW l \in Lists
  PROVE  /\ Of(l) \in Seq(Values) /\ Len(Of(l)) = Len(active_list_[l])
         /\ \A i \in 1 .. Len(active_list_[l]) : Of(l)[i] = data[active_list_[l][i]]
  <1> DEFINE s == active_list_[l]
             n == Len(s)
  <1>1. s \in Seq(AllElements) /\ n \in Nat /\ DOMAIN s = 1 .. n
    BY DEF ListInv, TypeInv
  <1>2. \A i \in 1 .. n : s[i] \in Held(l)
    BY <1>1, InToSet DEF Held
  <1>3. \A i \in 1 .. n : data[s[i]] \in Values
    BY <1>2 DEF ListInv, AliveInv
  <1>4. Of(l) = [i \in 1 .. n |-> data[s[i]]]
    BY <1>1 DEF Of
  <1> HIDE DEF s, n
  <1>5. Of(l) \in [1 .. n -> Values]
    BY <1>3, <1>4
  <1> QED BY <1>1, <1>4, <1>5 DEF n, s

LEMMA InputsType ==
  ASSUME NEW vals \in Inputs
  PROVE  vals \in Seq(Values)
  BY PooledListAssumption DEF Inputs

LEMMA ConstructInv ==
  ASSUME ListInv, NEW l \in Lists, NEW p \in Pools, NEW vals \in Seq(Values), ConstructFrom(l, p, vals)
  PROVE  ListInv'
  <1>1. PICK k \in Taken(free_list_[p], Len(vals)) :
      LET s == Fresh(free_list_[p], k)
      IN  /\ threw' = (k < Len(vals))
          /\ free_list_' = [free_list_ EXCEPT ![p] = @ \ ToSet(s)]
          /\ IF threw' THEN /\ data' = Leaked(s) /\ lost' = lost \cup ToSet(s)
                            /\ UNCHANGED <<lists, active_list_, p_pool_>>
             ELSE /\ data' = Written(s, vals)
                  /\ lists' = lists \cup {l}
                  /\ active_list_' = [active_list_ EXCEPT ![l] = s]
                  /\ p_pool_' = [p_pool_ EXCEPT ![l] = p]
                  /\ UNCHANGED lost
    BY DEF ConstructFrom
  <1> DEFINE s == Fresh(free_list_[p], k)
             S == ToSet(s)
  <1>2. IsFresh(s, free_list_[p], k, Len(vals))
    <2>1. free_list_[p] \in SUBSET Elements(p) /\ Len(vals) \in Nat
      BY DEF ListInv, HomeInv
    <2> QED BY <2>1, FreshFacts, Zenon
  <1> HIDE DEF s
  <1>3. /\ s \in Seq(AllElements) /\ IsInjective(s) /\ S \subseteq free_list_[p] /\ S \subseteq AllElements
        /\ free_list_[p] \subseteq AllElements
    BY <1>2, InToSet DEF IsFresh, ListInv, TypeInv
  <1>4. l \notin lists /\ active_list_[l] = <<>> /\ Held(l) = {}
    BY EmptySet DEF ConstructFrom, ListInv, EmptyInv, Held
  <1>5. CASE threw'
    <2>1. data' = Leaked(s) /\ threw' \in BOOLEAN
      BY <1>1, <1>5 DEF s
    <2>2. /\ \A e \in S : data'[e] = Unseen
          /\ \A e \in AllElements \ S : data'[e] = data[e]
          /\ data' = [e \in AllElements |-> data'[e]]
      BY <1>3, <2>1, GoneFacts
    <2>3. data' \in [AllElements -> Values \cup {Dead, Unseen}]
      BY <2>2 DEF ListInv, TypeInv
    <2>4. Leaks(p, S)
      BY <1>1, <1>3, <1>5, <2>2, <2>3 DEF Leaks, s
    <2> QED BY <2>1, <2>4, LeakStep
  <1>6. CASE ~threw'
    <2>1. /\ data' = Written(s, vals) /\ lists' = lists \cup {l} /\ lost' = lost
          /\ active_list_' = [active_list_ EXCEPT ![l] = s] /\ p_pool_' = [p_pool_ EXCEPT ![l] = p]
          /\ free_list_' = [free_list_ EXCEPT ![p] = @ \ S]
      BY <1>1, <1>6 DEF s
    <2>0. k = Len(vals) /\ Len(s) = Len(vals)
      <3>1. ~(k < Len(vals))
        BY <1>1, <1>6, Zenon
      <3>2. k \in Nat /\ Len(vals) \in Nat /\ k <= Len(vals) /\ Len(s) = k
        BY <1>2 DEF IsFresh
      <3> QED BY <3>1, <3>2
    <2>2. /\ \A i \in 1 .. Len(s) : data'[s[i]] = vals[i]
          /\ \A e \in AllElements \ S : data'[e] = data[e]
          /\ data' = [e \in AllElements |-> data'[e]]
      BY <1>3, <2>1, WrittenFacts
    <2>3. \A e \in S : data'[e] \in Values
      <3>1. \A i \in 1 .. Len(s) : vals[i] \in Values
        BY <2>0
      <3>2. \A e \in S : \E i \in 1 .. Len(s) : s[i] = e
        BY <1>3, InToSet
      <3> QED BY <2>2, <3>1, <3>2
    <2>4. data' \in [AllElements -> Values \cup {Dead, Unseen}]
      BY <2>2, <2>3 DEF ListInv, TypeInv
    <2>5. threw' \in BOOLEAN
      <3>1. threw' = (k < Len(vals))
        BY <1>1
      <3> QED BY <3>1
    <2>6. TypeInv'
      BY <1>3, <2>1, <2>4, <2>5 DEF ListInv, TypeInv
    <2>7. EmptyInv'
      BY <2>1 DEF ListInv, TypeInv, EmptyInv
    <2>8. active_list_'[l] = s /\ p_pool_'[l] = p /\ Held(l)' = S
      BY <2>1 DEF ListInv, TypeInv, Held
    <2>9. ListChanges(l, S, {})
      <3>1. /\ \A x \in Lists \ {l} : active_list_'[x] = active_list_[x] /\ p_pool_'[x] = p_pool_[x]
            /\ \A q \in Pools : free_list_'[q] = IF q = p THEN free_list_[q] \ S ELSE free_list_[q]
        BY <2>1 DEF ListInv, TypeInv
      <3>2. \A q \in Pools : q # p => free_list_[q] \cap S = {}
        BY <1>3, ElementsApart DEF ListInv, HomeInv
      <3>3. \A q \in Pools : free_list_'[q] = (free_list_[q] \ S) \cup ({} \cap Elements(q))
        BY <3>1, <3>2
      <3> QED BY <1>3, <1>4, <2>1, <2>2, <2>3, <2>8, <3>1, <3>3 DEF ListChanges
    <2> QED BY <2>6, <2>7, <2>9, ListStep
  <1> QED BY <1>5, <1>6

Inserted(a, i, s) == SubSeq(a, 1, i) \o s \o Drop(a, i)

LEMMA InsertedSet ==
  ASSUME NEW X, NEW a \in Seq(X), NEW i \in 0 .. Len(a), NEW s \in Seq(X)
  PROVE  Joins(Inserted(a, i, s), X, a, s)
  <1> DEFINE b == SubSeq(a, 1, i)
             m == SubSeq(a, i + 1, i)
             c == Drop(a, i)
  <1>1. i \in Nat /\ Len(a) \in Nat /\ i <= Len(a) /\ i <= i
    OBVIOUS
  <1>2. /\ b \in Seq(X) /\ m \in Seq(X) /\ c \in Seq(X)
        /\ Len(b) = i /\ Len(m) = i - i /\ Len(c) = Len(a) - i
        /\ ToSet(a) = ToSet(b) \cup ToSet(m) \cup ToSet(c)
        /\ IsInjective(a) => /\ IsInjective(b) /\ IsInjective(m) /\ IsInjective(c)
                             /\ ToSet(b) \cap ToSet(m) = {} /\ ToSet(b) \cap ToSet(c) = {}
                             /\ ToSet(m) \cap ToSet(c) = {}
    BY <1>1, CutInThree
  <1>3. ToSet(m) = {}
    <2>1. m = <<>>
      BY <1>1, SubSeqEmpty
    <2> QED BY <2>1, EmptySet
  <1> HIDE DEF b, m, c
  <1>4. ToSet(a) = ToSet(b) \cup ToSet(c)
    BY <1>2, <1>3
  <1>5. /\ b \o s \in Seq(X) /\ ToSet(b \o s) = ToSet(b) \cup ToSet(s) /\ Len(b \o s) = Len(b) + Len(s)
        /\ IsInjective(b) /\ IsInjective(s) /\ ToSet(b) \cap ToSet(s) = {} => IsInjective(b \o s)
    <2>1. Joins(b \o s, X, b, s)
      BY <1>2, ConcatSets, Zenon
    <2> QED BY <2>1 DEF Joins
  <1> DEFINE bs == b \o s
  <1>6. bs \in Seq(X)
    BY <1>5
  <1> HIDE DEF bs
  <1>7. /\ bs \o c \in Seq(X) /\ ToSet(bs \o c) = ToSet(bs) \cup ToSet(c) /\ Len(bs \o c) = Len(bs) + Len(c)
        /\ IsInjective(bs) /\ IsInjective(c) /\ ToSet(bs) \cap ToSet(c) = {} => IsInjective(bs \o c)
    <2>1. Joins(bs \o c, X, bs, c)
      BY <1>2, <1>6, ConcatSets, Zenon
    <2> QED BY <2>1 DEF Joins
  <1>8. Inserted(a, i, s) = bs \o c
    BY DEF Inserted, b, c, bs
  <1>9. Len(bs \o c) = Len(a) + Len(s)
    <2>1. Len(bs) = i + Len(s) /\ Len(c) = Len(a) - i /\ Len(s) \in Nat
      BY <1>2, <1>5 DEF bs
    <2> QED BY <1>1, <1>7, <2>1
  <1>10. ToSet(bs) = ToSet(b) \cup ToSet(s)
    BY <1>5 DEF bs
  <1>11. ToSet(bs \o c) = ToSet(a) \cup ToSet(s)
    BY <1>4, <1>7, <1>10
  <1>12. ASSUME IsInjective(a), IsInjective(s), ToSet(a) \cap ToSet(s) = {} PROVE IsInjective(bs \o c)
    <2>1. IsInjective(bs)
      BY <1>2, <1>4, <1>5, <1>12 DEF bs
    <2>2. ToSet(bs) \cap ToSet(c) = {}
      BY <1>2, <1>4, <1>10, <1>12
    <2> QED BY <1>2, <1>7, <1>12, <2>1, <2>2
  <1> QED BY <1>7, <1>8, <1>9, <1>11, <1>12 DEF Joins

LEMMA ErasedSet ==
  ASSUME NEW X, NEW a \in Seq(X), IsInjective(a), NEW i \in Nat, NEW j \in Nat, i <= j, j <= Len(a)
  PROVE  LET gone == SubSeq(a, i + 1, j)
             stay == SubSeq(a, 1, i) \o Drop(a, j)
         IN  /\ gone \in Seq(X) /\ IsInjective(gone) /\ Len(gone) = j - i
             /\ stay \in Seq(X) /\ IsInjective(stay)
             /\ ToSet(gone) \cup ToSet(stay) = ToSet(a) /\ ToSet(gone) \cap ToSet(stay) = {}
  <1> DEFINE b == SubSeq(a, 1, i)
             m == SubSeq(a, i + 1, j)
             c == Drop(a, j)
  <1>1. /\ b \in Seq(X) /\ m \in Seq(X) /\ c \in Seq(X) /\ Len(m) = j - i
        /\ ToSet(a) = ToSet(b) \cup ToSet(m) \cup ToSet(c)
        /\ IsInjective(b) /\ IsInjective(m) /\ IsInjective(c)
        /\ ToSet(b) \cap ToSet(m) = {} /\ ToSet(b) \cap ToSet(c) = {} /\ ToSet(m) \cap ToSet(c) = {}
    <2>1. /\ b \in Seq(X) /\ m \in Seq(X) /\ c \in Seq(X)
          /\ Len(b) = i /\ Len(m) = j - i /\ Len(c) = Len(a) - j
          /\ ToSet(a) = ToSet(b) \cup ToSet(m) \cup ToSet(c)
          /\ IsInjective(a) => /\ IsInjective(b) /\ IsInjective(m) /\ IsInjective(c)
                               /\ ToSet(b) \cap ToSet(m) = {} /\ ToSet(b) \cap ToSet(c) = {}
                               /\ ToSet(m) \cap ToSet(c) = {}
      BY CutInThree
    <2> QED BY <2>1
  <1> HIDE DEF b, m, c
  <1>2. b \o c \in Seq(X) /\ ToSet(b \o c) = ToSet(b) \cup ToSet(c) /\ IsInjective(b \o c)
    <2>1. Joins(b \o c, X, b, c)
      BY <1>1, ConcatSets, Zenon
    <2> QED BY <1>1, <2>1 DEF Joins
  <1>3. ToSet(m) \cup ToSet(b \o c) = ToSet(a) /\ ToSet(m) \cap ToSet(b \o c) = {}
    BY <1>1, <1>2
  <1> QED BY <1>1, <1>2, <1>3 DEF b, m, c

(* insert() *)
InsertEffect(l, i, vals, k, s) ==
  /\ IsFresh(s, free_list_[p_pool_[l]], k, Len(vals))
  /\ threw' = (k < Len(vals)) /\ data' = Written(s, vals)
  /\ free_list_' = [free_list_ EXCEPT ![p_pool_[l]] = @ \ ToSet(s)]
  /\ active_list_' = [active_list_ EXCEPT ![l] = Inserted(active_list_[l], i, s)]
  /\ UNCHANGED <<lists, p_pool_, lost>>

LEMMA InsertFacts ==
  ASSUME ListInv, NEW l \in Lists, NEW i, NEW vals \in Seq(Values), InsertBefore(l, i, vals)
  PROVE  \E k, s : InsertEffect(l, i, vals, k, s)
  <1> DEFINE p == p_pool_[l]
  <1>1. PICK k \in Taken(free_list_[p], Len(vals)) :
          LET s == Fresh(free_list_[p], k)
          IN  /\ threw' = (k < Len(vals))
              /\ data' = Written(s, vals)
              /\ free_list_' = [free_list_ EXCEPT ![p] = @ \ ToSet(s)]
              /\ active_list_' = [active_list_ EXCEPT ![l] = SubSeq(@, 1, i) \o s \o Drop(@, i)]
              /\ UNCHANGED <<lists, p_pool_, lost>>
    BY DEF InsertBefore
  <1> DEFINE s == Fresh(free_list_[p], k)
  <1>2. p \in Pools
    BY DEF ListInv, TypeInv
  <1>3. free_list_[p] \in SUBSET Elements(p) /\ Len(vals) \in Nat
    BY <1>2 DEF ListInv, HomeInv
  <1>4. IsFresh(s, free_list_[p], k, Len(vals))
    BY <1>2, <1>3, FreshFacts, Zenon
  <1>5. InsertEffect(l, i, vals, k, s)
    BY <1>1, <1>4 DEF InsertEffect, Inserted
  <1> QED BY <1>5

(* What Written() leaves in elements that were free. *)
Holds(d, s, vals) ==
  /\ d \in [AllElements -> Values \cup {Dead, Unseen}]
  /\ \A e \in ToSet(s) : d[e] \in Values
  /\ \A e \in AllElements \ ToSet(s) : d[e] = data[e]
  /\ \A i \in 1 .. Len(s) : d[s[i]] = vals[i]

LEMMA FreshData ==
  ASSUME ListInv, NEW s, NEW k, NEW vals \in Seq(Values), NEW free, IsFresh(s, free, k, Len(vals))
  PROVE  Holds(Written(s, vals), s, vals)
  <1>1. s \in Seq(AllElements) /\ IsInjective(s) /\ Len(s) = k /\ k \in Nat /\ k <= Len(vals)
    BY DEF IsFresh
  <1>2. /\ \A i \in 1 .. k : Written(s, vals)[s[i]] = vals[i]
        /\ \A e \in AllElements \ ToSet(s) : Written(s, vals)[e] = data[e]
        /\ Written(s, vals) = [e \in AllElements |-> Written(s, vals)[e]]
    BY <1>1, WrittenFacts
  <1>3. \A i \in 1 .. k : vals[i] \in Values
    BY <1>1
  <1>4. \A e \in ToSet(s) : \E i \in 1 .. k : s[i] = e
    BY <1>1, InToSet
  <1>5. ASSUME NEW e \in ToSet(s) PROVE Written(s, vals)[e] \in Values
    <2>1. PICK i \in 1 .. k : s[i] = e
      BY <1>4
    <2>2. Written(s, vals)[s[i]] = vals[i]
      BY <1>2, Zenon
    <2> QED BY <1>3, <2>1, <2>2, Zenon
  <1>6. \A e \in AllElements : Written(s, vals)[e] \in Values \cup {Dead, Unseen}
    BY <1>2, <1>5 DEF ListInv, TypeInv
  <1> QED BY <1>1, <1>2, <1>5, <1>6 DEF Holds

LEMMA InsertInv ==
  ASSUME ListInv, NEW l \in Lists, l \in lists, NEW i \in Places(l), NEW vals \in Seq(Values),
         InsertBefore(l, i, vals)
  PROVE  ListInv'
  <1> DEFINE p == p_pool_[l]
             a == active_list_[l]
  <1>1. PICK k, s : InsertEffect(l, i, vals, k, s)
    BY InsertFacts
  <1> DEFINE S == ToSet(s)
  <1>2. /\ p \in Pools /\ a \in Seq(AllElements) /\ IsInjective(a) /\ i \in 0 .. Len(a)
        /\ free_list_[p] \in SUBSET AllElements
    BY DEF ListInv, TypeInv, OnceInv, Places
  <1>3. IsFresh(s, free_list_[p], k, Len(vals))
    BY <1>1 DEF InsertEffect
  <1>4. s \in Seq(AllElements) /\ IsInjective(s) /\ S \subseteq free_list_[p]
    BY <1>3 DEF IsFresh
  <1>5. ToSet(a) \cap S = {} /\ ToSet(a) = Held(l)
    BY <1>2, <1>4 DEF ListInv, ApartInv, Held
  <1> DEFINE r == Inserted(a, i, s)
  <1> HIDE DEF a, S
  <1>6. r \in Seq(AllElements) /\ IsInjective(r) /\ ToSet(r) = ToSet(a) \cup S
    <2>1. Joins(r, AllElements, a, s)
      BY <1>2, <1>4, InsertedSet, Zenon
    <2> QED BY <1>2, <1>4, <1>5, <2>1 DEF Joins, S
  <1> HIDE DEF r
  <1>7. /\ active_list_' = [active_list_ EXCEPT ![l] = r] /\ data' = Written(s, vals)
        /\ free_list_' = [free_list_ EXCEPT ![p] = @ \ S] /\ threw' = (k < Len(vals))
        /\ lists' = lists /\ p_pool_' = p_pool_ /\ lost' = lost
    BY <1>1 DEF InsertEffect, r, a, S
  <1>8. /\ data' \in [AllElements -> Values \cup {Dead, Unseen}]
        /\ \A e \in S : data'[e] \in Values
        /\ \A e \in AllElements \ S : data'[e] = data[e]
    <2>1. Holds(data', s, vals)
      BY <1>3, <1>7, FreshData, Zenon
    <2> QED BY <2>1 DEF Holds, S
  <1>9. threw' \in BOOLEAN
    BY <1>7
  <1>10. TypeInv' /\ EmptyInv'
    BY <1>2, <1>6, <1>7, <1>8, <1>9 DEF ListInv, TypeInv, EmptyInv
  <1>11. /\ active_list_'[l] = r /\ Held(l)' = Held(l) \cup S
         /\ \A x \in Lists \ {l} : active_list_'[x] = active_list_[x]
         /\ \A q \in Pools : free_list_'[q] = IF q = p THEN free_list_[q] \ S ELSE free_list_[q]
    BY <1>5, <1>6, <1>7 DEF ListInv, TypeInv, Held
  <1>12. \A q \in Pools : q # p => free_list_[q] \cap S = {}
    BY <1>2, <1>4, ElementsApart DEF ListInv, HomeInv
  <1>13. ListChanges(l, S, {})
    <2>1. \A q \in Pools : free_list_'[q] = (free_list_[q] \ S) \cup ({} \cap Elements(q))
      BY <1>11, <1>12
    <2>2. \A e \in Held(l) : data'[e] \in Values
      BY <1>5, <1>8, <1>2, InToSet DEF ListInv, AliveInv
    <2>3. Held(l) \subseteq Elements(p)
      BY DEF ListInv, HomeInv
    <2> QED BY <1>4, <1>6, <1>7, <1>8, <1>11, <2>1, <2>2, <2>3 DEF ListChanges
  <1> QED BY <1>10, <1>13, ListStep

(* l is parted into what goes and what stays. *)
Parted(l, gone, stay) ==
  /\ gone \in Seq(AllElements) /\ IsInjective(gone)
  /\ stay \in Seq(AllElements) /\ IsInjective(stay)
  /\ ToSet(gone) \cup ToSet(stay) = Held(l) /\ ToSet(gone) \cap ToSet(stay) = {}

LEMMA EraseInv ==
  ASSUME ListInv, NEW l \in Lists, NEW gone, NEW stay, Parted(l, gone, stay), EraseAll(l, gone, stay),
         lists' \subseteq Lists, EmptyInv', p_pool_' \in [Lists -> Pools],
         \A x \in Lists \ {l} : p_pool_'[x] = p_pool_[x],
         p_pool_'[l] = p_pool_[l] \/ ToSet(stay) = {}
  PROVE  ListInv'
  <1> DEFINE p == p_pool_[l]
             S == ToSet(gone)
             R == ToSet(stay)
  <1>1. p \in Pools /\ Held(l) \subseteq Elements(p)
    BY DEF ListInv, TypeInv, HomeInv
  <1>2. /\ gone \in Seq(AllElements) /\ stay \in Seq(AllElements) /\ IsInjective(stay)
        /\ S \cup R = Held(l) /\ S \cap R = {}
    BY DEF Parted
  <1>3. /\ threw' = FALSE /\ data' = Destructed(gone) /\ lost' = lost
        /\ free_list_' = [free_list_ EXCEPT ![p] = @ \cup S]
        /\ active_list_' = [active_list_ EXCEPT ![l] = stay]
    BY DEF EraseAll
  <1>4. S \subseteq AllElements
    BY <1>2, InToSet
  <1>5. /\ \A e \in S : data'[e] = Dead
        /\ \A e \in AllElements \ S : data'[e] = data[e]
        /\ data' = [e \in AllElements |-> data'[e]]
    BY <1>2, <1>3, GoneFacts
  <1>6. data' \in [AllElements -> Values \cup {Dead, Unseen}]
    BY <1>5 DEF ListInv, TypeInv
  <1>7. /\ active_list_'[l] = stay /\ Held(l)' = R
        /\ \A x \in Lists \ {l} : active_list_'[x] = active_list_[x]
        /\ \A q \in Pools : free_list_'[q] = IF q = p THEN free_list_[q] \cup S ELSE free_list_[q]
    BY <1>3 DEF ListInv, TypeInv, Held
  <1>8. TypeInv'
    <2>1. active_list_' \in [Lists -> Seq(AllElements)]
      BY <1>2, <1>3 DEF ListInv, TypeInv
    <2>2. free_list_' \in [Pools -> SUBSET AllElements]
      BY <1>3, <1>4 DEF ListInv, TypeInv
    <2> QED BY <1>3, <1>6, <2>1, <2>2 DEF ListInv, TypeInv
  <1>9. ListChanges(l, {}, S)
    <2>1. \A q \in Pools : free_list_'[q] = (free_list_[q] \ {}) \cup (S \cap Elements(q))
      <3>1. S \cap Elements(p) = S /\ \A q \in Pools : q # p => S \cap Elements(q) = {}
        BY <1>1, <1>2, ElementsApart
      <3> QED BY <1>7, <3>1
    <2>2. \A e \in R : data'[e] \in Values
      <3>1. \A e \in R : data[e] \in Values /\ e \in AllElements \ S
        BY <1>2, InToSet DEF ListInv, AliveInv
      <3> QED BY <1>5, <3>1
    <2>3. Held(l) \ S = R
      BY <1>2
    <2>4. R \subseteq Elements(p_pool_'[l])
      BY <1>1, <1>2
    <2>5. \A e \in AllElements \ ({} \cup Held(l)) : data'[e] = data[e]
      BY <1>2, <1>5
    <2>6. S \subseteq Held(l) /\ R = (Held(l) \ S) \cup {}
      BY <1>2
    <2> HIDE DEF S, R
    <2> QED BY <1>2, <1>3, <1>5, <1>7, <2>1, <2>2, <2>3, <2>4, <2>5, <2>6 DEF ListChanges
  <1> QED BY <1>8, <1>9, ListStep

(* Where the lists and their pools stay, the other conditions hold. *)
LEMMA EraseInvSame ==
  ASSUME ListInv, NEW l \in Lists, l \in lists, NEW gone, NEW stay, Parted(l, gone, stay),
         EraseAll(l, gone, stay), UNCHANGED <<lists, p_pool_>>
  PROVE  ListInv'
  <1>1. EmptyInv'
    BY DEF EraseAll, ListInv, TypeInv, EmptyInv
  <1>2. lists' \subseteq Lists /\ p_pool_' \in [Lists -> Pools] /\ p_pool_' = p_pool_
    BY DEF ListInv, TypeInv
  <1> QED BY <1>1, <1>2, EraseInv

LEMMA EraseFromParts ==
  ASSUME ListInv, NEW l \in Lists, NEW i \in Places(l), NEW j \in Places(l), i <= j
  PROVE  Parted(l, SubSeq(active_list_[l], i + 1, j), SubSeq(active_list_[l], 1, i) \o Drop(active_list_[l], j))
  <1> DEFINE a == active_list_[l]
             gone == SubSeq(a, i + 1, j)
             stay == SubSeq(a, 1, i) \o Drop(a, j)
  <1>1. a \in Seq(AllElements) /\ IsInjective(a) /\ i \in Nat /\ j \in Nat /\ j <= Len(a)
    BY DEF ListInv, TypeInv, OnceInv, Places
  <1>2. /\ gone \in Seq(AllElements) /\ IsInjective(gone) /\ Len(gone) = j - i
        /\ stay \in Seq(AllElements) /\ IsInjective(stay)
        /\ ToSet(gone) \cup ToSet(stay) = ToSet(a) /\ ToSet(gone) \cap ToSet(stay) = {}
    <2> HIDE DEF a
    <2> QED BY <1>1, ErasedSet
  <1> QED BY <1>2 DEF Parted, Held

LEMMA SelectParts ==
  ASSUME ListInv, NEW l \in Lists, NEW T
  PROVE  Parted(l, Select(active_list_[l], T), Select(active_list_[l], AllElements \ T))
  <1> DEFINE a == active_list_[l]
  <1>1. a \in Seq(AllElements) /\ IsInjective(a)
    BY DEF ListInv, TypeInv, OnceInv
  <1>2. /\ Select(a, T) \in Seq(AllElements) /\ IsInjective(Select(a, T))
        /\ ToSet(Select(a, T)) = ToSet(a) \cap T
    BY <1>1, SelectSet
  <1>3. /\ Select(a, AllElements \ T) \in Seq(AllElements) /\ IsInjective(Select(a, AllElements \ T))
        /\ ToSet(Select(a, AllElements \ T)) = ToSet(a) \cap (AllElements \ T)
    BY <1>1, SelectSet
  <1>4. ToSet(a) \subseteq AllElements
    BY <1>1, InToSet
  <1> QED BY <1>2, <1>3, <1>4 DEF Parted, Held

LEMMA KeptParts ==
  ASSUME ListInv, NEW l \in Lists
  PROVE  Parted(l, Select(active_list_[l], AllElements \ ToSet(Kept(l))), Kept(l))
  <1> DEFINE a == active_list_[l]
             T == AllElements \ ToSet(Kept(l))
  <1>1. a \in Seq(AllElements) /\ IsInjective(a)
    BY DEF ListInv, TypeInv, OnceInv
  <1>2. /\ Select(a, T) \in Seq(AllElements) /\ IsInjective(Select(a, T))
        /\ ToSet(Select(a, T)) = ToSet(a) \cap T
    BY <1>1, SelectSet
  <1>3. Kept(l) \in Seq(AllElements) /\ IsInjective(Kept(l)) /\ ToSet(Kept(l)) \subseteq ToSet(a)
    BY <1>1, KeptSet
  <1>4. ToSet(a) \subseteq AllElements
    BY <1>1, InToSet
  <1> QED BY <1>2, <1>3, <1>4 DEF Parted, Held

LEMMA DestroyInv ==
  ASSUME ListInv, NEW l \in Lists, Destroy(l)
  PROVE  ListInv'
  <1> DEFINE a == active_list_[l]
  <1>1. a \in Seq(AllElements) /\ IsInjective(a)
    BY DEF ListInv, TypeInv, OnceInv
  <1>2. Parted(l, a, <<>>)
    BY <1>1, EmptySet DEF Parted, Held
  <1>3. EraseAll(l, a, <<>>) /\ lists' = lists \ {l} /\ p_pool_' = [p_pool_ EXCEPT ![l] = NoPool]
    BY DEF Destroy
  <1>4. NoPool \in Pools
    BY PooledListAssumption DEF NoPool
  <1>5. p_pool_' \in [Lists -> Pools] /\ \A x \in Lists \ {l} : p_pool_'[x] = p_pool_[x]
    BY <1>3, <1>4 DEF ListInv, TypeInv
  <1>6. EmptyInv' /\ lists' \subseteq Lists
    BY <1>3 DEF ListInv, TypeInv, EmptyInv, EraseAll
  <1> QED BY <1>2, <1>3, <1>5, <1>6, EmptySet, EraseInv

(* assign() *)
AssignEffect(l, vals, k, s) ==
  LET p    == p_pool_[l]
      free == free_list_[p] \cup Held(l)
  IN  /\ IsFresh(s, free, k, Len(vals)) /\ threw' = (k < Len(vals))
      /\ data' = [e \in AllElements |-> IF Contains(s, e) THEN Written(s, vals)[e]
                                        ELSE Destructed(active_list_[l])[e]]
      /\ free_list_' = [free_list_ EXCEPT ![p] = free \ ToSet(s)]
      /\ active_list_' = [active_list_ EXCEPT ![l] = s]
      /\ UNCHANGED <<lists, p_pool_, lost>>

LEMMA AssignFacts ==
  ASSUME ListInv, NEW l \in Lists, NEW vals \in Seq(Values), assign(l, vals)
  PROVE  \E k, s : AssignEffect(l, vals, k, s)
  <1> DEFINE p    == p_pool_[l]
             free == free_list_[p] \cup ToSet(active_list_[l])
  <1>1. PICK k \in Taken(free, Len(vals)) :
            LET s == Fresh(free, k)
            IN  /\ threw' = (k < Len(vals))
                /\ data' = [e \in AllElements |-> IF Contains(s, e) THEN Written(s, vals)[e]
                                                  ELSE Destructed(active_list_[l])[e]]
                /\ free_list_' = [free_list_ EXCEPT ![p] = free \ ToSet(s)]
                /\ active_list_' = [active_list_ EXCEPT ![l] = s]
    BY DEF assign
  <1> DEFINE s == Fresh(free, k)
  <1>2. p \in Pools
    BY DEF ListInv, TypeInv
  <1>3. free \in SUBSET Elements(p) /\ Len(vals) \in Nat
    BY <1>2 DEF ListInv, HomeInv, Held
  <1>4. IsFresh(s, free, k, Len(vals))
    <2> HIDE DEF free
    <2> QED BY <1>2, <1>3, FreshFacts, Zenon
  <1>5. UNCHANGED <<lists, p_pool_, lost>>
    BY DEF assign
  <1>6. AssignEffect(l, vals, k, s)
    BY <1>1, <1>4, <1>5 DEF AssignEffect, Held
  <1> QED BY <1>6

(* What is in the elements after an assign(). *)
LEMMA AssignData ==
  ASSUME ListInv, NEW l \in Lists, NEW vals \in Seq(Values), NEW k, NEW s, AssignEffect(l, vals, k, s)
  PROVE  /\ s \in Seq(AllElements) /\ Len(s) = k /\ k \in Nat /\ k <= Len(vals) /\ ToSet(s) \subseteq AllElements
         /\ data' \in [AllElements -> Values \cup {Dead, Unseen}]
         /\ \A e \in ToSet(s) : data'[e] \in Values
         /\ \A e \in Held(l) \ ToSet(s) : data'[e] = Dead
         /\ \A e \in AllElements \ (ToSet(s) \cup Held(l)) : data'[e] = data[e]
         /\ \A i \in 1 .. k : data'[s[i]] = vals[i]
  <1> DEFINE free == free_list_[p_pool_[l]] \cup Held(l)
             a == active_list_[l]
             d == Destructed(a)
             w == Written(s, vals)
  <1>1. IsFresh(s, free, k, Len(vals))
    BY DEF AssignEffect
  <1>2. s \in Seq(AllElements) /\ Len(s) = k /\ k \in Nat /\ k <= Len(vals) /\ ToSet(s) \subseteq AllElements
    BY <1>1, InToSet DEF IsFresh
  <1>3. Holds(w, s, vals)
    <2> HIDE DEF free
    <2> QED BY <1>1, FreshData, Zenon
  <1>4. /\ \A e \in AllElements : data'[e] = IF e \in ToSet(s) THEN w[e] ELSE d[e]
        /\ data' = [e \in AllElements |-> data'[e]]
    <2>1. \A e : Contains(s, e) <=> e \in ToSet(s)
      BY <1>2, InToSet
    <2>2. data' = [e \in AllElements |-> IF Contains(s, e) THEN w[e] ELSE d[e]]
      BY DEF AssignEffect
    <2> HIDE DEF w, d
    <2> QED BY <2>1, <2>2
  <1>5. /\ \A e \in Held(l) : d[e] = Dead
        /\ \A e \in AllElements \ Held(l) : d[e] = data[e]
        /\ Held(l) \subseteq AllElements
    <2>1. a \in Seq(AllElements)
      BY DEF ListInv, TypeInv
    <2> QED BY <2>1, GoneFacts, InToSet DEF Held
  <1> HIDE DEF w, d
  <1>6. \A e \in ToSet(s) : data'[e] \in Values
    BY <1>2, <1>3, <1>4 DEF Holds
  <1>7. \A e \in Held(l) \ ToSet(s) : data'[e] = Dead
    BY <1>4, <1>5
  <1>8. \A e \in AllElements \ (ToSet(s) \cup Held(l)) : data'[e] = data[e]
    BY <1>4, <1>5
  <1>9. data' \in [AllElements -> Values \cup {Dead, Unseen}]
    <2>1. ASSUME NEW e \in AllElements PROVE data'[e] \in Values \cup {Dead, Unseen}
      BY <1>6, <1>7, <1>8 DEF ListInv, TypeInv
    <2> QED BY <1>4, <2>1
  <1>10. \A i \in 1 .. k : data'[s[i]] = vals[i]
    <2>1. \A i \in 1 .. k : s[i] \in ToSet(s) /\ s[i] \in AllElements
      BY <1>2, InToSet
    <2> QED BY <1>2, <1>3, <1>4, <2>1 DEF Holds
  <1> QED BY <1>2, <1>6, <1>7, <1>8, <1>9, <1>10

LEMMA AssignInv ==
  ASSUME ListInv, NEW l \in Lists, l \in lists, NEW vals \in Seq(Values), assign(l, vals)
  PROVE  ListInv'
  <1> DEFINE p == p_pool_[l]
  <1>1. PICK k, s : AssignEffect(l, vals, k, s)
    BY AssignFacts
  <1> DEFINE S == ToSet(s)
             In == S \ Held(l)
             Out == Held(l) \ S
  <1>2. /\ s \in Seq(AllElements) /\ S \subseteq AllElements
        /\ data' \in [AllElements -> Values \cup {Dead, Unseen}]
        /\ \A e \in S : data'[e] \in Values
        /\ \A e \in Out : data'[e] = Dead
        /\ \A e \in AllElements \ (S \cup Held(l)) : data'[e] = data[e]
    BY <1>1, AssignData
  <1>3. /\ IsInjective(s) /\ S \subseteq free_list_[p] \cup Held(l)
        /\ free_list_' = [free_list_ EXCEPT ![p] = (free_list_[p] \cup Held(l)) \ S]
        /\ active_list_' = [active_list_ EXCEPT ![l] = s]
        /\ lists' = lists /\ p_pool_' = p_pool_ /\ lost' = lost /\ threw' = (k < Len(vals))
    BY <1>1 DEF AssignEffect, IsFresh
  <1>4. p \in Pools /\ Held(l) \subseteq Elements(p) /\ Held(l) \subseteq AllElements
        /\ free_list_[p] \subseteq Elements(p) /\ free_list_[p] \cap Held(l) = {}
    BY ElementsApart DEF ListInv, TypeInv, HomeInv, ApartInv
  <1> HIDE DEF S
  <1>5. threw' \in BOOLEAN
    BY <1>3
  <1>6. TypeInv' /\ EmptyInv'
    <2>1. active_list_' \in [Lists -> Seq(AllElements)]
      BY <1>2, <1>3 DEF ListInv, TypeInv
    <2>2. free_list_' \in [Pools -> SUBSET AllElements]
      BY <1>3, <1>4 DEF ListInv, TypeInv
    <2> QED BY <1>2, <1>3, <1>5, <2>1, <2>2 DEF ListInv, TypeInv, EmptyInv
  <1>7. /\ active_list_'[l] = s /\ Held(l)' = S
        /\ \A x \in Lists \ {l} : active_list_'[x] = active_list_[x]
        /\ \A q \in Pools : free_list_'[q] = IF q = p THEN (free_list_[q] \cup Held(l)) \ S ELSE free_list_[q]
    BY <1>3 DEF ListInv, TypeInv, Held, S
  <1>8. ListChanges(l, In, Out)
    <2>1. \A q \in Pools : q # p => free_list_[q] \cap Elements(p) = {} /\ Elements(q) \cap Elements(p) = {}
      BY <1>4, ElementsApart DEF ListInv, HomeInv
    <2>2. ASSUME NEW q \in Pools PROVE free_list_'[q] = (free_list_[q] \ In) \cup (Out \cap Elements(q))
      <3>1. CASE q = p
        BY <1>3, <1>4, <1>7, <3>1
      <3>2. CASE q # p
        BY <1>3, <1>4, <1>7, <2>1, <3>2
      <3> QED BY <3>1, <3>2
    <2>3. S = (Held(l) \ Out) \cup In /\ Held(l) \ Out \subseteq Elements(p) /\ In \subseteq free_list_[p]
      BY <1>3, <1>4
    <2>4. \A e \in AllElements \ (In \cup Held(l)) : data'[e] = data[e]
      BY <1>2
    <2>5. Out \subseteq Held(l)
      OBVIOUS
    <2> HIDE DEF In, Out
    <2> QED BY <1>2, <1>3, <1>7, <2>2, <2>3, <2>4, <2>5 DEF ListChanges
  <1> QED BY <1>6, <1>8, ListStep

(* The elements of l in another order. *)
LEMMA ReorderInv ==
  ASSUME ListInv, NEW l \in Lists, l \in lists, NEW r \in Seq(AllElements), IsInjective(r), ToSet(r) = Held(l),
         Rearranged, active_list_' = [active_list_ EXCEPT ![l] = r], UNCHANGED p_pool_
  PROVE  ListInv'
  <1>1. /\ threw' = FALSE /\ lists' = lists /\ free_list_' = free_list_ /\ data' = data /\ lost' = lost
        /\ p_pool_' = p_pool_
    BY DEF Rearranged
  <1>2. TypeInv' /\ EmptyInv'
    BY <1>1 DEF ListInv, TypeInv, EmptyInv
  <1>3. /\ active_list_'[l] = r /\ Held(l)' = Held(l)
        /\ \A x \in Lists \ {l} : active_list_'[x] = active_list_[x]
    BY DEF ListInv, TypeInv, Held
  <1>4. ListChanges(l, {}, {})
    BY <1>1, <1>3 DEF ListChanges, ListInv, HomeInv, AliveInv
  <1> QED BY <1>2, <1>4, ListStep

LEMMA ReverseInv ==
  ASSUME ListInv, NEW l \in Lists, l \in lists, reverse(l)
  PROVE  ListInv'
  <1> DEFINE a == active_list_[l]
             r == Reverse(a)
  <1>1. a \in Seq(AllElements) /\ IsInjective(a)
    BY DEF ListInv, TypeInv, OnceInv
  <1>2. r \in Seq(AllElements) /\ IsInjective(r) /\ ToSet(r) = Held(l)
    BY <1>1, ReverseSet DEF Held
  <1>3. Rearranged /\ active_list_' = [active_list_ EXCEPT ![l] = r] /\ UNCHANGED p_pool_
    BY DEF reverse
  <1> QED BY <1>2, <1>3, ReorderInv

LEMMA SortInv ==
  ASSUME ListInv, NEW l \in Lists, l \in lists, sort(l)
  PROVE  ListInv'
  <1> DEFINE a == active_list_[l]
  <1>1. a \in Seq(AllElements) /\ IsInjective(a)
    BY DEF ListInv, TypeInv, OnceInv
  <1>2. PICK p \in Bijection(DOMAIN a, DOMAIN a) :
          active_list_' = [active_list_ EXCEPT ![l] = [i \in DOMAIN a |-> a[p[i]]]]
    BY DEF sort
  <1> DEFINE r == [i \in DOMAIN a |-> a[p[i]]]
  <1>3. r \in Seq(AllElements) /\ IsInjective(r) /\ ToSet(r) = Held(l)
    BY <1>1, PermutedSet DEF Held
  <1>4. Rearranged /\ UNCHANGED p_pool_
    BY DEF sort
  <1> HIDE DEF r
  <1>5. active_list_' = [active_list_ EXCEPT ![l] = r]
    BY <1>2 DEF r
  <1> QED BY <1>3, <1>4, <1>5, ReorderInv

(* merge() and splice(): all of x moves to l, which is then r. *)
LEMMA MoveInv ==
  ASSUME ListInv, NEW l \in Lists, l \in lists, NEW x \in Lists, l # x, p_pool_[l] = p_pool_[x], Rearranged,
         NEW r \in Seq(AllElements), IsInjective(r), ToSet(r) = Held(l) \cup Held(x),
         active_list_' = [active_list_ EXCEPT ![l] = r, ![x] = <<>>], UNCHANGED p_pool_
  PROVE  ListInv'
  <1>1. /\ threw' = FALSE /\ lists' = lists /\ free_list_' = free_list_ /\ data' = data /\ lost' = lost
        /\ p_pool_' = p_pool_
    BY DEF Rearranged
  <1>2. /\ active_list_'[l] = r /\ active_list_'[x] = <<>>
        /\ \A y \in Lists \ {l, x} : active_list_'[y] = active_list_[y]
    BY DEF ListInv, TypeInv
  <1>3. TypeInv'
    <2>1. <<>> \in Seq(AllElements)
      OBVIOUS
    <2>2. active_list_' \in [Lists -> Seq(AllElements)]
      BY <2>1 DEF ListInv, TypeInv
    <2> QED BY <1>1, <2>2 DEF ListInv, TypeInv
  <1>4. EmptyInv'
    <2>1. \A y \in Lists \ lists : y # l
      OBVIOUS
    <2> QED BY <1>1, <1>2, <2>1 DEF ListInv, EmptyInv
  <1>5. Held(l)' = Held(l) \cup Held(x) /\ Held(x)' = {}
    BY <1>2, EmptySet DEF Held
  <1>6. Held(l) \cup Held(x) \subseteq Elements(p_pool_'[l])
    BY <1>1 DEF ListInv, HomeInv
  <1>7. Exchanges(l, x)
    BY <1>1, <1>2, <1>5, <1>6, EmptySet DEF Exchanges
  <1> QED BY <1>3, <1>4, <1>7, ExchangeStep

LEMMA MergeInv ==
  ASSUME ListInv, NEW l \in Lists, l \in lists, NEW x \in Lists, merge(l, x)
  PROVE  ListInv'
  <1> DEFINE a == active_list_[l]
             b == active_list_[x]
             r == Merged(a, b)
  <1>0. Rearranged /\ UNCHANGED p_pool_ /\ p_pool_[l] = p_pool_[x]
    BY DEF merge
  <1>1. a \in Seq(AllElements) /\ IsInjective(a) /\ b \in Seq(AllElements) /\ IsInjective(b)
    BY DEF ListInv, TypeInv, OnceInv
  <1>2. CASE l = x
    <2>1. active_list_' = [active_list_ EXCEPT ![l] = a]
      BY <1>2 DEF merge, ListInv, TypeInv
    <2>2. ToSet(a) = Held(l)
      BY DEF Held
    <2> QED BY <1>0, <1>1, <2>1, <2>2, ReorderInv
  <1>3. CASE l # x
    <2>1. ToSet(a) = Held(l) /\ ToSet(b) = Held(x) /\ ToSet(a) \cap ToSet(b) = {}
      BY <1>3 DEF Held, ListInv, OnceInv
    <2>2. active_list_' = [active_list_ EXCEPT ![l] = r, ![x] = <<>>]
      BY <1>3 DEF merge
    <2>3. r \in Seq(AllElements) /\ IsInjective(r) /\ ToSet(r) = Held(l) \cup Held(x)
      <3> HIDE DEF a, b
      <3> QED BY <1>1, <2>1, MergedSet
    <2> HIDE DEF r
    <2> QED BY <1>0, <1>3, <2>2, <2>3, MoveInv
  <1> QED BY <1>2, <1>3

LEMMA SpliceInv ==
  ASSUME ListInv, NEW l \in Lists, l \in lists, NEW x \in Lists, NEW i \in Places(l), splice(l, i, x)
  PROVE  ListInv'
  <1> DEFINE a == active_list_[l]
             b == active_list_[x]
             r == Inserted(a, i, b)
  <1>0. Rearranged /\ UNCHANGED p_pool_ /\ p_pool_[l] = p_pool_[x] /\ l # x
    BY DEF splice
  <1>1. /\ a \in Seq(AllElements) /\ IsInjective(a) /\ b \in Seq(AllElements) /\ IsInjective(b)
        /\ i \in 0 .. Len(a)
    BY DEF ListInv, TypeInv, OnceInv, Places
  <1>2. ToSet(a) = Held(l) /\ ToSet(b) = Held(x) /\ ToSet(a) \cap ToSet(b) = {}
    BY <1>0 DEF Held, ListInv, OnceInv
  <1>3. active_list_' = [active_list_ EXCEPT ![l] = r, ![x] = <<>>]
    BY DEF splice, Inserted
  <1>4. r \in Seq(AllElements) /\ IsInjective(r) /\ ToSet(r) = Held(l) \cup Held(x)
    <2> HIDE DEF a, b
    <2>1. Joins(r, AllElements, a, b)
      BY <1>1, InsertedSet, Zenon
    <2> QED BY <1>1, <1>2, <2>1 DEF Joins
  <1> HIDE DEF r
  <1> QED BY <1>0, <1>3, <1>4, MoveInv

LEMMA SwapInv ==
  ASSUME ListInv, NEW l \in Lists, l \in lists, NEW x \in Lists, x \in lists, swap(l, x)
  PROVE  ListInv'
  <1>1. /\ threw' = FALSE /\ lists' = lists /\ free_list_' = free_list_ /\ data' = data /\ lost' = lost
        /\ active_list_' = [active_list_ EXCEPT ![l] = active_list_[x], ![x] = active_list_[l]]
        /\ p_pool_' = [p_pool_ EXCEPT ![l] = p_pool_[x], ![x] = p_pool_[l]]
    BY DEF Rearranged, swap
  <1>2. /\ active_list_'[l] = active_list_[x] /\ active_list_'[x] = active_list_[l]
        /\ p_pool_'[l] = p_pool_[x] /\ p_pool_'[x] = p_pool_[l]
        /\ \A y \in Lists \ {l, x} : active_list_'[y] = active_list_[y] /\ p_pool_'[y] = p_pool_[y]
    BY <1>1 DEF ListInv, TypeInv
  <1>3. TypeInv'
    BY <1>1 DEF ListInv, TypeInv
  <1>4. EmptyInv'
    BY <1>1, <1>2 DEF ListInv, EmptyInv
  <1>5. Held(l)' = Held(x) /\ Held(x)' = Held(l)
    BY <1>2 DEF Held
  <1>6. CASE l = x
    <2>1. active_list_' = [active_list_ EXCEPT ![l] = active_list_[l]] /\ UNCHANGED p_pool_
      BY <1>1, <1>6 DEF ListInv, TypeInv
    <2>2. /\ active_list_[l] \in Seq(AllElements) /\ IsInjective(active_list_[l])
          /\ ToSet(active_list_[l]) = Held(l) /\ Rearranged
      BY DEF ListInv, TypeInv, OnceInv, Held, swap
    <2> QED BY <2>1, <2>2, ReorderInv
  <1>7. CASE l # x
    <2>1. Exchanges(l, x)
      BY <1>1, <1>2, <1>5, <1>7 DEF Exchanges, ListInv, OnceInv, HomeInv
    <2> QED BY <1>3, <1>4, <1>7, <2>1, ExchangeStep
  <1> QED BY <1>6, <1>7

(* operator=: a copy of x takes s, and unless it threw l gives back what it held. *)
CopyEffect(l, x, k, s) ==
  LET p    == p_pool_[x]
      n    == Len(active_list_[x])
      rest == [free_list_ EXCEPT ![p] = @ \ ToSet(s)]
  IN  /\ IsFresh(s, free_list_[p], k, n) /\ threw' = (k < n) /\ UNCHANGED lists
      /\ \/ /\ k < n /\ data' = Leaked(s) /\ lost' = lost \cup ToSet(s)
            /\ free_list_' = rest /\ UNCHANGED <<active_list_, p_pool_>>
         \/ /\ k = n /\ UNCHANGED lost
            /\ data' = [e \in AllElements |->
                          IF Contains(active_list_[l], e) THEN Dead ELSE Written(s, Of(x))[e]]
            /\ free_list_' = [rest EXCEPT ![p_pool_[l]] = @ \cup Held(l)]
            /\ active_list_' = [active_list_ EXCEPT ![l] = s]
            /\ p_pool_' = [p_pool_ EXCEPT ![l] = p]

LEMMA CopyFacts ==
  ASSUME ListInv, NEW l \in Lists, NEW x \in Lists, CopyFrom(l, x)
  PROVE  \E k, s : CopyEffect(l, x, k, s)
  <1> DEFINE p == p_pool_[x]
             n == Len(active_list_[x])
  <1>1. PICK k \in Taken(free_list_[p], n) :
           LET s    == Fresh(free_list_[p], k)
               rest == [free_list_ EXCEPT ![p] = @ \ ToSet(s)]
           IN  /\ threw' = (k < n)
               /\ IF k < n
                  THEN /\ data' = Leaked(s) /\ lost' = lost \cup ToSet(s)
                       /\ free_list_' = rest
                       /\ UNCHANGED <<active_list_, p_pool_>>
                  ELSE /\ data' = [e \in AllElements |->
                                     IF Contains(active_list_[l], e) THEN Dead ELSE Written(s, Of(x))[e]]
                       /\ free_list_' = [rest EXCEPT ![p_pool_[l]] = @ \cup ToSet(active_list_[l])]
                       /\ active_list_' = [active_list_ EXCEPT ![l] = s]
                       /\ p_pool_' = [p_pool_ EXCEPT ![l] = p]
                       /\ UNCHANGED lost
    BY DEF CopyFrom
  <1> DEFINE s == Fresh(free_list_[p], k)
             rest == [free_list_ EXCEPT ![p] = @ \ ToSet(s)]
  <1>2. p \in Pools /\ n \in Nat
    BY DEF ListInv, TypeInv
  <1>3. free_list_[p] \in SUBSET Elements(p)
    BY <1>2 DEF ListInv, HomeInv
  <1>4. IsFresh(s, free_list_[p], k, n)
    <2> HIDE DEF n
    <2> QED BY <1>2, <1>3, FreshFacts, Zenon
  <1>5. k < n \/ k = n
    <2>1. k \in Nat /\ k <= n
      BY <1>4 DEF IsFresh
    <2> QED BY <1>2, <2>1
  <1>6. ~(k < k)
    <2>1. k \in Nat
      BY <1>4 DEF IsFresh
    <2> QED BY <2>1
  <1>7. UNCHANGED lists
    BY DEF CopyFrom
  <1>8. threw' = (k < n)
    BY <1>1
  <1>9. CASE k < n
    <2>1. data' = Leaked(s) /\ lost' = lost \cup ToSet(s) /\ free_list_' = rest /\ UNCHANGED <<active_list_, p_pool_>>
      BY <1>1, <1>9, Zenon
    <2>2. CopyEffect(l, x, k, s)
      <3> HIDE DEF s
      <3> QED BY <1>4, <1>7, <1>8, <1>9, <2>1, Zenon DEF CopyEffect
    <2> QED BY <2>2
  <1>10. CASE k = n
    <2>1. ~(k < n)
      BY <1>6, <1>10
    <2>2. /\ data' = [e \in AllElements |->
                                     IF Contains(active_list_[l], e) THEN Dead ELSE Written(s, Of(x))[e]]
          /\ free_list_' = [rest EXCEPT ![p_pool_[l]] = @ \cup ToSet(active_list_[l])]
          /\ active_list_' = [active_list_ EXCEPT ![l] = s]
          /\ p_pool_' = [p_pool_ EXCEPT ![l] = p]
          /\ UNCHANGED lost
      BY <1>1, <2>1, Zenon
    <2>3. CopyEffect(l, x, k, s)
      <3> HIDE DEF s
      <3> QED BY <1>4, <1>7, <1>8, <1>10, <2>2, Zenon DEF CopyEffect, Held
    <2> QED BY <2>3
  <1> QED BY <1>5, <1>9, <1>10

(* A copy that throws leaves what it took with nobody. *)
LEMMA LeakInv ==
  ASSUME ListInv, NEW p \in Pools, NEW s \in Seq(AllElements), ToSet(s) \subseteq free_list_[p],
         data' = Leaked(s), lost' = lost \cup ToSet(s), free_list_' = [free_list_ EXCEPT ![p] = @ \ ToSet(s)],
         UNCHANGED <<lists, active_list_, p_pool_>>, threw' \in BOOLEAN
  PROVE  ListInv'
  <1> DEFINE S == ToSet(s)
  <1>1. /\ \A e \in S : data'[e] = Unseen
        /\ \A e \in AllElements \ S : data'[e] = data[e]
        /\ data' = [e \in AllElements |-> data'[e]]
    BY GoneFacts
  <1>2. data' \in [AllElements -> Values \cup {Dead, Unseen}]
    BY <1>1 DEF ListInv, TypeInv
  <1>3. Leaks(p, S)
    BY <1>1, <1>2 DEF Leaks
  <1> QED BY <1>3, LeakStep

(* What is in the elements after operator=. *)
LEMMA CopyData ==
  ASSUME ListInv, NEW l \in Lists, NEW x \in Lists, NEW k, NEW s, CopyEffect(l, x, k, s), ~(k < Len(active_list_[x]))
  PROVE  /\ k = Len(active_list_[x]) /\ Len(s) = k /\ s \in Seq(AllElements) /\ IsInjective(s)
         /\ ToSet(s) \subseteq free_list_[p_pool_[x]] /\ ToSet(s) \cap Held(l) = {} /\ ToSet(s) \subseteq AllElements
         /\ data' \in [AllElements -> Values \cup {Dead, Unseen}]
         /\ \A e \in ToSet(s) : data'[e] \in Values
         /\ \A e \in Held(l) : data'[e] = Dead
         /\ \A e \in AllElements \ (ToSet(s) \cup Held(l)) : data'[e] = data[e]
         /\ \A i \in 1 .. k : data'[s[i]] = Of(x)[i]
  <1> DEFINE n == Len(active_list_[x])
             w == Written(s, Of(x))
             p == p_pool_[x]
  <1>1. IsFresh(s, free_list_[p], k, n) /\ k = n
    BY DEF CopyEffect
  <1>2. Of(x) \in Seq(Values) /\ Len(Of(x)) = n /\ p \in Pools
    BY OfType DEF ListInv, TypeInv
  <1>3. s \in Seq(AllElements) /\ Len(s) = k /\ IsInjective(s) /\ ToSet(s) \subseteq free_list_[p]
    BY <1>1 DEF IsFresh
  <1>4. ToSet(s) \subseteq AllElements /\ \A i \in 1 .. k : s[i] \in ToSet(s)
    BY <1>3, InToSet
  <1>5. ToSet(s) \cap Held(l) = {}
    BY <1>2, <1>3 DEF ListInv, ApartInv
  <1>6. Holds(w, s, Of(x))
    <2>1. IsFresh(s, free_list_[p], k, Len(Of(x)))
      BY <1>1, <1>2, Zenon
    <2> HIDE DEF p
    <2> QED BY <1>2, <2>1, FreshData, Zenon
  <1>7. \A e : Contains(active_list_[l], e) <=> e \in Held(l)
    <2>1. active_list_[l] \in Seq(AllElements)
      BY DEF ListInv, TypeInv
    <2> QED BY <2>1, InToSet DEF Held
  <1>8. data' = [e \in AllElements |-> IF e \in Held(l) THEN Dead ELSE w[e]]
    <2>1. data' = [e \in AllElements |-> IF Contains(active_list_[l], e) THEN Dead ELSE w[e]]
      BY <1>1 DEF CopyEffect
    <2> HIDE DEF w
    <2> QED BY <1>7, <2>1
  <1>9. /\ w \in [AllElements -> Values \cup {Dead, Unseen}]
        /\ \A e \in ToSet(s) : w[e] \in Values
        /\ \A e \in AllElements \ ToSet(s) : w[e] = data[e]
        /\ \A i \in 1 .. k : w[s[i]] = Of(x)[i]
    BY <1>3, <1>6 DEF Holds
  <1>10. Held(l) \subseteq AllElements
    <2>1. active_list_[l] \in Seq(AllElements)
      BY DEF ListInv, TypeInv
    <2> QED BY <2>1, InToSet DEF Held
  <1> HIDE DEF w
  <1>11. data' \in [AllElements -> Values \cup {Dead, Unseen}]
    BY <1>8, <1>9
  <1>12. \A e \in ToSet(s) : data'[e] = w[e]
    BY <1>4, <1>5, <1>8
  <1>13. /\ \A e \in Held(l) : data'[e] = Dead
         /\ \A e \in AllElements \ (ToSet(s) \cup Held(l)) : data'[e] = data[e]
    BY <1>8, <1>9, <1>10
  <1>14. /\ \A e \in ToSet(s) : data'[e] \in Values
         /\ \A i \in 1 .. k : data'[s[i]] = Of(x)[i]
    BY <1>4, <1>9, <1>12
  <1> QED BY <1>1, <1>3, <1>4, <1>5, <1>11, <1>13, <1>14

LEMMA CopyFromInv ==
  ASSUME ListInv, NEW l \in Lists, l \in lists, NEW x \in Lists, CopyFrom(l, x)
  PROVE  ListInv'
  <1> DEFINE p == p_pool_[x]
             n == Len(active_list_[x])
  <1>1. PICK k, s : CopyEffect(l, x, k, s)
    BY CopyFacts
  <1> DEFINE S == ToSet(s)
  <1>2. p \in Pools /\ s \in Seq(AllElements) /\ S \subseteq free_list_[p]
    BY <1>1 DEF CopyEffect, IsFresh, ListInv, TypeInv
  <1>3. threw' \in BOOLEAN /\ lists' = lists
    BY <1>1 DEF CopyEffect
  <1>4. CASE k < n
    <2>1. ~(k = n)
      BY <1>1, <1>4 DEF CopyEffect, IsFresh
    <2>2. /\ data' = Leaked(s) /\ lost' = lost \cup S /\ UNCHANGED <<lists, active_list_, p_pool_>>
          /\ free_list_' = [free_list_ EXCEPT ![p] = @ \ S]
      BY <1>1, <2>1 DEF CopyEffect
    <2> QED BY <1>2, <1>3, <2>2, LeakInv
  <1>5. CASE ~(k < n)
    <2>1. /\ IsInjective(s) /\ S \cap Held(l) = {} /\ S \subseteq AllElements
          /\ data' \in [AllElements -> Values \cup {Dead, Unseen}]
          /\ \A e \in S : data'[e] \in Values
          /\ \A e \in Held(l) : data'[e] = Dead
          /\ \A e \in AllElements \ (S \cup Held(l)) : data'[e] = data[e]
      BY <1>1, <1>5, CopyData
    <2> DEFINE rest == [free_list_ EXCEPT ![p] = @ \ S]
    <2>2. /\ lost' = lost /\ active_list_' = [active_list_ EXCEPT ![l] = s] /\ p_pool_' = [p_pool_ EXCEPT ![l] = p]
          /\ free_list_' = [rest EXCEPT ![p_pool_[l]] = @ \cup Held(l)]
      BY <1>1, <1>5 DEF CopyEffect
    <2>3. p_pool_[l] \in Pools /\ Held(l) \subseteq Elements(p_pool_[l]) /\ Held(l) \subseteq AllElements
      BY ElementsApart DEF ListInv, TypeInv, HomeInv
    <2> HIDE DEF S
    <2>4. /\ rest \in [Pools -> SUBSET AllElements]
          /\ \A q \in Pools : rest[q] = IF q = p THEN free_list_[q] \ S ELSE free_list_[q]
      BY <1>2 DEF ListInv, TypeInv
    <2> HIDE DEF rest
    <2>5. /\ free_list_' \in [Pools -> SUBSET AllElements]
          /\ \A q \in Pools : free_list_'[q] = IF q = p_pool_[l] THEN rest[q] \cup Held(l) ELSE rest[q]
      BY <2>2, <2>3, <2>4
    <2>6. TypeInv' /\ EmptyInv'
      <3>1. active_list_' \in [Lists -> Seq(AllElements)] /\ p_pool_' \in [Lists -> Pools]
        BY <1>2, <2>2 DEF ListInv, TypeInv
      <3> QED BY <1>3, <2>1, <2>2, <2>5, <3>1 DEF ListInv, TypeInv, EmptyInv
    <2>7. /\ active_list_'[l] = s /\ p_pool_'[l] = p /\ Held(l)' = S
          /\ \A y \in Lists \ {l} : active_list_'[y] = active_list_[y] /\ p_pool_'[y] = p_pool_[y]
      BY <2>2 DEF ListInv, TypeInv, Held, S
    <2>8. ASSUME NEW q \in Pools PROVE free_list_'[q] = (free_list_[q] \ S) \cup (Held(l) \cap Elements(q))
      <3>1. rest[q] = free_list_[q] \ S
        <4>1. q # p => free_list_[q] \cap S = {}
          BY <1>2, ElementsApart DEF ListInv, HomeInv
        <4> QED BY <2>4, <4>1
      <3>2. Held(l) \cap Elements(q) = IF q = p_pool_[l] THEN Held(l) ELSE {}
        BY <2>3, ElementsApart
      <3> QED BY <2>5, <3>1, <3>2
    <2>9. S = (Held(l) \ Held(l)) \cup S /\ Held(l) \ Held(l) \subseteq Elements(p)
      OBVIOUS
    <2>10. ListChanges(l, S, Held(l))
      BY <1>2, <2>1, <2>2, <2>7, <2>8, <2>9 DEF ListChanges
    <2> QED BY <2>6, <2>10, ListStep
  <1> QED BY <1>4, <1>5

LEMMA CopiesNat ==
  ASSUME ListInv, NEW m \in Nat, NEW n \in Nat, NEW y \in Lists, NEW z \in Lists, NEW p
  PROVE  Copies(m, y, n, z, p) \in Nat
  <1> DEFINE size(l) == IF p_pool_[l] = p THEN Len(active_list_[l]) ELSE 0
  <1>1. size(y) \in Nat /\ size(z) \in Nat
    BY DEF ListInv, TypeInv
  <1>2. Copies(m, y, n, z, p) = m * size(y) + n * size(z)
    BY DEF Copies
  <1> HIDE DEF size
  <1>3. m * size(y) \in Nat /\ n * size(z) \in Nat
    BY <1>1
  <1> QED BY <1>2, <1>3

(* A comparison: nothing is left of it, or the copy of y threw with s taken. *)
CompareEffect(y, k, s) ==
  /\ IsFresh(s, free_list_[p_pool_[y]], k, Len(active_list_[y])) /\ threw' = TRUE
  /\ k \in 0 .. Len(active_list_[y]) - 1
  /\ UNCHANGED <<lists, active_list_, p_pool_>>
  /\ lost' = lost \cup ToSet(s) /\ data' = Leaked(s)
  /\ free_list_' = [free_list_ EXCEPT ![p_pool_[y]] = @ \ ToSet(s)]

LEMMA CompareFacts ==
  ASSUME ListInv, NEW l \in Lists, NEW x \in Lists, NEW depth \in 1 .. 3, Compare(l, x, depth)
  PROVE  \/ threw' = FALSE /\ UNCHANGED <<lists, active_list_, p_pool_, free_list_, data, lost>>
         \/ \E y \in {l, x} : \E k, s : CompareEffect(y, k, s)
  <1> DEFINE Fit(m, y, n, z) == \A p \in Pools : Copies(m, y, n, z, p) <= Cardinality(free_list_[p])
  <1>0. UNCHANGED <<lists, active_list_, p_pool_>>
    BY DEF Compare
  <1>1. CASE threw' = FALSE /\ UNCHANGED <<free_list_, data, lost>>
    BY <1>0, <1>1
  <1>2. ASSUME NEW y \in {l, x}, NEW z \in {l, x}, NEW n \in 0 .. depth - 1, NEW m \in {0, 1},
               threw' = TRUE, NEW k \in 0 .. Len(active_list_[y]) - 1,
               Copies(n, y, n + m, z, p_pool_[y]) + k <= Cardinality(free_list_[p_pool_[y]]),
               lost' = lost \cup ToSet(Fresh(free_list_[p_pool_[y]], k)),
               data' = Leaked(Fresh(free_list_[p_pool_[y]], k)),
               free_list_' = [free_list_ EXCEPT ![p_pool_[y]] = @ \ ToSet(Fresh(free_list_[p_pool_[y]], k))]
        PROVE  \E s : CompareEffect(y, k, s)
    <2> DEFINE p == p_pool_[y]
               free == free_list_[p]
               s == Fresh(free, k)
               len == Len(active_list_[y])
    <2>1. p \in Pools /\ y \in Lists /\ z \in Lists /\ n \in Nat /\ n + m \in Nat /\ len \in Nat
      BY DEF ListInv, TypeInv
    <2>2. free \in SUBSET Elements(p)
      BY <2>1 DEF ListInv, HomeInv
    <2>3. Cardinality(free) \in Nat
      BY <2>1, <2>2, ElementsFinite, FS_Subset, FS_CardinalityType
    <2>4. Copies(n, y, n + m, z, p) \in Nat
      BY <2>1, CopiesNat
    <2>5. k \in Nat /\ k <= Cardinality(free) /\ k <= len
      BY <1>2, <2>1, <2>3, <2>4
    <2>6. k \in Taken(free, len)
      BY <2>1, <2>3, <2>5 DEF Taken
    <2> HIDE DEF free, len, p
    <2>7. IsFresh(s, free, k, len)
      BY <2>1, <2>2, <2>6, FreshFacts, Zenon
    <2> HIDE DEF s
    <2>8. CompareEffect(y, k, s)
      BY <1>0, <1>2, <2>7 DEF CompareEffect, p, free, len, s
    <2> QED BY <2>8
  <1>3. \/ threw' = FALSE /\ UNCHANGED <<free_list_, data, lost>>
        \/ \E y, z \in {l, x}, n \in 0 .. depth - 1, m \in {0, 1} :
              LET p == p_pool_[y]
              IN  /\ {y, z} = {l, x} /\ Fit(n, y, n + m, z) /\ threw' = TRUE
                  /\ \E k \in 0 .. Len(active_list_[y]) - 1 :
                       LET gone == Fresh(free_list_[p], k)
                       IN  /\ Copies(n, y, n + m, z, p) + k <= Cardinality(free_list_[p])
                           /\ lost' = lost \cup ToSet(gone)
                           /\ data' = Leaked(gone)
                           /\ free_list_' = [free_list_ EXCEPT ![p] = @ \ ToSet(gone)]
    BY Zenon DEF Compare
  <1> HIDE DEF Fit
  <1>4. CASE ~(threw' = FALSE /\ UNCHANGED <<free_list_, data, lost>>)
    <2>1. PICK y, z \in {l, x}, n \in 0 .. depth - 1, m \in {0, 1} :
              LET p == p_pool_[y]
              IN  /\ {y, z} = {l, x} /\ Fit(n, y, n + m, z) /\ threw' = TRUE
                  /\ \E k \in 0 .. Len(active_list_[y]) - 1 :
                       LET gone == Fresh(free_list_[p], k)
                       IN  /\ Copies(n, y, n + m, z, p) + k <= Cardinality(free_list_[p])
                           /\ lost' = lost \cup ToSet(gone)
                           /\ data' = Leaked(gone)
                           /\ free_list_' = [free_list_ EXCEPT ![p] = @ \ ToSet(gone)]
      BY <1>3, <1>4, Zenon
    <2>2. PICK k \in 0 .. Len(active_list_[y]) - 1 :
                       LET gone == Fresh(free_list_[p_pool_[y]], k)
                       IN  /\ Copies(n, y, n + m, z, p_pool_[y]) + k <= Cardinality(free_list_[p_pool_[y]])
                           /\ lost' = lost \cup ToSet(gone)
                           /\ data' = Leaked(gone)
                           /\ free_list_' = [free_list_ EXCEPT ![p_pool_[y]] = @ \ ToSet(gone)]
      BY <2>1, Zenon
    <2>3. \E s : CompareEffect(y, k, s)
      BY <1>2, <2>1, <2>2, Zenon
    <2> QED BY <2>3
  <1> QED BY <1>1, <1>4

(* Nothing but op and threw changes. *)
LEMMA SameInv ==
  ASSUME ListInv, UNCHANGED <<lists, active_list_, p_pool_, free_list_, data, lost>>, threw' \in BOOLEAN
  PROVE  ListInv'
  <1>1. \A l \in Lists : Held(l)' = Held(l)
    BY DEF Held
  <1> QED BY <1>1 DEF ListInv, TypeInv, HomeInv, OnceInv, ApartInv, CoverInv, AliveInv, EmptyInv

LEMMA CompareInv ==
  ASSUME ListInv, NEW l \in Lists, NEW x \in Lists, NEW depth \in 1 .. 3, Compare(l, x, depth)
  PROVE  ListInv'
  <1>1. CASE threw' = FALSE /\ UNCHANGED <<lists, active_list_, p_pool_, free_list_, data, lost>>
    BY <1>1, SameInv
  <1>2. ASSUME NEW y \in {l, x}, NEW k, NEW s, CompareEffect(y, k, s) PROVE ListInv'
    <2> DEFINE p == p_pool_[y]
    <2>1. p \in Pools
      BY DEF ListInv, TypeInv
    <2>2. /\ s \in Seq(AllElements) /\ ToSet(s) \subseteq free_list_[p] /\ data' = Leaked(s)
          /\ lost' = lost \cup ToSet(s) /\ free_list_' = [free_list_ EXCEPT ![p] = @ \ ToSet(s)]
          /\ UNCHANGED <<lists, active_list_, p_pool_>> /\ threw' \in BOOLEAN
      BY <1>2 DEF CompareEffect, IsFresh
    <2> HIDE DEF p
    <2> QED BY <2>1, <2>2, LeakInv
  <1> QED BY <1>1, <1>2, CompareFacts

LEMMA ResizeInv ==
  ASSUME ListInv, NEW l \in Lists, l \in lists, NEW n \in 0 .. MaxLen, NEW v \in Values, resize(l, n, v)
  PROVE  ListInv'
  <1> DEFINE len == Len(active_list_[l])
             vals == [i \in 1 .. n - len |-> v]
  <1>0. len \in Nat /\ n \in Nat
    BY PooledListAssumption DEF ListInv, TypeInv
  <1>1. CASE n <= len
    <2>1. EraseFrom(l, n, len) /\ UNCHANGED <<lists, p_pool_>>
      BY <1>1 DEF resize
    <2>2. n \in Places(l) /\ len \in Places(l)
      BY <1>0, <1>1 DEF Places
    <2>3. Parted(l, SubSeq(active_list_[l], n + 1, len), SubSeq(active_list_[l], 1, n) \o Drop(active_list_[l], len))
      BY <1>1, <2>2, EraseFromParts, Zenon
    <2> QED BY <2>1, <2>3, EraseInvSame DEF EraseFrom
  <1>2. CASE ~(n <= len)
    <2>1. InsertBefore(l, len, vals)
      BY <1>2 DEF resize
    <2>2. len \in Places(l)
      BY <1>0 DEF Places
    <2>3. vals \in Seq(Values)
      <3>1. n - len \in Nat
        BY <1>0, <1>2
      <3> QED BY <3>1
    <2> HIDE DEF vals
    <2> QED BY <2>1, <2>2, <2>3, InsertInv
  <1> QED BY <1>1, <1>2

LEMMA NextInv ==
  ASSUME ListInv, [Next]_vars
  PROVE  ListInv'
  <1>0. lists \subseteq Lists
    BY DEF ListInv, TypeInv
  <1>1. ASSUME NEW l \in Lists, NEW p \in Pools, NEW vals \in Inputs, pooled_list(l, p, vals) PROVE ListInv'
    BY <1>1, InputsType, ConstructInv DEF pooled_list
  <1>2. ASSUME NEW l \in Lists, NEW x \in lists, CopyConstruct(l, x) PROVE ListInv'
    <2>1. x \in Lists /\ p_pool_[x] \in Pools
      BY <1>0 DEF ListInv, TypeInv
    <2>2. Of(x) \in Seq(Values)
      BY <2>1, OfType
    <2> QED BY <1>2, <2>1, <2>2, ConstructInv DEF CopyConstruct
  <1>3. ASSUME NEW l \in lists, Destroy(l) PROVE ListInv'
    BY <1>0, <1>3, DestroyInv
  <1>4. ASSUME NEW l \in lists, NEW i \in Places(l), NEW vals \in Inputs, insert(l, i, vals) PROVE ListInv'
    BY <1>0, <1>4, InputsType, InsertInv DEF insert
  <1>5. ASSUME NEW l \in lists, NEW i \in Places(l), NEW j \in Places(l), i <= j, erase(l, i, j) PROVE ListInv'
    <2>1. l \in Lists
      BY <1>0
    <2>2. Parted(l, SubSeq(active_list_[l], i + 1, j), SubSeq(active_list_[l], 1, i) \o Drop(active_list_[l], j))
      BY <1>5, <2>1, EraseFromParts, Zenon
    <2> QED BY <1>5, <2>1, <2>2, EraseInvSame DEF erase, EraseFrom
  <1>6. ASSUME NEW l \in lists, NEW vals \in Inputs, assign(l, vals) PROVE ListInv'
    BY <1>0, <1>6, InputsType, AssignInv
  <1>7. ASSUME NEW l \in lists, NEW n \in 0 .. MaxLen, NEW v \in Values, resize(l, n, v) PROVE ListInv'
    BY <1>0, <1>7, ResizeInv
  <1>8. ASSUME NEW l \in lists, NEW S \in SUBSET Values, remove_if(l, S) PROVE ListInv'
    <2> DEFINE gone == {e \in AllElements : data[e] \in S}
    <2>1. l \in Lists
      BY <1>0
    <2>2. Parted(l, Select(active_list_[l], gone), Select(active_list_[l], AllElements \ gone))
      BY <2>1, SelectParts, Zenon
    <2> QED BY <1>8, <2>1, <2>2, EraseInvSame DEF remove_if
  <1>9. ASSUME NEW l \in lists, unique(l) PROVE ListInv'
    <2>1. l \in Lists
      BY <1>0
    <2>2. Parted(l, Select(active_list_[l], AllElements \ ToSet(Kept(l))), Kept(l))
      BY <2>1, KeptParts, Zenon
    <2> QED BY <1>9, <2>1, <2>2, EraseInvSame DEF unique
  <1>10. ASSUME NEW l \in lists, reverse(l) \/ sort(l) PROVE ListInv'
    BY <1>0, <1>10, ReverseInv, SortInv
  <1>11. ASSUME NEW l \in lists, NEW x \in lists, NEW i \in Places(l), splice(l, i, x) PROVE ListInv'
    BY <1>0, <1>11, SpliceInv
  <1>12. ASSUME NEW l \in lists, NEW x \in lists, merge(l, x) \/ swap(l, x) \/ CopyFrom(l, x) PROVE ListInv'
    BY <1>0, <1>12, MergeInv, SwapInv, CopyFromInv
  <1>13. ASSUME NEW l \in lists, NEW x \in lists, NEW depth \in 1 .. 3, Compare(l, x, depth) PROVE ListInv'
    BY <1>0, <1>13, CompareInv
  <1>14. CASE UNCHANGED vars
    <2>1. UNCHANGED <<lists, active_list_, p_pool_, free_list_, data, lost>> /\ threw' \in BOOLEAN
      BY <1>14 DEF vars, ListInv, TypeInv
    <2> QED BY <2>1, SameInv
  <1> QED BY <1>1, <1>2, <1>3, <1>4, <1>5, <1>6, <1>7, <1>8, <1>9, <1>10, <1>11, <1>12, <1>13, <1>14 DEF Next

-------------------------------------------------------------------------------
Where(p, e) ==
  {<<"free", 0>> : f \in free_list_[p] \cap {e}}
    \cup UNION {{<<l, i>> : i \in {j \in DOMAIN active_list_[l] : active_list_[l][j] = e}} :
                  l \in {x \in Lists : p_pool_[x] = p}}

LEMMA OnePlace ==
  ASSUME ListInv, NEW p \in Pools, NEW e \in Elements(p)
  PROVE  Cardinality(Where(p, e)) = IF e \in lost THEN 0 ELSE 1
  <1>1. e \in AllElements /\ \A q \in Pools : q # p => e \notin Elements(q)
    BY ElementsApart
  <1>2. ASSUME NEW w PROVE w \in Where(p, e) <=>
                             \/ w = <<"free", 0>> /\ e \in free_list_[p]
                             \/ \E l \in Lists : \E i \in DOMAIN active_list_[l] :
                                  p_pool_[l] = p /\ active_list_[l][i] = e /\ w = <<l, i>>
    BY DEF Where
  <1>3. \A l \in Lists : e \in Held(l) <=> \E i \in DOMAIN active_list_[l] : active_list_[l][i] = e
    BY DEF Held, ToSet
  <1>4. \A l \in Lists : e \in Held(l) => p_pool_[l] = p
    BY <1>1 DEF ListInv, TypeInv, HomeInv
  <1>5. CASE e \in lost
    <2>1. e \notin free_list_[p] /\ \A l \in Lists : e \notin Held(l)
      BY <1>5 DEF ListInv, ApartInv
    <2>2. \A w : w \notin Where(p, e)
      BY <1>2, <1>3, <2>1
    <2>3. Where(p, e) = {}
      BY <2>2
    <2> QED BY <1>5, <2>3, FS_EmptySet
  <1>6. CASE e \in free_list_[p]
    <2>1. e \notin lost /\ \A l \in Lists : e \notin Held(l)
      BY <1>6 DEF ListInv, ApartInv
    <2>2. \A w : w \in Where(p, e) <=> w = <<"free", 0>>
      BY <1>2, <1>3, <1>6, <2>1
    <2>3. Where(p, e) = {<<"free", 0>>}
      BY <2>2
    <2> QED BY <2>1, <2>3, FS_Singleton
  <1>7. ASSUME NEW l \in Lists, e \in Held(l) PROVE Cardinality(Where(p, e)) = IF e \in lost THEN 0 ELSE 1
    <2>1. e \notin lost /\ e \notin free_list_[p] /\ \A x \in Lists : x # l => e \notin Held(x)
      BY <1>7 DEF ListInv, ApartInv, OnceInv
    <2>2. PICK i \in DOMAIN active_list_[l] : active_list_[l][i] = e
      BY <1>3, <1>7
    <2>3. \A j \in DOMAIN active_list_[l] : active_list_[l][j] = e => j = i
      BY <2>2 DEF ListInv, OnceInv, IsInjective
    <2>4. \A w : w \in Where(p, e) <=> w = <<l, i>>
      BY <1>2, <1>3, <1>4, <1>7, <2>1, <2>2, <2>3
    <2>5. Where(p, e) = {<<l, i>>}
      BY <2>4
    <2> QED BY <2>1, <2>5, FS_Singleton
  <1>8. e \in lost \/ e \in free_list_[p] \/ \E l \in Lists : e \in Held(l)
    BY <1>1 DEF ListInv, CoverInv, HomeInv
  <1> QED BY <1>5, <1>6, <1>7, <1>8

LEMMA DeadIsFree ==
  ASSUME ListInv, NEW p \in Pools, NEW e \in Elements(p)
  PROVE  data[e] = Dead <=> e \in free_list_[p]
  <1>1. e \in AllElements /\ \A q \in Pools : q # p => e \notin Elements(q)
    BY ElementsApart
  <1>2. e \in lost \/ e \in free_list_[p] \/ \E l \in Lists : e \in Held(l)
    BY <1>1 DEF ListInv, CoverInv, HomeInv
  <1> QED BY <1>2, DeadUnseen DEF ListInv, AliveInv, ApartInv

(* ElementsConserved, of util/pooled_list for every number of lists, pools and
   elements: through copies that throw, lists that are swapped or assigned across
   pools, and comparisons by value, no element is in two places and none is gone
   but those a throwing constructor lost; nor is one constructed twice. *)
THEOREM PooledListConserves == Spec => []ElementsConserved
  <1>1. Init => ListInv
    BY InitInv
  <1>2. ListInv /\ [Next]_vars => ListInv'
    BY NextInv
  <1>3. ListInv => ElementsConserved
    <2> SUFFICES ASSUME ListInv PROVE ElementsConserved
      OBVIOUS
    <2>1. \A p \in Pools : \A e \in Elements(p) :
            /\ Cardinality(Where(p, e)) = IF e \in lost THEN 0 ELSE 1
            /\ data[e] = Dead <=> e \in free_list_[p]
      BY OnePlace, DeadIsFree
    <2> QED BY <2>1, Zenon DEF ElementsConserved, Where
  <1> QED BY <1>1, <1>2, <1>3, PTL DEF Spec

-------------------------------------------------------------------------------
(***************************************************************************)
(* The refinement.  What a list holds is what its elements hold, and what  *)
(* a pool has left is how many elements are free in it.                    *)
(***************************************************************************)
Map(d, s) == [i \in DOMAIN s |-> d[s[i]]]

Image(d, X) == {d[e] : e \in X}

IsMap(m, V, d, s) == m \in Seq(V) /\ Len(m) = Len(s) /\ \A i \in 1 .. Len(s) : m[i] = d[s[i]]

LEMMA MapType ==
  ASSUME NEW X, NEW s \in Seq(X), NEW d
  PROVE  IsMap(Map(d, s), Image(d, X), d, s)
  <1> DEFINE n == Len(s)
             m == Map(d, s)
  <1>1. n \in Nat /\ DOMAIN s = 1 .. n
    OBVIOUS
  <1>v. \A i \in 1 .. n : d[s[i]] \in Image(d, X)
    BY DEF Image
  <1>2. m \in [1 .. n -> Image(d, X)] /\ \A i \in 1 .. n : m[i] = d[s[i]]
    BY <1>1, <1>v DEF Map
  <1> HIDE DEF m, n
  <1>3. m \in Seq(Image(d, X)) /\ Len(m) = n
    BY <1>1, <1>2
  <1> QED BY <1>2, <1>3 DEF m, n, IsMap

IsConcat(r, X, s, t) ==
  /\ r \in Seq(X) /\ Len(r) = Len(s) + Len(t)
  /\ \A i \in 1 .. Len(s) + Len(t) : r[i] = IF i <= Len(s) THEN s[i] ELSE t[i - Len(s)]

LEMMA ConcatAt ==
  ASSUME NEW X, NEW s \in Seq(X), NEW t \in Seq(X)
  PROVE  IsConcat(s \o t, X, s, t)
  BY ConcatProperties DEF IsConcat

(* What is not written stays. *)
LEMMA MapSame ==
  ASSUME NEW X, NEW s \in Seq(X), NEW d, NEW c, \A e \in ToSet(s) : c[e] = d[e]
  PROVE  Map(c, s) = Map(d, s)
  <1>1. \A i \in DOMAIN s : c[s[i]] = d[s[i]]
    BY DEF ToSet
  <1> QED BY <1>1 DEF Map

LEMMA MapAppend ==
  ASSUME NEW X, NEW s \in Seq(X), NEW x \in X, NEW d
  PROVE  Map(d, Append(s, x)) = Append(Map(d, s), d[x])
  <1> DEFINE n == Len(s)
             a == Append(s, x)
             m == Map(d, s)
  <1>1. n \in Nat /\ DOMAIN a = 1 .. n + 1 /\ a[n + 1] = x /\ \A i \in 1 .. n : a[i] = s[i]
    OBVIOUS
  <1>2. m \in Seq(Image(d, X)) /\ Len(m) = n /\ \A i \in 1 .. n : m[i] = d[s[i]]
    <2>1. IsMap(m, Image(d, X), d, s)
      BY MapType
    <2> QED BY <2>1 DEF IsMap
  <1>3. Map(d, a) = [i \in 1 .. n + 1 |-> d[a[i]]]
    BY <1>1 DEF Map
  <1> HIDE DEF a, m, n
  <1>4. Append(m, d[x]) = [i \in 1 .. n + 1 |-> IF i = n + 1 THEN d[x] ELSE m[i]]
    BY <1>2
  <1>5. \A i \in 1 .. n + 1 : d[a[i]] = IF i = n + 1 THEN d[x] ELSE m[i]
    <2>1. \A i \in 1 .. n + 1 : i = n + 1 \/ i \in 1 .. n
      BY <1>1
    <2>2. ~(n + 1 \in 1 .. n)
      BY <1>1
    <2> QED BY <1>1, <1>2, <2>1, <2>2
  <1>6. Map(d, a) = Append(m, d[x])
    BY <1>3, <1>4, <1>5
  <1> QED BY <1>6 DEF a, m

LEMMA MapConcat ==
  ASSUME NEW X, NEW s \in Seq(X), NEW t \in Seq(X), NEW d
  PROVE  Map(d, s \o t) = Map(d, s) \o Map(d, t)
  <1> DEFINE m == Len(s)
             n == Len(t)
             r == s \o t
             a == Map(d, s)
             b == Map(d, t)
             u == Map(d, r)
             w == a \o b
  <1>1. /\ r \in Seq(X) /\ Len(r) = m + n /\ m \in Nat /\ n \in Nat
        /\ \A i \in 1 .. m + n : r[i] = IF i <= m THEN s[i] ELSE t[i - m]
    BY ConcatAt DEF IsConcat
  <1>2. a \in Seq(Image(d, X)) /\ Len(a) = m /\ \A i \in 1 .. m : a[i] = d[s[i]]
    <2>1. IsMap(a, Image(d, X), d, s)
      BY MapType
    <2> QED BY <2>1 DEF IsMap
  <1>3. b \in Seq(Image(d, X)) /\ Len(b) = n /\ \A i \in 1 .. n : b[i] = d[t[i]]
    <2>1. IsMap(b, Image(d, X), d, t)
      BY MapType
    <2> QED BY <2>1 DEF IsMap
  <1> HIDE DEF r, a, b
  <1>5. u \in Seq(Image(d, X)) /\ Len(u) = m + n /\ \A i \in 1 .. m + n : u[i] = d[r[i]]
    <2>1. IsMap(u, Image(d, X), d, r)
      BY <1>1, MapType
    <2> QED BY <1>1, <2>1 DEF IsMap
  <1>6. /\ w \in Seq(Image(d, X)) /\ Len(w) = m + n
        /\ \A i \in 1 .. m + n : w[i] = IF i <= m THEN a[i] ELSE b[i - m]
    <2>1. IsConcat(w, Image(d, X), a, b)
      BY <1>2, <1>3, ConcatAt, Zenon
    <2> QED BY <1>2, <1>3, <2>1 DEF IsConcat
  <1> HIDE DEF u, w, m, n
  <1>7. \A i \in 1 .. m + n : (i <= m => i \in 1 .. m) /\ (~(i <= m) => i - m \in 1 .. n)
    BY <1>1
  <1>8. ASSUME NEW i \in 1 .. m + n PROVE u[i] = w[i]
    <2>1. CASE i <= m
      BY <1>1, <1>2, <1>5, <1>6, <1>7, <2>1
    <2>2. CASE ~(i <= m)
      <3>1. r[i] = t[i - m] /\ w[i] = b[i - m] /\ u[i] = d[r[i]] /\ i - m \in 1 .. n
        BY <1>1, <1>5, <1>6, <1>7, <2>2
      <3>2. b[i - m] = d[t[i - m]]
        BY <1>3, <3>1
      <3> QED BY <3>1, <3>2, Zenon
    <2> QED BY <2>1, <2>2
  <1>9. Len(u) = Len(w) /\ \A i \in 1 .. Len(u) : u[i] = w[i]
    BY <1>5, <1>6, <1>8
  <1>10. u = w
    BY <1>5, <1>6, <1>9, SeqEqual
  <1> QED BY <1>10 DEF u, w, r, a, b

LEMMA MapSubSeq ==
  ASSUME NEW X, NEW s \in Seq(X), NEW d, NEW i \in Nat, NEW j \in Nat, i <= j, j <= Len(s)
  PROVE  Map(d, SubSeq(s, i + 1, j)) = SubSeq(Map(d, s), i + 1, j)
  <1> DEFINE n == Len(s)
             a == Map(d, s)
             r == SubSeq(s, i + 1, j)
             u == Map(d, r)
             w == SubSeq(a, i + 1, j)
             m == j - i
  <1>0. n \in Nat /\ m \in Nat
    OBVIOUS
  <1>1. a \in Seq(Image(d, X)) /\ Len(a) = n /\ \A k \in 1 .. n : a[k] = d[s[k]]
    <2>1. IsMap(a, Image(d, X), d, s)
      BY MapType
    <2> QED BY <2>1 DEF IsMap
  <1>2. r \in Seq(X) /\ Len(r) = m /\ \A k \in 1 .. m : r[k] = s[i + k]
    <2>1. IsPart(r, X, s, i, j)
      BY SubSeqSet, Zenon
    <2> QED BY <2>1 DEF IsPart
  <1> HIDE DEF a
  <1>3. w \in Seq(Image(d, X)) /\ Len(w) = m /\ \A k \in 1 .. m : w[k] = a[i + k]
    <2>1. j <= Len(a)
      BY <1>1
    <2>2. IsPart(w, Image(d, X), a, i, j)
      BY <1>1, <2>1, SubSeqSet, Zenon
    <2> QED BY <2>2 DEF IsPart
  <1>4. \A k \in 1 .. m : i + k \in 1 .. n
    BY <1>0
  <1> HIDE DEF r, w, m, n
  <1>6. u \in Seq(Image(d, X)) /\ Len(u) = m /\ \A k \in 1 .. m : u[k] = d[r[k]]
    <2>1. IsMap(u, Image(d, X), d, r)
      BY <1>2, MapType
    <2> QED BY <1>2, <2>1 DEF IsMap
  <1> HIDE DEF u
  <1>7. Len(u) = Len(w) /\ \A k \in 1 .. Len(u) : u[k] = w[k]
    BY <1>1, <1>2, <1>3, <1>4, <1>6
  <1>8. u = w
    BY <1>3, <1>6, <1>7, SeqEqual
  <1> QED BY <1>8 DEF u, w, r, a
(* The parts before the i-th element and after the j-th. *)
MappedParts(X, d, s, i, j) ==
  /\ Map(d, SubSeq(s, 1, i)) = SubSeq(Map(d, s), 1, i) /\ Map(d, Drop(s, j)) = Drop(Map(d, s), j)
  /\ SubSeq(s, 1, i) \in Seq(X) /\ Drop(s, j) \in Seq(X)
  /\ ToSet(SubSeq(s, 1, i)) \subseteq ToSet(s) /\ ToSet(Drop(s, j)) \subseteq ToSet(s)

LEMMA MapParts ==
  ASSUME NEW X, NEW s \in Seq(X), NEW d, NEW i \in Nat, NEW j \in Nat, i <= j, j <= Len(s)
  PROVE  MappedParts(X, d, s, i, j)
  <1>1. PICK z \in Nat : z = 0
    OBVIOUS
  <1> DEFINE n == Len(s)
  <1>2. z <= i /\ i <= n /\ z + 1 = 1 /\ n \in Nat /\ n <= Len(s) /\ j <= n
    BY <1>1
  <1>3. Map(d, SubSeq(s, z + 1, i)) = SubSeq(Map(d, s), z + 1, i)
    BY <1>2, MapSubSeq, Zenon
  <1>4. Map(d, SubSeq(s, j + 1, n)) = SubSeq(Map(d, s), j + 1, n)
    BY <1>2, MapSubSeq, Zenon
  <1>5. Len(Map(d, s)) = n
    <2>1. IsMap(Map(d, s), Image(d, X), d, s)
      BY MapType
    <2> QED BY <2>1 DEF IsMap
  <1>6. Map(d, Drop(s, j)) = Drop(Map(d, s), j)
    BY <1>4, <1>5, Zenon DEF Drop
  <1>7. Map(d, SubSeq(s, 1, i)) = SubSeq(Map(d, s), 1, i)
    BY <1>2, <1>3, Zenon
  <1>8. /\ SubSeq(s, 1, i) \in Seq(X) /\ Drop(s, j) \in Seq(X)
        /\ ToSet(SubSeq(s, 1, i)) \subseteq ToSet(s) /\ ToSet(Drop(s, j)) \subseteq ToSet(s)
    <2> DEFINE a == SubSeq(s, 1, i)
               b == SubSeq(s, i + 1, j)
               c == Drop(s, j)
    <2>1. /\ a \in Seq(X) /\ b \in Seq(X) /\ c \in Seq(X)
          /\ Len(a) = i /\ Len(b) = j - i /\ Len(c) = Len(s) - j
          /\ ToSet(s) = ToSet(a) \cup ToSet(b) \cup ToSet(c)
          /\ IsInjective(s) => /\ IsInjective(a) /\ IsInjective(b) /\ IsInjective(c)
                               /\ ToSet(a) \cap ToSet(b) = {} /\ ToSet(a) \cap ToSet(c) = {}
                               /\ ToSet(b) \cap ToSet(c) = {}
      BY CutInThree
    <2> HIDE DEF a, b, c
    <2>2. a \in Seq(X) /\ c \in Seq(X) /\ ToSet(a) \subseteq ToSet(s) /\ ToSet(c) \subseteq ToSet(s)
      BY <2>1
    <2> QED BY <2>2 DEF a, c
  <1> QED BY <1>6, <1>7, <1>8 DEF MappedParts

LEMMA MapErased ==
  ASSUME NEW X, NEW s \in Seq(X), NEW d, NEW i \in Nat, NEW j \in Nat, i <= j, j <= Len(s)
  PROVE  Map(d, SubSeq(s, 1, i) \o Drop(s, j)) = SubSeq(Map(d, s), 1, i) \o Drop(Map(d, s), j)
  <1> DEFINE a == SubSeq(s, 1, i)
             c == Drop(s, j)
  <1>1. /\ Map(d, a) = SubSeq(Map(d, s), 1, i) /\ Map(d, c) = Drop(Map(d, s), j)
        /\ a \in Seq(X) /\ c \in Seq(X) /\ ToSet(a) \subseteq ToSet(s) /\ ToSet(c) \subseteq ToSet(s)
    <2>1. MappedParts(X, d, s, i, j)
      BY MapParts, Zenon
    <2> QED BY <2>1 DEF MappedParts
  <1> HIDE DEF a, c
  <1>3. Map(d, a \o c) = Map(d, a) \o Map(d, c)
    BY <1>1, MapConcat, Zenon
  <1> QED BY <1>1, <1>3, Zenon DEF a, c

LEMMA MapInserted ==
  ASSUME NEW X, NEW s \in Seq(X), NEW t \in Seq(X), NEW d, NEW i \in 0 .. Len(s)
  PROVE  Map(d, Inserted(s, i, t)) = Inserted(Map(d, s), i, Map(d, t))
  <1> DEFINE a == SubSeq(s, 1, i)
             c == Drop(s, i)
             b == a \o t
  <1>0. i \in Nat /\ i <= i /\ i <= Len(s)
    OBVIOUS
  <1>1. /\ Map(d, a) = SubSeq(Map(d, s), 1, i) /\ Map(d, c) = Drop(Map(d, s), i)
        /\ a \in Seq(X) /\ c \in Seq(X) /\ ToSet(a) \subseteq ToSet(s) /\ ToSet(c) \subseteq ToSet(s)
    <2>1. MappedParts(X, d, s, i, i)
      BY <1>0, MapParts, Zenon
    <2> QED BY <2>1 DEF MappedParts
  <1> HIDE DEF a, c
  <1>2. Map(d, b) = Map(d, a) \o Map(d, t)
    BY <1>1, MapConcat, Zenon
  <1>3. b \in Seq(X) /\ ToSet(b) = ToSet(a) \cup ToSet(t)
    <2>1. Joins(b, X, a, t)
      BY <1>1, ConcatSets, Zenon
    <2> QED BY <2>1 DEF Joins
  <1> HIDE DEF b
  <1>4. Map(d, b \o c) = Map(d, b) \o Map(d, c)
    BY <1>1, <1>3, MapConcat, Zenon
  <1> QED BY <1>1, <1>2, <1>4, Zenon DEF Inserted, a, b, c

LEMMA MapReverse ==
  ASSUME NEW X, NEW s \in Seq(X), NEW d
  PROVE  Map(d, Reverse(s)) = Reverse(Map(d, s))
  <1> DEFINE n == Len(s)
             m == Map(d, s)
  <1>1. n \in Nat /\ DOMAIN s = 1 .. n /\ \A i \in 1 .. n : (n - i) + 1 \in 1 .. n
    OBVIOUS
  <1>2. Len(m) = n /\ \A i \in 1 .. n : m[i] = d[s[i]]
    <2>1. IsMap(m, Image(d, X), d, s)
      BY MapType
    <2> QED BY <2>1 DEF IsMap
  <1>3. Reverse(s) = [i \in 1 .. n |-> s[(n - i) + 1]]
    BY DEF Reverse
  <1>4. Map(d, Reverse(s)) = [i \in 1 .. n |-> d[s[(n - i) + 1]]]
    BY <1>3 DEF Map
  <1> HIDE DEF m, n
  <1>5. Reverse(m) = [i \in 1 .. n |-> m[(n - i) + 1]]
    BY <1>2 DEF Reverse
  <1>6. \A i \in 1 .. n : m[(n - i) + 1] = d[s[(n - i) + 1]]
    BY <1>1, <1>2
  <1> QED BY <1>4, <1>5, <1>6 DEF m, n

(* Elements are selected by what they hold as their values are. *)
LEMMA MapSelect ==
  ASSUME NEW X, NEW s \in Seq(X), NEW d, NEW T, NEW U,
         \A i \in 1 .. Len(s) : s[i] \in T <=> d[s[i]] \in U
  PROVE  Map(d, Select(s, T)) = Select(Map(d, s), U)
  <1> DEFINE n == Len(s)
             m == Map(d, s)
  <1>n. n \in Nat /\ \A k \in 1 .. n : s[k] \in X
    OBVIOUS
  <1>0. m \in Seq(Image(d, X)) /\ Len(m) = n /\ \A i \in 1 .. n : m[i] = d[s[i]]
    <2>1. IsMap(m, Image(d, X), d, s)
      BY MapType
    <2> QED BY <2>1 DEF IsMap
  <1>1. PICK f \in [0 .. n -> Seq(X)] :
            /\ f[0] = <<>> /\ Select(s, T) = f[n]
            /\ \A k \in 1 .. n : f[k] = IF s[k] \in T THEN Append(f[k - 1], s[k]) ELSE f[k - 1]
    <2>1. PICK f \in [0 .. Len(s) -> Seq(X)] : IsSelectLoop(f, s, T)
      BY SelectLoop, Zenon
    <2> QED BY <2>1 DEF IsSelectLoop
  <1> HIDE DEF m
  <1>2. PICK g \in [0 .. n -> Seq(Image(d, X))] :
            /\ g[0] = <<>> /\ Select(m, U) = g[n]
            /\ \A k \in 1 .. n : g[k] = IF m[k] \in U THEN Append(g[k - 1], m[k]) ELSE g[k - 1]
    <2>1. PICK g \in [0 .. Len(m) -> Seq(Image(d, X))] : IsSelectLoop(g, m, U)
      BY <1>0, SelectLoop, Zenon
    <2>2. g \in [0 .. n -> Seq(Image(d, X))]
      BY <1>0, <2>1
    <2>3. /\ g[0] = <<>> /\ Select(m, U) = g[n]
          /\ \A k \in 1 .. n : g[k] = IF m[k] \in U THEN Append(g[k - 1], m[k]) ELSE g[k - 1]
      BY <1>0, <2>1, Zenon DEF IsSelectLoop
    <2> QED BY <2>2, <2>3, Zenon
  <1> HIDE DEF n
  <1> DEFINE P == {k \in Nat : k <= n => Map(d, f[k]) = g[k]}
  <1>3. 0 \in P
    <2>1. Map(d, <<>>) = <<>>
      BY DEF Map
    <2> QED BY <1>1, <1>2, <2>1
  <1>4. ASSUME NEW k \in Nat, k \in P PROVE k + 1 \in P
    <2> SUFFICES ASSUME k + 1 <= n PROVE Map(d, f[k + 1]) = g[k + 1]
      OBVIOUS
    <2>1. k <= n /\ k \in 0 .. n /\ k + 1 \in 1 .. n /\ (k + 1) - 1 = k
      BY <1>n
    <2>2. f[k] \in Seq(X) /\ Map(d, f[k]) = g[k] /\ s[k + 1] \in X
      BY <1>1, <1>4, <1>n, <2>1
    <2>3. /\ f[k + 1] = IF s[k + 1] \in T THEN Append(f[k], s[k + 1]) ELSE f[k]
          /\ g[k + 1] = IF m[k + 1] \in U THEN Append(g[k], m[k + 1]) ELSE g[k]
          /\ m[k + 1] = d[s[k + 1]] /\ (s[k + 1] \in T <=> d[s[k + 1]] \in U)
      <3>1. f[k + 1] = IF s[k + 1] \in T THEN Append(f[k], s[k + 1]) ELSE f[k]
        BY <1>1, <2>1
      <3>2. g[k + 1] = IF m[k + 1] \in U THEN Append(g[k], m[k + 1]) ELSE g[k]
        BY <1>2, <2>1
      <3>3. m[k + 1] = d[s[k + 1]] /\ (s[k + 1] \in T <=> d[s[k + 1]] \in U)
        BY <1>0, <2>1 DEF n
      <3> QED BY <3>1, <3>2, <3>3
    <2>4. CASE s[k + 1] \in T
      <3>1. f[k + 1] = Append(f[k], s[k + 1]) /\ g[k + 1] = Append(Map(d, f[k]), d[s[k + 1]])
        BY <2>2, <2>3, <2>4
      <3>2. Map(d, Append(f[k], s[k + 1])) = Append(Map(d, f[k]), d[s[k + 1]])
        BY <2>2, MapAppend, Zenon
      <3> QED BY <3>1, <3>2
    <2>5. CASE s[k + 1] \notin T
      BY <2>2, <2>3, <2>5
    <2> QED BY <2>4, <2>5
  <1> HIDE DEF P
  <1>5. n \in P
    BY <1>n, <1>3, <1>4, SetInduction
  <1>6. Map(d, f[n]) = g[n]
    BY <1>5, <1>n DEF P
  <1> QED BY <1>1, <1>2, <1>6 DEF m

(* unique() keeps the first of every run of equal values. *)
FirstOnes(v) == Select([i \in DOMAIN v |-> i], {i \in DOMAIN v : i > 1 => v[i] # v[i - 1]})

LEMMA MapKept ==
  ASSUME NEW X, NEW l, active_list_[l] \in Seq(X)
  PROVE  Map(data, Kept(l)) = Map(Map(data, active_list_[l]), FirstOnes(Map(data, active_list_[l])))
  <1> DEFINE s == active_list_[l]
             n == Len(s)
             v == Map(data, s)
             N == 1 .. n
             ids == [i \in DOMAIN v |-> i]
             T == {i \in DOMAIN v : i > 1 => v[i] # v[i - 1]}
  <1>n. n \in Nat /\ \A k \in 1 .. n : s[k] \in X
    OBVIOUS
  <1>0. Len(v) = n /\ DOMAIN v = 1 .. n /\ \A i \in 1 .. n : v[i] = data[s[i]]
    <2>1. IsMap(v, Image(data, X), data, s)
      BY MapType
    <2> QED BY <2>1 DEF IsMap
  <1>1. PICK f \in [0 .. n -> Seq(X)] :
            /\ f[0] = <<>> /\ Kept(l) = f[n]
            /\ \A k \in 1 .. n :
                 f[k] = IF k > 1 /\ data[Last(f[k - 1])] = data[s[k]] THEN f[k - 1]
                        ELSE Append(f[k - 1], s[k])
    BY KeptLoop
  <1> HIDE DEF v
  <1>2. ids \in Seq(N) /\ Len(ids) = n /\ \A i \in 1 .. n : ids[i] = i
    <2>1. ids = [i \in 1 .. n |-> i]
      BY <1>0
    <2> HIDE DEF ids
    <2>2. ids \in [1 .. n -> N]
      BY <2>1
    <2> QED BY <1>n, <2>1, <2>2
  <1>t. \A i \in 1 .. n : i \in T <=> (i > 1 => v[i] # v[i - 1])
    BY <1>0
  <1> HIDE DEF ids, T
  <1>3. PICK g \in [0 .. n -> Seq(N)] :
            /\ g[0] = <<>> /\ Select(ids, T) = g[n]
            /\ \A k \in 1 .. n : g[k] = IF ids[k] \in T THEN Append(g[k - 1], ids[k]) ELSE g[k - 1]
    <2>1. PICK g \in [0 .. Len(ids) -> Seq(N)] : IsSelectLoop(g, ids, T)
      BY <1>2, SelectLoop, Zenon
    <2>2. g \in [0 .. n -> Seq(N)]
      BY <1>2, <2>1
    <2>3. /\ g[0] = <<>> /\ Select(ids, T) = g[n]
          /\ \A k \in 1 .. n : g[k] = IF ids[k] \in T THEN Append(g[k - 1], ids[k]) ELSE g[k - 1]
      BY <1>2, <2>1, Zenon DEF IsSelectLoop
    <2> QED BY <2>2, <2>3, Zenon
  <1> HIDE DEF n, s, N
  <1> DEFINE Q(k) == Map(data, f[k]) = Map(v, g[k]) /\ (k > 0 => data[Last(f[k])] = v[k])
             P == {k \in Nat : k <= n => Q(k)}
  <1> HIDE DEF Q
  <1>4. 0 \in P
    <2>1. \A d : Map(d, <<>>) = <<>>
      BY DEF Map
    <2>2. Map(data, f[0]) = Map(v, g[0])
      BY <1>1, <1>3, <2>1
    <2>3. Q(0)
      BY <2>2 DEF Q
    <2> QED BY <2>3
  <1>5. ASSUME NEW k \in Nat, k \in P PROVE k + 1 \in P
    <2> SUFFICES ASSUME k + 1 <= n PROVE Map(data, f[k + 1]) = Map(v, g[k + 1]) /\ data[Last(f[k + 1])] = v[k + 1]
      BY DEF Q
    <2>1. /\ k <= n /\ k \in 0 .. n /\ k + 1 \in 1 .. n /\ (k + 1) - 1 = k /\ (k + 1 > 1 <=> k > 0)
      BY <1>n
    <2>2. /\ f[k] \in Seq(X) /\ Map(data, f[k]) = Map(v, g[k]) /\ s[k + 1] \in X
          /\ k > 0 => data[Last(f[k])] = v[k]
      <3>1. Map(data, f[k]) = Map(v, g[k]) /\ (k > 0 => data[Last(f[k])] = v[k])
        <4>1. Q(k)
          BY <1>5, <2>1
        <4> QED BY <4>1 DEF Q
      <3> QED BY <1>1, <1>n, <2>1, <3>1
    <2>3. f[k + 1] = IF k > 0 /\ data[Last(f[k])] = data[s[k + 1]] THEN f[k] ELSE Append(f[k], s[k + 1])
      <3>1. f[k + 1] = IF k + 1 > 1 /\ data[Last(f[k])] = data[s[k + 1]] THEN f[k] ELSE Append(f[k], s[k + 1])
        BY <1>1, <2>1
      <3> QED BY <2>1, <3>1, Zenon
    <2>4. g[k + 1] = IF k + 1 \in T THEN Append(g[k], k + 1) ELSE g[k]
      BY <1>2, <1>3, <2>1
    <2>5. k + 1 \in T <=> (k > 0 => v[k + 1] # v[k])
      BY <1>t, <2>1
    <2>6. v[k + 1] = data[s[k + 1]]
      BY <1>0, <2>1
    <2>7. CASE k > 0 /\ v[k + 1] = v[k]
      BY <2>2, <2>3, <2>4, <2>5, <2>6, <2>7
    <2>8. CASE ~(k > 0 /\ v[k + 1] = v[k])
      <3>1. f[k + 1] = Append(f[k], s[k + 1]) /\ g[k + 1] = Append(g[k], k + 1)
        BY <2>2, <2>3, <2>4, <2>5, <2>6, <2>8
      <3>2. Map(data, Append(f[k], s[k + 1])) = Append(Map(data, f[k]), data[s[k + 1]])
        BY <2>2, MapAppend, Zenon
      <3>3. g[k] \in Seq(N) /\ k + 1 \in N
        BY <1>3, <2>1 DEF N
      <3>4. Map(v, Append(g[k], k + 1)) = Append(Map(v, g[k]), v[k + 1])
        BY <3>3, MapAppend, Zenon
      <3>5. Last(Append(f[k], s[k + 1])) = s[k + 1]
        BY <2>2 DEF Last
      <3> QED BY <2>2, <2>6, <3>1, <3>2, <3>4, <3>5, Zenon
    <2> QED BY <2>7, <2>8
  <1> HIDE DEF P
  <1>6. n \in P
    BY <1>n, <1>4, <1>5, SetInduction
  <1>7. Map(data, f[n]) = Map(v, g[n])
    <2>1. Q(n)
      BY <1>6, <1>n DEF P
    <2> QED BY <2>1 DEF Q
  <1>8. Map(data, Kept(l)) = Map(v, Select(ids, T))
    BY <1>1, <1>3, <1>7, Zenon
  <1> QED BY <1>8, Zenon DEF v, ids, T, s, FirstOnes

-------------------------------------------------------------------------------
value     == [l \in Lists |-> Of(l)]
remaining == [p \in Pools |-> Cardinality(Owed(p))]
Lost(p)   == Cardinality(lost \cap Elements(p))

LEMMA OfMap ==
  ASSUME NEW l
  PROVE  Of(l) = Map(data, active_list_[l]) /\ Of(l)' = Map(data', active_list_'[l])
  BY DEF Of, Map

(* What pool p is owed is what it has and what it has lost. *)
LEMMA OwedSum ==
  ASSUME NEW p \in Pools, NEW F, F \subseteq Elements(p), F \cap lost = {}
  PROVE  /\ IsFiniteSet(F) /\ Cardinality(F) \in Nat /\ Lost(p) \in Nat
         /\ Cardinality(F \cup (lost \cap Elements(p))) = Cardinality(F) + Lost(p)
  <1> DEFINE L == lost \cap Elements(p)
  <1>1. IsFiniteSet(F) /\ IsFiniteSet(L) /\ Cardinality(F) \in Nat /\ Cardinality(L) \in Nat
    BY ElementsFinite, FS_Subset, FS_CardinalityType
  <1>2. F \cap L = {}
    OBVIOUS
  <1> HIDE DEF L
  <1>3. Cardinality(F \cup L) = Cardinality(F) + Cardinality(L) - Cardinality(F \cap L)
    BY <1>1, FS_Union
  <1>4. Cardinality(F \cap L) = 0
    BY <1>2, FS_EmptySet
  <1>5. Cardinality(F \cup L) = Cardinality(F) + Cardinality(L)
    BY <1>1, <1>3, <1>4
  <1> QED BY <1>1, <1>5, Zenon DEF L, Lost

LEMMA FreeFinite ==
  ASSUME ListInv, NEW p \in Pools
  PROVE  /\ IsFiniteSet(free_list_[p]) /\ Cardinality(free_list_[p]) \in Nat /\ Lost(p) \in Nat
         /\ remaining[p] = Cardinality(free_list_[p]) + Lost(p)
  <1>1. free_list_[p] \subseteq Elements(p) /\ free_list_[p] \cap lost = {}
    BY DEF ListInv, HomeInv, ApartInv
  <1>2. remaining[p] = Cardinality(free_list_[p] \cup (lost \cap Elements(p)))
    BY DEF remaining, Owed
  <1> QED BY <1>1, <1>2, OwedSum, Zenon

(* The lists that a step leaves alone hold what they held. *)
LEMMA OfSame ==
  ASSUME ListInv, NEW x \in Lists, active_list_'[x] = active_list_[x], \A e \in Held(x) : data'[e] = data[e]
  PROVE  Of(x)' = Of(x)
  <1> DEFINE a == active_list_[x]
  <1>1. a \in Seq(AllElements) /\ \A e \in ToSet(a) : data'[e] = data[e]
    BY DEF ListInv, TypeInv, Held
  <1>2. Map(data', a) = Map(data, a)
    BY <1>1, MapSame
  <1> QED BY <1>2, OfMap

LEMMA ValueStep ==
  ASSUME ListInv, NEW l \in Lists, NEW b, active_list_' = [active_list_ EXCEPT ![l] = b],
         \A x \in Lists \ {l} : \A e \in Held(x) : data'[e] = data[e]
  PROVE  value' = [value EXCEPT ![l] = Map(data', b)]
  <1>1. active_list_'[l] = b /\ \A x \in Lists \ {l} : active_list_'[x] = active_list_[x]
    BY DEF ListInv, TypeInv
  <1>2. Of(l)' = Map(data', b)
    BY <1>1, OfMap
  <1>3. \A x \in Lists \ {l} : Of(x)' = Of(x)
    BY <1>1, OfSame
  <1>4. value' = [x \in Lists |-> Of(x)']
    BY DEF value
  <1>5. [value EXCEPT ![l] = Map(data', b)] = [x \in Lists |-> IF x = l THEN Map(data', b) ELSE Of(x)]
    BY DEF value
  <1> QED BY <1>2, <1>3, <1>4, <1>5

(* What a list gains its pool loses, where no element is lost. *)
LEMMA Balance ==
  ASSUME ListInv, ListInv', NEW l \in Lists, UNCHANGED <<p_pool_, lost>>,
         \A x \in Lists \ {l} : active_list_'[x] = active_list_[x]
  PROVE  remaining' = [remaining EXCEPT ![p_pool_[l]] = @ - (Len(active_list_'[l]) - Len(active_list_[l]))]
  <1> DEFINE p == p_pool_[l]
             F == free_list_[p]
             G == free_list_'[p]
             H == Held(l)
             K == Held(l)'
  <1>0. p \in Pools /\ p_pool_'[l] = p
    BY DEF ListInv, TypeInv
  <1>1. /\ \A x \in Lists \ {l} : Held(x)' = Held(x)
        /\ lost' = lost
    BY DEF Held
  <1>2. /\ F \subseteq Elements(p) /\ G \subseteq Elements(p) /\ H \subseteq Elements(p) /\ K \subseteq Elements(p)
        /\ \A q \in Pools : free_list_[q] \subseteq Elements(q) /\ free_list_'[q] \subseteq Elements(q)
    BY <1>0 DEF ListInv, HomeInv
  <1>3. /\ \A q \in Pools : free_list_[q] \cap lost = {} /\ free_list_'[q] \cap lost = {}
        /\ \A q \in Pools : \A x \in Lists \ {l} : free_list_[q] \cap Held(x) = {} /\ free_list_'[q] \cap Held(x) = {}
        /\ \A x \in Lists \ {l} : H \cap Held(x) = {} /\ K \cap Held(x) = {}
        /\ H \cap lost = {} /\ K \cap lost = {}
    BY <1>1 DEF ListInv, ApartInv, OnceInv
  <1>4. \A e \in AllElements : /\ e \in lost \/ (\E q \in Pools : e \in free_list_[q]) \/ (\E x \in Lists : e \in Held(x))
                               /\ e \in lost \/ (\E q \in Pools : e \in free_list_'[q]) \/ (\E x \in Lists : e \in Held(x)')
    BY <1>1 DEF ListInv, CoverInv
  <1>5. F \cup H = G \cup K
    <2>1. ASSUME NEW e \in F \cup H PROVE e \in G \cup K
      <3>1. e \in AllElements /\ e \in Elements(p) /\ e \notin lost /\ \A x \in Lists \ {l} : e \notin Held(x)
        BY <1>0, <1>2, <1>3, ElementsApart
      <3> QED BY <1>1, <1>2, <1>4, <3>1, <1>0, ElementsApart
    <2>2. ASSUME NEW e \in G \cup K PROVE e \in F \cup H
      <3>1. e \in AllElements /\ e \in Elements(p) /\ e \notin lost /\ \A x \in Lists \ {l} : e \notin Held(x)
        BY <1>0, <1>2, <1>3, ElementsApart
      <3> QED BY <1>1, <1>2, <1>4, <3>1, <1>0, ElementsApart
    <2> QED BY <2>1, <2>2
  <1>6. ASSUME NEW q \in Pools, q # p PROVE free_list_'[q] = free_list_[q]
    <2>0. Elements(q) \cap Elements(p) = {}
      BY <1>0, <1>6, ElementsApart
    <2>1. ASSUME NEW e \in free_list_[q] PROVE e \in free_list_'[q]
      <3>1. e \in AllElements /\ e \in Elements(q) /\ e \notin lost /\ \A x \in Lists \ {l} : e \notin Held(x)
        BY <1>2, <1>3, ElementsApart
      <3> QED BY <1>1, <1>2, <1>4, <3>1, <2>0, ElementsApart
    <2>2. ASSUME NEW e \in free_list_'[q] PROVE e \in free_list_[q]
      <3>1. e \in AllElements /\ e \in Elements(q) /\ e \notin lost /\ \A x \in Lists \ {l} : e \notin Held(x)
        BY <1>2, <1>3, ElementsApart
      <3> QED BY <1>1, <1>2, <1>4, <3>1, <2>0, ElementsApart
    <2> QED BY <2>1, <2>2
  <1>7. /\ IsFiniteSet(F) /\ IsFiniteSet(G) /\ IsFiniteSet(H) /\ IsFiniteSet(K)
        /\ Cardinality(F) \in Nat /\ Cardinality(G) \in Nat
    BY <1>0, <1>2, ElementsFinite, FS_Subset, FS_CardinalityType
  <1>8. F \cap H = {} /\ G \cap K = {}
    BY <1>0 DEF ListInv, ApartInv
  <1> DEFINE m == Len(active_list_[l])
             n == Len(active_list_'[l])
  <1>9. Cardinality(H) = m /\ m \in Nat
    <2>1. active_list_[l] \in Seq(AllElements) /\ IsInjective(active_list_[l])
      BY DEF ListInv, TypeInv, OnceInv
    <2> QED BY <2>1, InjectiveCardinality DEF Held
  <1>10. Cardinality(K) = n /\ n \in Nat
    <2>1. active_list_'[l] \in Seq(AllElements) /\ IsInjective(active_list_'[l])
      BY DEF ListInv, TypeInv, OnceInv
    <2>2. K = ToSet(active_list_'[l])
      BY DEF Held
    <2> QED BY <2>1, <2>2, InjectiveCardinality
  <1> HIDE DEF F, G, H, K, m, n, p
  <1>11. Cardinality(F \cup H) = Cardinality(F) + m /\ Cardinality(G \cup K) = Cardinality(G) + n
    <2>1. /\ Cardinality(F \cup H) = Cardinality(F) + Cardinality(H) - Cardinality(F \cap H)
          /\ Cardinality(G \cup K) = Cardinality(G) + Cardinality(K) - Cardinality(G \cap K)
      BY <1>7, FS_Union
    <2>2. Cardinality(F \cap H) = 0 /\ Cardinality(G \cap K) = 0
      BY <1>8, FS_EmptySet
    <2> DEFINE f == Cardinality(F)
               g == Cardinality(G)
    <2>3. f \in Nat /\ g \in Nat /\ m \in Nat /\ n \in Nat
      BY <1>7, <1>9, <1>10
    <2>4. Cardinality(F \cup H) = f + m - 0 /\ Cardinality(G \cup K) = g + n - 0
      BY <1>9, <1>10, <2>1, <2>2, Zenon
    <2> HIDE DEF f, g
    <2>5. f + m - 0 = f + m /\ g + n - 0 = g + n
      BY <2>3
    <2> QED BY <2>4, <2>5, Zenon DEF f, g
  <1>12. Cardinality(G) = Cardinality(F) - (n - m)
    <2> DEFINE f == Cardinality(F)
               g == Cardinality(G)
    <2>1. f \in Nat /\ g \in Nat /\ m \in Nat /\ n \in Nat
      BY <1>7, <1>9, <1>10
    <2>2. f + m = g + n
      BY <1>5, <1>11, Zenon
    <2> HIDE DEF f, g
    <2>3. g = f - (n - m)
      BY <2>1, <2>2
    <2> QED BY <2>3 DEF f, g
  <1>a. Lost(p) \in Nat /\ remaining[p] = Cardinality(F) + Lost(p) /\ remaining'[p] = Cardinality(G) + Lost(p)
    <2>1. F \subseteq Elements(p) /\ G \subseteq Elements(p) /\ F \cap lost = {} /\ G \cap lost = {}
      BY <1>0, <1>2, <1>3 DEF F, G
    <2>2. /\ remaining[p] = Cardinality(F \cup (lost \cap Elements(p)))
          /\ remaining'[p] = Cardinality(G \cup (lost \cap Elements(p)))
      BY <1>0, <1>1 DEF remaining, Owed, F, G, Elements
    <2> QED BY <1>0, <2>1, <2>2, OwedSum, Zenon
  <1>13. \A q \in Pools : q # p => remaining'[q] = remaining[q]
    <2>1. \A q \in Pools : q # p => Owed(q)' = Owed(q)
      BY <1>1, <1>6 DEF Owed, Elements
    <2> QED BY <2>1 DEF remaining
  <1>14. remaining' = [q \in Pools |-> remaining'[q]] /\ remaining = [q \in Pools |-> remaining[q]]
    BY DEF remaining
  <1>15. remaining' = [remaining EXCEPT ![p] = @ - (n - m)]
    <2> DEFINE f == Cardinality(F)
               g == Cardinality(G)
               c == Lost(p)
    <2>1. f \in Nat /\ g \in Nat /\ c \in Nat /\ m \in Nat /\ n \in Nat /\ g = f - (n - m)
      BY <1>7, <1>9, <1>10, <1>12, <1>a
    <2>2. remaining[p] = f + c /\ remaining'[p] = g + c
      BY <1>a
    <2> HIDE DEF f, g, c, remaining
    <2>3. remaining'[p] = remaining[p] - (n - m)
      BY <2>1, <2>2
    <2> QED BY <1>0, <1>13, <1>14, <2>3
  <1> QED BY <1>15 DEF p, m, n

LEMMA BecomesStep ==
  ASSUME ListInv, ListInv', NEW l \in Lists, NEW b, active_list_' = [active_list_ EXCEPT ![l] = b],
         UNCHANGED <<lists, p_pool_, lost>>, \A x \in Lists \ {l} : \A e \in Held(x) : data'[e] = data[e]
  PROVE  Abstract!Becomes(l, Map(data', b))
  <1> DEFINE r == Map(data', b)
  <1>1. active_list_'[l] = b /\ \A x \in Lists \ {l} : active_list_'[x] = active_list_[x]
    BY DEF ListInv, TypeInv
  <1>2. value' = [value EXCEPT ![l] = r]
    BY ValueStep
  <1>3. remaining' = [remaining EXCEPT ![p_pool_[l]] = @ - (Len(b) - Len(active_list_[l]))]
    BY <1>1, Balance
  <1>4. Len(r) = Len(b)
    <2>1. b \in Seq(AllElements)
      BY <1>1 DEF ListInv, TypeInv
    <2>2. IsMap(r, Image(data', AllElements), data', b)
      BY <2>1, MapType
    <2> QED BY <2>2 DEF IsMap
  <1>5. Len(value[l]) = Len(active_list_[l])
    BY OfType DEF value
  <1> HIDE DEF r
  <1>6. remaining' = [remaining EXCEPT ![p_pool_[l]] = @ - (Len(r) - Len(value[l]))]
    BY <1>3, <1>4, <1>5
  <1>7. Abstract!Takes(p_pool_[l], Len(r) - Len(value[l]))
    BY <1>6, Zenon DEF Abstract!Takes, remaining
  <1>8. Abstract!Becomes(l, r)
    BY <1>2, <1>7, Zenon DEF Abstract!Becomes, value
  <1> QED BY <1>8 DEF r

(* Erasing leaves the values of what stays. *)
LEMMA EraseView ==
  ASSUME ListInv, ListInv', NEW l \in Lists, NEW gone, NEW stay, Parted(l, gone, stay), EraseAll(l, gone, stay),
         UNCHANGED <<lists, p_pool_>>
  PROVE  ~threw' /\ Abstract!Becomes(l, Map(data, stay))
  <1>1. /\ threw' = FALSE /\ data' = Destructed(gone) /\ lost' = lost
        /\ active_list_' = [active_list_ EXCEPT ![l] = stay]
    BY DEF EraseAll
  <1>2. /\ gone \in Seq(AllElements) /\ stay \in Seq(AllElements)
        /\ ToSet(gone) \cup ToSet(stay) = Held(l) /\ ToSet(gone) \cap ToSet(stay) = {}
    BY DEF Parted
  <1>3. \A e \in AllElements \ ToSet(gone) : data'[e] = data[e]
    BY <1>1, <1>2, GoneFacts
  <1>4. \A x \in Lists \ {l} : \A e \in Held(x) : data'[e] = data[e]
    <2>1. \A x \in Lists : Held(x) \subseteq AllElements
      BY ElementsApart DEF ListInv, HomeInv, TypeInv
    <2>2. \A x \in Lists \ {l} : Held(x) \cap ToSet(gone) = {}
      BY <1>2 DEF ListInv, OnceInv
    <2> QED BY <1>3, <2>1, <2>2
  <1>5. Map(data', stay) = Map(data, stay)
    <2>1. \A e \in ToSet(stay) : data'[e] = data[e]
      BY <1>2, <1>3, InToSet
    <2> QED BY <1>2, <2>1, MapSame
  <1>6. Abstract!Becomes(l, Map(data', stay))
    BY <1>1, <1>4, BecomesStep
  <1> QED BY <1>1, <1>5, <1>6

LEMMA EraseFromView ==
  ASSUME ListInv, ListInv', NEW l \in Lists, NEW i \in Places(l), NEW j \in Places(l), i <= j,
         EraseFrom(l, i, j), UNCHANGED <<lists, p_pool_>>
  PROVE  Abstract!Erase(l, i, j)
  <1> DEFINE a == active_list_[l]
             gone == SubSeq(a, i + 1, j)
             stay == SubSeq(a, 1, i) \o Drop(a, j)
             v == Map(data, a)
  <1>1. Parted(l, gone, stay)
    BY EraseFromParts, Zenon
  <1>2. EraseAll(l, gone, stay)
    BY DEF EraseFrom
  <1> HIDE DEF gone, stay
  <1>3. ~threw' /\ Abstract!Becomes(l, Map(data, stay))
    BY <1>1, <1>2, EraseView
  <1>4. Map(data, stay) = SubSeq(v, 1, i) \o Drop(v, j)
    <2>1. a \in Seq(AllElements) /\ i \in Nat /\ j \in Nat /\ j <= Len(a)
      BY DEF ListInv, TypeInv, Places
    <2> HIDE DEF a
    <2>2. Map(data, SubSeq(a, 1, i) \o Drop(a, j)) = SubSeq(v, 1, i) \o Drop(v, j)
      BY <2>1, MapErased, Zenon
    <2> QED BY <2>2 DEF stay
  <1>5. value[l] = v
    BY OfMap DEF value
  <1>6. Abstract!Becomes(l, SubSeq(value[l], 1, i) \o Drop(value[l], j))
    BY <1>3, <1>4, <1>5, Zenon
  <1> QED BY <1>3, <1>6, Zenon DEF Abstract!Erase, Abstract!Drop, Drop, value

(* The elements that were taken hold the first of the values. *)
LEMMA MapTaken ==
  ASSUME NEW X, NEW s \in Seq(X), NEW V, NEW vals \in Seq(V), NEW k \in Nat, Len(s) = k, k <= Len(vals), NEW d,
         \A i \in 1 .. k : d[s[i]] = vals[i]
  PROVE  Map(d, s) = SubSeq(vals, 1, k)
  <1> DEFINE r == SubSeq(vals, 1, k)
  <1>1. Map(d, s) = [i \in 1 .. k |-> d[s[i]]]
    BY DEF Map
  <1>2. r \in Seq(V) /\ Len(r) = k /\ \A i \in 1 .. k : r[i] = vals[i]
    <2>1. PICK z \in Nat : z = 0
      OBVIOUS
    <2>2. z <= k /\ z + 1 = 1 /\ k - z = k /\ \A i \in 1 .. k : z + i = i
      BY <2>1
    <2>3. IsPart(SubSeq(vals, z + 1, k), V, vals, z, k)
      BY <2>2, SubSeqSet, Zenon
    <2> QED BY <2>2, <2>3 DEF IsPart
  <1> HIDE DEF r
  <1>3. r = [i \in 1 .. k |-> r[i]]
    BY <1>2
  <1>4. r = [i \in 1 .. k |-> d[s[i]]]
    BY <1>2, <1>3
  <1> QED BY <1>1, <1>4 DEF r

LEMMA WholeSeq ==
  ASSUME NEW V, NEW vals \in Seq(V)
  PROVE  SubSeq(vals, 1, Len(vals)) = vals
  OBVIOUS

LEMMA AddedStep ==
  ASSUME NEW V, NEW vals \in Seq(V), NEW k \in Nat, k <= Len(vals), threw' = (k < Len(vals))
  PROVE  Abstract!Added(vals, k) /\ k \in 0 .. Len(vals)
  BY DEF Abstract!Added

LEMMA InsertView ==
  ASSUME ListInv, ListInv', NEW l \in Lists, NEW i \in Places(l), NEW vals \in Seq(Values), InsertBefore(l, i, vals)
  PROVE  Abstract!Insert(l, i, vals)
  <1> DEFINE p == p_pool_[l]
             a == active_list_[l]
             v == Map(data, a)
  <1>1. PICK k, s : InsertEffect(l, i, vals, k, s)
    BY InsertFacts
  <1>2. IsFresh(s, free_list_[p], k, Len(vals))
    BY <1>1 DEF InsertEffect
  <1>3. /\ k \in Nat /\ k <= Len(vals) /\ Len(s) = k /\ s \in Seq(AllElements) /\ ToSet(s) \subseteq free_list_[p]
    BY <1>2 DEF IsFresh
  <1>4. /\ active_list_' = [active_list_ EXCEPT ![l] = Inserted(a, i, s)] /\ data' = Written(s, vals)
        /\ threw' = (k < Len(vals)) /\ UNCHANGED <<lists, p_pool_, lost>>
    BY <1>1 DEF InsertEffect
  <1>5. /\ \A e \in AllElements \ ToSet(s) : data'[e] = data[e]
        /\ \A j \in 1 .. k : data'[s[j]] = vals[j]
    <2>1. Holds(data', s, vals)
      BY <1>2, <1>4, FreshData, Zenon
    <2> QED BY <1>3, <2>1 DEF Holds
  <1>6. /\ a \in Seq(AllElements) /\ i \in 0 .. Len(a) /\ p \in Pools
        /\ \A x \in Lists : Held(x) \subseteq AllElements /\ Held(x) \cap ToSet(s) = {}
    <2>1. a \in Seq(AllElements) /\ i \in 0 .. Len(a) /\ p \in Pools
      BY DEF ListInv, TypeInv, Places
    <2>2. \A x \in Lists : Held(x) \subseteq AllElements /\ Held(x) \cap free_list_[p] = {}
      BY <2>1, ElementsApart DEF ListInv, HomeInv, ApartInv, TypeInv
    <2> QED BY <1>3, <2>1, <2>2
  <1>7. \A x \in Lists : \A e \in Held(x) : data'[e] = data[e]
    BY <1>5, <1>6
  <1>8. Map(data', a) = v
    <2>1. \A e \in ToSet(a) : data'[e] = data[e]
      BY <1>7 DEF Held
    <2> QED BY <1>6, <2>1, MapSame
  <1>9. Map(data', s) = SubSeq(vals, 1, k)
    BY <1>3, <1>5, MapTaken
  <1> HIDE DEF a, v
  <1>10. Map(data', Inserted(a, i, s)) = Inserted(v, i, SubSeq(vals, 1, k))
    <2>1. Map(data', Inserted(a, i, s)) = Inserted(Map(data', a), i, Map(data', s))
      BY <1>3, <1>6, MapInserted, Zenon
    <2> QED BY <1>8, <1>9, <2>1, Zenon
  <1>11. Abstract!Becomes(l, Map(data', Inserted(a, i, s)))
    BY <1>4, <1>7, BecomesStep
  <1>12. value[l] = v
    BY OfMap DEF value, v, a
  <1>13. Abstract!Becomes(l, Inserted(value[l], i, SubSeq(vals, 1, k)))
    BY <1>10, <1>11, <1>12, Zenon
  <1>14. Abstract!Added(vals, k) /\ k \in 0 .. Len(vals)
    BY <1>3, <1>4, AddedStep
  <1> QED BY <1>13, <1>14, Zenon DEF Abstract!Insert, Abstract!Drop, Inserted, Drop, value

LEMMA AssignView ==
  ASSUME ListInv, ListInv', NEW l \in Lists, NEW vals \in Seq(Values), assign(l, vals)
  PROVE  Abstract!Assign(l, vals)
  <1>1. PICK k, s : AssignEffect(l, vals, k, s)
    BY AssignFacts
  <1>2. /\ s \in Seq(AllElements) /\ Len(s) = k /\ k \in Nat /\ k <= Len(vals) /\ ToSet(s) \subseteq AllElements
        /\ \A e \in AllElements \ (ToSet(s) \cup Held(l)) : data'[e] = data[e]
        /\ \A i \in 1 .. k : data'[s[i]] = vals[i]
    BY <1>1, AssignData
  <1>3. /\ active_list_' = [active_list_ EXCEPT ![l] = s] /\ threw' = (k < Len(vals))
        /\ UNCHANGED <<lists, p_pool_, lost>>
        /\ ToSet(s) \subseteq free_list_[p_pool_[l]] \cup Held(l)
    BY <1>1 DEF AssignEffect, IsFresh
  <1>4. \A x \in Lists \ {l} : \A e \in Held(x) : data'[e] = data[e]
    <2>1. p_pool_[l] \in Pools
      BY DEF ListInv, TypeInv
    <2>2. \A x \in Lists \ {l} : /\ Held(x) \subseteq AllElements /\ Held(x) \cap Held(l) = {}
                                 /\ Held(x) \cap free_list_[p_pool_[l]] = {}
      BY <2>1, ElementsApart DEF ListInv, HomeInv, ApartInv, OnceInv, TypeInv
    <2> QED BY <1>2, <1>3, <2>2
  <1>5. Map(data', s) = SubSeq(vals, 1, k)
    BY <1>2, MapTaken
  <1>6. Abstract!Becomes(l, Map(data', s))
    BY <1>3, <1>4, BecomesStep
  <1>7. Abstract!Added(vals, k) /\ k \in 0 .. Len(vals)
    BY <1>2, <1>3, AddedStep
  <1> QED BY <1>5, <1>6, <1>7, Zenon DEF Abstract!Assign

LEMMA ResizeView ==
  ASSUME ListInv, ListInv', NEW l \in Lists, NEW n \in 0 .. MaxLen, NEW v \in Values, resize(l, n, v)
  PROVE  Abstract!Resize(l, n, v)
  <1> DEFINE len == Len(active_list_[l])
             vals == [i \in 1 .. n - len |-> v]
  <1>0. len \in Nat /\ n \in Nat /\ len = Len(value[l])
    BY PooledListAssumption, OfType DEF ListInv, TypeInv, value
  <1>1. CASE n <= len
    <2>1. EraseFrom(l, n, len) /\ UNCHANGED <<lists, p_pool_>>
      BY <1>1 DEF resize
    <2>2. n \in Places(l) /\ len \in Places(l)
      BY <1>0, <1>1 DEF Places
    <2>3. Abstract!Erase(l, n, len)
      BY <1>1, <2>1, <2>2, EraseFromView
    <2> HIDE DEF len
    <2> QED BY <1>0, <1>1, <2>3, Zenon DEF Abstract!Resize, value
  <1>2. CASE ~(n <= len)
    <2>1. InsertBefore(l, len, vals)
      BY <1>2 DEF resize
    <2>2. len \in Places(l)
      BY <1>0 DEF Places
    <2>3. vals \in Seq(Values)
      <3>1. n - len \in Nat
        BY <1>0, <1>2
      <3> QED BY <3>1
    <2> HIDE DEF vals
    <2>4. Abstract!Insert(l, len, vals)
      BY <2>1, <2>2, <2>3, InsertView
    <2>5. Abstract!Insert(l, len, [i \in 1 .. n - len |-> v])
      BY <2>4 DEF vals
    <2> HIDE DEF len
    <2> QED BY <1>0, <1>2, <2>5, Zenon DEF Abstract!Resize, value
  <1> QED BY <1>1, <1>2

LEMMA RemoveView ==
  ASSUME ListInv, ListInv', NEW l \in Lists, NEW S \in SUBSET Values, remove_if(l, S)
  PROVE  Abstract!RemoveIf(l, S)
  <1> DEFINE gone == {e \in AllElements : data[e] \in S}
             a == active_list_[l]
             v == Map(data, a)
  <1>1. Parted(l, Select(a, gone), Select(a, AllElements \ gone))
    BY SelectParts, Zenon
  <1>2. ~threw' /\ Abstract!Becomes(l, Map(data, Select(a, AllElements \ gone)))
    <2>1. EraseAll(l, Select(a, gone), Select(a, AllElements \ gone)) /\ UNCHANGED <<lists, p_pool_>>
      BY DEF remove_if
    <2> QED BY <1>1, <2>1, EraseView
  <1>3. a \in Seq(AllElements)
    BY DEF ListInv, TypeInv
  <1>4. \A i \in 1 .. Len(a) : a[i] \in AllElements /\ data[a[i]] \in Values
    <2>1. \A i \in 1 .. Len(a) : a[i] \in Held(l)
      BY <1>3, InToSet DEF Held
    <2> QED BY <1>3, <2>1 DEF ListInv, AliveInv
  <1>5. \A i \in 1 .. Len(a) : a[i] \in AllElements \ gone <=> data[a[i]] \in Values \ S
    BY <1>4
  <1> HIDE DEF a, gone
  <1>6. Map(data, Select(a, AllElements \ gone)) = Select(v, Values \ S)
    BY <1>3, <1>5, MapSelect, Zenon
  <1>7. value[l] = v
    BY OfMap DEF value, a
  <1>8. Abstract!Select(value[l], Values \ S) = Select(value[l], Values \ S)
    BY Zenon DEF Abstract!Select, Select
  <1>9. Abstract!Becomes(l, Abstract!Select(value[l], Values \ S))
    BY <1>2, <1>6, <1>7, <1>8, Zenon
  <1> QED BY <1>2, <1>9, Zenon DEF Abstract!RemoveIf, value

LEMMA UniqueView ==
  ASSUME ListInv, ListInv', NEW l \in Lists, unique(l)
  PROVE  Abstract!Unique(l)
  <1> DEFINE a == active_list_[l]
             v == Map(data, a)
             f == Abstract!Firsts(v)
  <1>1. Parted(l, Select(a, AllElements \ ToSet(Kept(l))), Kept(l))
    BY KeptParts, Zenon
  <1>2. ~threw' /\ Abstract!Becomes(l, Map(data, Kept(l)))
    <2>1. EraseAll(l, Select(a, AllElements \ ToSet(Kept(l))), Kept(l)) /\ UNCHANGED <<lists, p_pool_>>
      BY DEF unique
    <2> QED BY <1>1, <2>1, EraseView
  <1>3. Map(data, Kept(l)) = Map(v, FirstOnes(v))
    <2>1. a \in Seq(AllElements)
      BY DEF ListInv, TypeInv
    <2> QED BY <2>1, MapKept, Zenon
  <1> HIDE DEF v
  <1>4. f = FirstOnes(v)
    BY Zenon DEF Abstract!Firsts, Abstract!Select, FirstOnes, Select
  <1>5. Map(v, f) = [i \in DOMAIN f |-> v[f[i]]]
    BY DEF Map
  <1>6. value[l] = v
    BY OfMap DEF value, v
  <1>7. Abstract!Becomes(l, [i \in DOMAIN f |-> v[f[i]]])
    BY <1>2, <1>3, <1>4, <1>5, Zenon
  <1> QED BY <1>2, <1>6, <1>7, Zenon DEF Abstract!Unique, value

LEMMA ReverseView ==
  ASSUME ListInv, ListInv', NEW l \in Lists, reverse(l)
  PROVE  Abstract!Reversed(l)
  <1> DEFINE a == active_list_[l]
             v == Map(data, a)
  <1>1. /\ threw' = FALSE /\ data' = data /\ UNCHANGED <<lists, p_pool_, lost>>
        /\ active_list_' = [active_list_ EXCEPT ![l] = Reverse(a)]
    BY DEF reverse, Rearranged
  <1>2. Abstract!Becomes(l, Map(data', Reverse(a)))
    BY <1>1, BecomesStep
  <1>3. Map(data, Reverse(a)) = Reverse(v)
    <2>1. a \in Seq(AllElements)
      BY DEF ListInv, TypeInv
    <2> QED BY <2>1, MapReverse, Zenon
  <1>4. value[l] = v
    BY OfMap DEF value
  <1>5. Abstract!Becomes(l, Reverse(value[l]))
    BY <1>1, <1>2, <1>3, <1>4, Zenon
  <1> QED BY <1>1, <1>5, Zenon DEF Abstract!Reversed, Abstract!Reverse, Reverse, value

(* The same elements in another order, and so their values. *)
LEMMA PermBySet ==
  ASSUME NEW X, NEW s \in Seq(X), NEW t \in Seq(X), IsInjective(s), IsInjective(t), ToSet(s) = ToSet(t), NEW d
  PROVE  Abstract!IsPerm(Map(d, s), Map(d, t))
  <1> DEFINE a == Map(d, s)
             b == Map(d, t)
             D == DOMAIN s
             E == DOMAIN t
             p == [i \in E |-> CHOOSE j \in D : s[j] = t[i]]
  <1>1. /\ \A i \in E : \E j \in D : s[j] = t[i]
        /\ \A j \in D : \E i \in E : t[i] = s[j]
    BY DEF ToSet
  <1>2. /\ \A i, j \in D : s[i] = s[j] => i = j
        /\ \A i, j \in E : t[i] = t[j] => i = j
    BY DEF IsInjective
  <1>3. \A i \in E : p[i] \in D /\ s[p[i]] = t[i]
    BY <1>1, Zenon
  <1>4. p \in [E -> D]
    BY <1>3
  <1> HIDE DEF p
  <1>5. \A i, j \in E : p[i] = p[j] => i = j
    BY <1>2, <1>3
  <1>6. \A j \in D : \E i \in E : p[i] = j
    <2> TAKE j \in D
    <2>1. PICK i \in E : t[i] = s[j]
      BY <1>1
    <2>2. p[i] = j
      BY <1>2, <1>3, <2>1
    <2> QED BY <2>2
  <1>7. DOMAIN a = D /\ DOMAIN b = E /\ \A i \in E : b[i] = a[p[i]]
    BY <1>3 DEF Map
  <1> HIDE DEF a, b, D, E
  <1>8. p \in Bijection(E, D)
    BY <1>4, <1>5, <1>6 DEF Bijection, Injection, Surjection, IsInjective
  <1>9. Abstract!Bijection(E, D) = Bijection(E, D)
    BY Zenon DEF Abstract!Bijection, Abstract!Injection, Abstract!Surjection, Abstract!IsInjective,
              Bijection, Injection, Surjection, IsInjective
  <1>10. Abstract!IsPerm(a, b)
    BY <1>7, <1>8, <1>9, Zenon DEF Abstract!IsPerm
  <1> QED BY <1>10 DEF a, b

LEMMA SortView ==
  ASSUME ListInv, ListInv', NEW l \in Lists, sort(l)
  PROVE  Abstract!Sort(l)
  <1> DEFINE a == active_list_[l]
             v == Map(data, a)
             n == Len(a)
  <1>1. a \in Seq(AllElements) /\ IsInjective(a) /\ n \in Nat /\ DOMAIN a = 1 .. n
    BY DEF ListInv, TypeInv, OnceInv
  <1>2. PICK p \in Bijection(DOMAIN a, DOMAIN a) :
          /\ \A i, j \in DOMAIN a :
               i < j => \/ data[a[p[i]]] < data[a[p[j]]]
                        \/ data[a[p[i]]] = data[a[p[j]]] /\ p[i] < p[j]
          /\ active_list_' = [active_list_ EXCEPT ![l] = [i \in DOMAIN a |-> a[p[i]]]]
    BY DEF sort
  <1> DEFINE r == [i \in DOMAIN a |-> a[p[i]]]
             w == Map(data, r)
  <1>3. r \in Seq(AllElements) /\ Len(r) = n /\ ToSet(r) = ToSet(a) /\ IsInjective(r)
    BY <1>1, PermutedSet
  <1>4. /\ threw' = FALSE /\ data' = data /\ UNCHANGED <<lists, p_pool_, lost>>
        /\ active_list_' = [active_list_ EXCEPT ![l] = r]
    BY <1>2 DEF sort, Rearranged
  <1>5. \A i \in 1 .. n : r[i] = a[p[i]]
    BY <1>1
  <1>6. \A i \in 1 .. n : data[r[i]] \in Nat
    <2>1. \A i \in 1 .. n : r[i] \in Held(l)
      BY <1>3, InToSet DEF Held
    <2>2. \A e \in Held(l) : data[e] \in Nat
      BY PooledListAssumption DEF ListInv, AliveInv
    <2> QED BY <2>1, <2>2
  <1> HIDE DEF r
  <1>7. Len(w) = n /\ \A i \in 1 .. n : w[i] = data[r[i]]
    <2>1. IsMap(w, Image(data, AllElements), data, r)
      BY <1>3, MapType
    <2> QED BY <1>3, <2>1 DEF IsMap
  <1>8. Abstract!Ascending(w)
    <2>1. ASSUME NEW i \in 1 .. n - 1 PROVE w[i] <= w[i + 1]
      <3>1. i \in 1 .. n /\ i + 1 \in 1 .. n /\ i < i + 1
        BY <1>1
      <3>2. data[a[p[i]]] < data[a[p[i + 1]]] \/ data[a[p[i]]] = data[a[p[i + 1]]]
        BY <1>1, <1>2, <3>1
      <3>3. w[i] = data[a[p[i]]] /\ w[i + 1] = data[a[p[i + 1]]] /\ w[i] \in Nat /\ w[i + 1] \in Nat
        BY <1>5, <1>6, <1>7, <3>1
      <3>4. w[i] < w[i + 1] \/ w[i] = w[i + 1]
        BY <3>2, <3>3, Zenon
      <3> QED BY <3>3, <3>4
    <2> HIDE DEF w
    <2> QED BY <1>7, <2>1 DEF Abstract!Ascending
  <1>9. Abstract!IsPerm(v, w)
    BY <1>1, <1>3, PermBySet
  <1> HIDE DEF w
  <1>10. Abstract!Becomes(l, w)
    <2>1. Abstract!Becomes(l, Map(data', r))
      BY <1>4, BecomesStep
    <2> QED BY <1>4, <2>1, Zenon DEF w
  <1>11. value[l] = v
    BY OfMap DEF value
  <1>12. value'[l] = w
    <2>1. active_list_'[l] = r
      BY <1>4 DEF ListInv, TypeInv
    <2>2. Of(l)' = w
      BY <1>4, <2>1, OfMap DEF w
    <2> QED BY <2>2 DEF value
  <1> HIDE DEF v
  <1>13. /\ ~threw' /\ Abstract!Ascending(value'[l]) /\ Abstract!IsPerm(value[l], value'[l])
         /\ Abstract!Becomes(l, value'[l])
    BY <1>4, <1>8, <1>9, <1>10, <1>11, <1>12, Zenon
  <1> QED BY <1>13, Zenon DEF Abstract!Sort, value

(* All of x moves to l. *)
LEMMA MoveView ==
  ASSUME ListInv, NEW l \in Lists, NEW x \in Lists, l # x, p_pool_[l] = p_pool_[x], Rearranged, UNCHANGED p_pool_,
         NEW r, active_list_' = [active_list_ EXCEPT ![l] = r, ![x] = <<>>]
  PROVE  Abstract!Moves(l, x, Map(data, r)) /\ value'[l] = Map(data, r)
  <1> DEFINE w == Map(data, r)
  <1>1. /\ threw' = FALSE /\ lists' = lists /\ free_list_' = free_list_ /\ data' = data /\ p_pool_' = p_pool_
    BY DEF Rearranged
  <1>2. /\ active_list_'[l] = r /\ active_list_'[x] = <<>>
        /\ \A y \in Lists \ {l, x} : active_list_'[y] = active_list_[y]
    BY DEF ListInv, TypeInv
  <1>3. Map(data, <<>>) = <<>>
    BY DEF Map
  <1>4. Of(l)' = w /\ Of(x)' = <<>> /\ \A y \in Lists \ {l, x} : Of(y)' = Of(y)
    <2>1. \A y : Of(y) = Map(data, active_list_[y]) /\ Of(y)' = Map(data, active_list_'[y])
      BY <1>1, OfMap, Zenon
    <2> QED BY <1>2, <1>3, <2>1, Zenon
  <1> HIDE DEF w
  <1>5. value' = [value EXCEPT ![l] = w, ![x] = <<>>]
    <2>1. value' = [y \in Lists |-> Of(y)']
      BY DEF value
    <2>2. [value EXCEPT ![l] = w, ![x] = <<>>]
            = [y \in Lists |-> IF y = x THEN <<>> ELSE IF y = l THEN w ELSE Of(y)]
      BY DEF value
    <2> QED BY <1>4, <2>1, <2>2
  <1>6. remaining' = remaining
    BY DEF remaining, Rearranged, Owed, Elements
  <1>7. Abstract!Moves(l, x, w)
    <2>1. ~threw' /\ p_pool_[l] = p_pool_[x] /\ UNCHANGED <<lists, p_pool_>>
      BY <1>1
    <2> QED BY <1>5, <1>6, <2>1 DEF Abstract!Moves, value, remaining
  <1>8. value'[l] = w
    BY <1>4 DEF value
  <1> QED BY <1>7, <1>8 DEF w

LEMMA SpliceView ==
  ASSUME ListInv, NEW l \in Lists, NEW x \in Lists, NEW i \in Places(l), splice(l, i, x)
  PROVE  Abstract!Splice(l, i, x)
  <1> DEFINE a == active_list_[l]
             b == active_list_[x]
             r == Inserted(a, i, b)
  <1>1. Rearranged /\ UNCHANGED p_pool_ /\ p_pool_[l] = p_pool_[x] /\ l # x
    BY DEF splice
  <1>2. a \in Seq(AllElements) /\ b \in Seq(AllElements) /\ i \in 0 .. Len(a)
    BY DEF ListInv, TypeInv, Places
  <1>3. active_list_' = [active_list_ EXCEPT ![l] = r, ![x] = <<>>]
    BY DEF splice, Inserted
  <1> HIDE DEF r
  <1>4. Abstract!Moves(l, x, Map(data, r))
    BY <1>1, <1>3, MoveView
  <1>5. Map(data, r) = Inserted(Map(data, a), i, Map(data, b))
    <2> HIDE DEF a, b
    <2> QED BY <1>2, MapInserted, Zenon DEF r
  <1>6. value[l] = Map(data, a) /\ value[x] = Map(data, b)
    BY OfMap DEF value
  <1>7. Abstract!Moves(l, x, Inserted(value[l], i, value[x]))
    BY <1>4, <1>5, <1>6, Zenon
  <1> QED BY <1>7, Zenon DEF Abstract!Splice, Abstract!Drop, Inserted, Drop, value

LEMMA MapAscending ==
  ASSUME NEW X, NEW s \in Seq(X), NEW d
  PROVE  Abstract!Ascending(Map(d, s)) <=> \A i \in 1 .. Len(s) - 1 : d[s[i]] <= d[s[i + 1]]
  <1> DEFINE m == Map(d, s)
             n == Len(s)
  <1>1. n \in Nat /\ Len(m) = n /\ \A i \in 1 .. n : m[i] = d[s[i]]
    <2>1. IsMap(m, Image(d, X), d, s)
      BY MapType
    <2> QED BY <2>1 DEF IsMap
  <1> HIDE DEF m, n
  <1>2. \A i \in 1 .. n - 1 : i \in 1 .. n /\ i + 1 \in 1 .. n
    BY <1>1
  <1>3. \A i \in 1 .. n - 1 : m[i] = d[s[i]] /\ m[i + 1] = d[s[i + 1]]
    BY <1>1, <1>2
  <1>4. Abstract!Ascending(m) <=> \A i \in 1 .. n - 1 : m[i] <= m[i + 1]
    BY <1>1, Zenon DEF Abstract!Ascending
  <1> QED BY <1>3, <1>4, Zenon DEF m, n

LEMMA MergeView ==
  ASSUME ListInv, NEW l \in Lists, NEW x \in Lists, l # x, merge(l, x)
  PROVE  Abstract!Merge(l, x)
  <1> DEFINE a == active_list_[l]
             b == active_list_[x]
             r == Merged(a, b)
             v == Map(data, a)
             u == Map(data, b)
             w == Map(data, r)
             X == Held(l) \cup Held(x)
             ab == a \o b
  <1>1. Rearranged /\ UNCHANGED p_pool_ /\ p_pool_[l] = p_pool_[x]
    BY DEF merge
  <1>2. /\ a \in Seq(AllElements) /\ b \in Seq(AllElements) /\ IsInjective(a) /\ IsInjective(b)
        /\ ToSet(a) \cap ToSet(b) = {} /\ ToSet(a) = Held(l) /\ ToSet(b) = Held(x)
    BY DEF ListInv, TypeInv, OnceInv, Held
  <1>3. active_list_' = [active_list_ EXCEPT ![l] = r, ![x] = <<>>]
    BY DEF merge
  <1>4. value[l] = v /\ value[x] = u
    BY OfMap DEF value
  <1>x. a \in Seq(X) /\ b \in Seq(X) /\ \A e \in X : data[e] \in Nat
    <2>1. a \in Seq(ToSet(a)) /\ b \in Seq(ToSet(b))
      BY <1>2 DEF ToSet
    <2>2. ToSet(a) \subseteq X /\ ToSet(b) \subseteq X
      BY <1>2
    <2>3. \A e \in X : data[e] \in Nat
      BY PooledListAssumption DEF ListInv, AliveInv
    <2> HIDE DEF a, b, X
    <2> QED BY <2>1, <2>2, <2>3, SeqMonotonic
  <1> HIDE DEF a, b
  <1>5. /\ r \in Seq(AllElements) /\ Len(r) = Len(a) + Len(b) /\ IsInjective(r)
        /\ ToSet(r) = ToSet(a) \cup ToSet(b)
    BY <1>2, MergedSet
  <1>6. ab \in Seq(AllElements) /\ IsInjective(ab) /\ ToSet(ab) = ToSet(a) \cup ToSet(b)
    <2>1. Joins(ab, AllElements, a, b)
      BY <1>2, ConcatSets, Zenon
    <2> QED BY <1>2, <2>1 DEF Joins
  <1>7. Map(data, ab) = v \o u
    BY <1>2, MapConcat, Zenon
  <1>8. Abstract!IsPerm(v \o u, w)
    <2>1. Abstract!IsPerm(Map(data, ab), Map(data, r))
      <3> HIDE DEF ab, r
      <3>1. ToSet(ab) = ToSet(r)
        BY <1>5, <1>6
      <3> QED BY <1>5, <1>6, <3>1, PermBySet, Zenon
    <2> QED BY <1>7, <2>1, Zenon
  <1>9. ASSUME Abstract!Ascending(v), Abstract!Ascending(u) PROVE Abstract!Ascending(w)
    <2>1. /\ \A i \in 1 .. Len(a) - 1 : data[a[i]] <= data[a[i + 1]]
          /\ \A i \in 1 .. Len(b) - 1 : data[b[i]] <= data[b[i + 1]]
      BY <1>2, <1>9, MapAscending
    <2> HIDE DEF X
    <2>2. \A k \in 1 .. (Len(a) + Len(b)) - 1 : data[Merged(a, b)[k]] <= data[Merged(a, b)[k + 1]]
      BY <1>x, <2>1, MergedAscending
    <2>3. \A k \in 1 .. Len(r) - 1 : data[r[k]] <= data[r[k + 1]]
      BY <1>5, <2>2, Zenon
    <2> HIDE DEF r
    <2> QED BY <1>5, <2>3, MapAscending
  <1> HIDE DEF r, v, u
  <1>10. Abstract!Moves(l, x, w) /\ value'[l] = w
    BY <1>1, <1>3, MoveView
  <1> HIDE DEF w
  <1>11. /\ Abstract!IsPerm(value[l] \o value[x], value'[l])
         /\ (Abstract!Ascending(value[l]) /\ Abstract!Ascending(value[x])) => Abstract!Ascending(value'[l])
         /\ Abstract!Moves(l, x, value'[l])
    BY <1>4, <1>8, <1>9, <1>10, Zenon
  <1> QED BY <1>11, Zenon DEF Abstract!Merge, value

LEMMA SwapView ==
  ASSUME ListInv, NEW l \in Lists, NEW x \in Lists, swap(l, x)
  PROVE  Abstract!Swap(l, x)
  <1>1. /\ threw' = FALSE /\ lists' = lists /\ free_list_' = free_list_ /\ data' = data
        /\ active_list_' = [active_list_ EXCEPT ![l] = active_list_[x], ![x] = active_list_[l]]
        /\ p_pool_' = [p_pool_ EXCEPT ![l] = p_pool_[x], ![x] = p_pool_[l]]
    BY DEF Rearranged, swap
  <1>2. /\ active_list_'[l] = active_list_[x] /\ active_list_'[x] = active_list_[l]
        /\ \A y \in Lists \ {l, x} : active_list_'[y] = active_list_[y]
    BY <1>1 DEF ListInv, TypeInv
  <1>3. Of(l)' = Of(x) /\ Of(x)' = Of(l) /\ \A y \in Lists \ {l, x} : Of(y)' = Of(y)
    <2>1. \A y : Of(y) = Map(data, active_list_[y]) /\ Of(y)' = Map(data, active_list_'[y])
      BY <1>1, OfMap, Zenon
    <2> QED BY <1>2, <2>1, Zenon
  <1>4. value' = [value EXCEPT ![l] = value[x], ![x] = value[l]]
    <2>1. value' = [y \in Lists |-> Of(y)']
      BY DEF value
    <2>2. [value EXCEPT ![l] = value[x], ![x] = value[l]]
            = [y \in Lists |-> IF y = x THEN Of(l) ELSE IF y = l THEN Of(x) ELSE Of(y)]
      BY DEF value
    <2> QED BY <1>3, <2>1, <2>2
  <1>5. remaining' = remaining
    BY DEF remaining, Rearranged, swap, Owed, Elements
  <1> QED BY <1>1, <1>4, <1>5 DEF Abstract!Swap, value, remaining

(* k elements are taken from pool p. *)
LEMMA TakesStep ==
  ASSUME ListInv, NEW p \in Pools, NEW s, NEW k, NEW n, IsFresh(s, free_list_[p], k, n),
         free_list_' = [free_list_ EXCEPT ![p] = @ \ ToSet(s)], UNCHANGED lost
  PROVE  Abstract!Takes(p, k)
  <1>1. free_list_'[p] = free_list_[p] \ ToSet(s) /\ \A q \in Pools : q # p => free_list_'[q] = free_list_[q]
    BY DEF ListInv, TypeInv
  <1>2. Cardinality(free_list_[p] \ ToSet(s)) = Cardinality(free_list_[p]) - k /\ k \in Nat
    BY DEF IsFresh
  <1>a. remaining'[p] = remaining[p] - k
    <2> DEFINE F == free_list_[p]
               G == free_list_[p] \ ToSet(s)
    <2>1. G \subseteq Elements(p) /\ G \cap lost = {}
      BY DEF ListInv, HomeInv, ApartInv
    <2>2. remaining'[p] = Cardinality(G \cup (lost \cap Elements(p)))
      BY <1>1 DEF remaining, Owed, Elements
    <2>3. remaining'[p] = Cardinality(G) + Lost(p)
      <3> HIDE DEF G
      <3> QED BY <2>1, <2>2, OwedSum, Zenon
    <2>4. remaining[p] = Cardinality(F) + Lost(p) /\ Cardinality(F) \in Nat /\ Lost(p) \in Nat
      BY FreeFinite
    <2>5. Cardinality(G) = Cardinality(F) - k
      BY <1>2
    <2> HIDE DEF F, G, remaining
    <2> QED BY <1>2, <2>3, <2>4, <2>5
  <1>3. \A q \in Pools : q # p => remaining'[q] = remaining[q]
    BY <1>1 DEF remaining, Owed, Elements
  <1>4. remaining' = [q \in Pools |-> remaining'[q]] /\ remaining = [q \in Pools |-> remaining[q]]
    BY DEF remaining
  <1>5. remaining' = [remaining EXCEPT ![p] = @ - k]
    <2> HIDE DEF remaining
    <2> QED BY <1>a, <1>3, <1>4
  <1> QED BY <1>5, Zenon DEF Abstract!Takes, remaining

(* What was free is in no list. *)
LEMMA FreshApart ==
  ASSUME ListInv, NEW p \in Pools, NEW s, NEW k, NEW n, IsFresh(s, free_list_[p], k, n)
  PROVE  /\ s \in Seq(AllElements) /\ ToSet(s) \subseteq AllElements
         /\ \A x \in Lists : Held(x) \subseteq AllElements \ ToSet(s)
  <1>1. s \in Seq(AllElements) /\ ToSet(s) \subseteq free_list_[p]
    BY DEF IsFresh
  <1>2. \A x \in Lists : Held(x) \subseteq AllElements /\ Held(x) \cap free_list_[p] = {}
    BY ElementsApart DEF ListInv, HomeInv, ApartInv, TypeInv
  <1> QED BY <1>1, <1>2, InToSet

(* A copy that throws shows nowhere but in what is lost. *)
LEMMA LeakView ==
  ASSUME ListInv, NEW p \in Pools, NEW s, NEW k, NEW n, IsFresh(s, free_list_[p], k, n),
         data' = Leaked(s), UNCHANGED active_list_,
         free_list_' = [free_list_ EXCEPT ![p] = @ \ ToSet(s)], lost' = lost \cup ToSet(s)
  PROVE  value' = value /\ remaining' = remaining
  <1>1. s \in Seq(AllElements) /\ \A x \in Lists : Held(x) \subseteq AllElements \ ToSet(s)
    BY FreshApart
  <1>2. \A e \in AllElements \ ToSet(s) : data'[e] = data[e]
    BY <1>1, GoneFacts
  <1>3. ASSUME NEW x \in Lists PROVE Of(x)' = Of(x)
    <2>1. active_list_'[x] = active_list_[x] /\ \A e \in Held(x) : data'[e] = data[e]
      BY <1>1, <1>2
    <2> QED BY <2>1, OfSame
  <1>4. ASSUME NEW q \in Pools PROVE Owed(q)' = Owed(q)
    <2>1. free_list_'[q] = IF q = p THEN free_list_[q] \ ToSet(s) ELSE free_list_[q]
      BY DEF ListInv, TypeInv
    <2>2. ToSet(s) \subseteq free_list_[p] /\ ToSet(s) \subseteq Elements(p)
      BY DEF IsFresh, ListInv, HomeInv
    <2>3. q # p => Elements(q) \cap Elements(p) = {}
      BY ElementsApart
    <2>4. lost' \cap Elements(q) = IF q = p THEN (lost \cap Elements(q)) \cup ToSet(s) ELSE lost \cap Elements(q)
      BY <2>2, <2>3
    <2>5. Elements(q)' = Elements(q)
      BY DEF Elements
    <2> QED BY <2>1, <2>2, <2>4, <2>5 DEF Owed
  <1> QED BY <1>3, <1>4 DEF value, remaining

LEMMA ConstructView ==
  ASSUME ListInv, NEW l \in Lists, NEW p \in Pools, NEW vals \in Seq(Values), ConstructFrom(l, p, vals)
  PROVE  Abstract!Construct(l, p, vals)
  <1>1. PICK k \in Taken(free_list_[p], Len(vals)) :
      LET s == Fresh(free_list_[p], k)
      IN  /\ threw' = (k < Len(vals))
          /\ free_list_' = [free_list_ EXCEPT ![p] = @ \ ToSet(s)]
          /\ IF threw' THEN /\ data' = Leaked(s) /\ lost' = lost \cup ToSet(s)
                            /\ UNCHANGED <<lists, active_list_, p_pool_>>
             ELSE /\ data' = Written(s, vals)
                  /\ lists' = lists \cup {l}
                  /\ active_list_' = [active_list_ EXCEPT ![l] = s]
                  /\ p_pool_' = [p_pool_ EXCEPT ![l] = p]
                  /\ UNCHANGED lost
    BY DEF ConstructFrom
  <1> DEFINE s == Fresh(free_list_[p], k)
  <1>2. IsFresh(s, free_list_[p], k, Len(vals))
    <2>1. free_list_[p] \in SUBSET Elements(p) /\ Len(vals) \in Nat
      BY DEF ListInv, HomeInv
    <2> QED BY <2>1, FreshFacts, Zenon
  <1> HIDE DEF s
  <1>3. /\ k \in Nat /\ k <= Len(vals) /\ Len(s) = k /\ s \in Seq(AllElements) /\ Len(vals) \in Nat
    BY <1>2 DEF IsFresh
  <1>4. l \notin lists
    BY DEF ConstructFrom
  <1>5. free_list_' = [free_list_ EXCEPT ![p] = @ \ ToSet(s)]
    BY <1>1 DEF s
  <1>7. CASE threw'
    <2>1. data' = Leaked(s) /\ UNCHANGED <<lists, active_list_, p_pool_>> /\ lost' = lost \cup ToSet(s)
      BY <1>1, <1>7 DEF s
    <2>2. value' = value /\ remaining' = remaining
      BY <1>2, <1>5, <2>1, LeakView
    <2>3. vals # <<>>
      <3>1. k < Len(vals)
        BY <1>1, <1>7
      <3> QED BY <1>3, <3>1, EmptySet
    <2>4. Abstract!Nothing(vals)
      BY <1>7, <2>1, <2>2, <2>3, Zenon DEF Abstract!Nothing, value, remaining
    <2> QED BY <1>4, <2>4, Zenon DEF Abstract!Construct
  <1>8. CASE ~threw'
    <2>1. /\ data' = Written(s, vals) /\ lists' = lists \cup {l}
          /\ active_list_' = [active_list_ EXCEPT ![l] = s] /\ p_pool_' = [p_pool_ EXCEPT ![l] = p]
          /\ lost' = lost
      BY <1>1, <1>8 DEF s
    <2>2. k = Len(vals)
      <3>1. ~(k < Len(vals))
        BY <1>1, <1>8, Zenon
      <3> QED BY <1>3, <3>1
    <2>3. /\ \A e \in AllElements \ ToSet(s) : data'[e] = data[e]
          /\ \A j \in 1 .. k : data'[s[j]] = vals[j]
      <3>1. Holds(data', s, vals)
        BY <1>2, <2>1, FreshData, Zenon
      <3> QED BY <1>3, <3>1 DEF Holds
    <2>4. \A x \in Lists : Held(x) \subseteq AllElements \ ToSet(s)
      BY <1>2, FreshApart
    <2>5. value' = [value EXCEPT ![l] = Map(data', s)]
      BY <2>1, <2>3, <2>4, ValueStep
    <2>6. Map(data', s) = vals
      <3>1. Map(data', s) = SubSeq(vals, 1, k)
        BY <1>3, <2>3, MapTaken
      <3>2. SubSeq(vals, 1, Len(vals)) = vals
        BY WholeSeq
      <3> QED BY <2>2, <3>1, <3>2, Zenon
    <2>7. value' = [value EXCEPT ![l] = vals]
      BY <2>5, <2>6, Zenon
    <2>8. Abstract!Takes(p, Len(vals))
      <3>1. Abstract!Takes(p, k)
        BY <1>2, <1>5, <2>1, TakesStep
      <3> QED BY <2>2, <3>1, Zenon
    <2> QED BY <1>4, <1>8, <2>1, <2>7, <2>8, Zenon DEF Abstract!Construct, value
  <1> QED BY <1>7, <1>8

(* The elements that l held are free again. *)
LEMMA GiveBack ==
  ASSUME ListInv, NEW l \in Lists, NEW F, IsFiniteSet(F), F \cap Held(l) = {}
  PROVE  Cardinality(F \cup Held(l)) = Cardinality(F) + Len(active_list_[l])
  <1> DEFINE a == active_list_[l]
             H == Held(l)
  <1>1. IsFiniteSet(H) /\ Cardinality(H) = Len(a) /\ Len(a) \in Nat
    <2>1. a \in Seq(AllElements) /\ IsInjective(a)
      BY DEF ListInv, TypeInv, OnceInv
    <2> QED BY <2>1, InjectiveCardinality DEF Held
  <1> DEFINE m == Len(a)
             f == Cardinality(F)
  <1> HIDE DEF H
  <1>2. Cardinality(F \cup H) = f + Cardinality(H) - Cardinality(F \cap H)
    BY <1>1, FS_Union
  <1>3. Cardinality(F \cap H) = 0 /\ f \in Nat
    BY FS_EmptySet, FS_CardinalityType DEF H
  <1>4. Cardinality(F \cup H) = f + m - 0
    BY <1>1, <1>2, <1>3, Zenon
  <1> HIDE DEF m, f
  <1>5. f + m - 0 = f + m
    BY <1>1, <1>3 DEF m
  <1> QED BY <1>4, <1>5, Zenon DEF m, f, H

LEMMA DestroyView ==
  ASSUME ListInv, NEW l \in Lists, Destroy(l)
  PROVE  Abstract!Destroy(l)
  <1> DEFINE a == active_list_[l]
             p == p_pool_[l]
             F == free_list_[p]
             n == Len(a)
  <1>1. /\ threw' = FALSE /\ data' = Destructed(a) /\ lists' = lists \ {l}
        /\ free_list_' = [free_list_ EXCEPT ![p] = @ \cup Held(l)]
        /\ active_list_' = [active_list_ EXCEPT ![l] = <<>>]
        /\ p_pool_' = [p_pool_ EXCEPT ![l] = NoPool]
    BY DEF Destroy, EraseAll, Held
  <1>2. a \in Seq(AllElements) /\ ToSet(a) = Held(l) /\ p \in Pools /\ n \in Nat
    BY DEF ListInv, TypeInv, Held
  <1>3. \A e \in AllElements \ Held(l) : data'[e] = data[e]
    BY <1>1, <1>2, GoneFacts
  <1>4. \A x \in Lists \ {l} : \A e \in Held(x) : data'[e] = data[e]
    <2>1. \A x \in Lists \ {l} : Held(x) \subseteq AllElements \ Held(l)
      BY ElementsApart DEF ListInv, HomeInv, OnceInv, TypeInv
    <2> QED BY <1>3, <2>1
  <1>5. value' = [value EXCEPT ![l] = <<>>]
    <2>1. value' = [value EXCEPT ![l] = Map(data', <<>>)]
      BY <1>1, <1>4, ValueStep
    <2>2. Map(data', <<>>) = <<>>
      BY DEF Map
    <2> QED BY <2>1, <2>2, Zenon
  <1>6. \A y \in lists \ {l} : p_pool_'[y] = p_pool_[y]
    BY <1>1 DEF ListInv, TypeInv
  <1>7. /\ IsFiniteSet(F) /\ Cardinality(F) \in Nat /\ F \cap Held(l) = {} /\ Lost(p) \in Nat
        /\ remaining[p] = Cardinality(F) + Lost(p)
    BY <1>2, FreeFinite DEF ListInv, ApartInv
  <1>8. Cardinality(F \cup Held(l)) = Cardinality(F) + n
    <2> HIDE DEF F
    <2> QED BY <1>7, GiveBack
  <1>9. free_list_'[p] = F \cup Held(l) /\ \A q \in Pools : q # p => free_list_'[q] = free_list_[q]
    BY <1>1, <1>2 DEF ListInv, TypeInv
  <1>a. lost' = lost
    BY DEF Destroy, EraseAll
  <1>10. remaining'[p] = Cardinality(F) + n + Lost(p) /\ \A q \in Pools : q # p => remaining'[q] = remaining[q]
    <2> DEFINE G == F \cup Held(l)
    <2>1. G \subseteq Elements(p) /\ G \cap lost = {}
      BY <1>2 DEF ListInv, HomeInv, ApartInv
    <2>2. remaining'[p] = Cardinality(G \cup (lost \cap Elements(p)))
      BY <1>2, <1>9, <1>a DEF remaining, Owed, Elements
    <2>3. remaining'[p] = Cardinality(G) + Lost(p)
      <3> HIDE DEF G
      <3> QED BY <1>2, <2>1, <2>2, OwedSum, Zenon
    <2>4. \A q \in Pools : q # p => remaining'[q] = remaining[q]
      BY <1>9, <1>a DEF remaining, Owed, Elements
    <2> QED BY <1>8, <2>3, <2>4, Zenon
  <1>11. remaining' = [q \in Pools |-> remaining'[q]] /\ remaining = [q \in Pools |-> remaining[q]]
    BY DEF remaining
  <1> HIDE DEF remaining, n, p, F
  <1>12. remaining' = [remaining EXCEPT ![p] = @ - (-n)]
    <2>1. Cardinality(F) + n + Lost(p) = remaining[p] - (-n)
      BY <1>2, <1>7
    <2> QED BY <1>10, <1>11, <2>1
  <1>13. n = Len(value[l])
    BY OfType DEF value, n
  <1>14. Abstract!Takes(p_pool_[l], -Len(value[l]))
    BY <1>12, <1>13, Zenon DEF Abstract!Takes, remaining, p
  <1> QED BY <1>1, <1>5, <1>6, <1>14, Zenon DEF Abstract!Destroy, value

LEMMA CopyView ==
  ASSUME ListInv, ListInv', NEW l \in Lists, NEW x \in Lists, CopyFrom(l, x)
  PROVE  Abstract!Copy(l, x)
  <1> DEFINE p == p_pool_[x]
             q == p_pool_[l]
             n == Len(active_list_[x])
             m == Len(active_list_[l])
  <1>1. PICK k, s : CopyEffect(l, x, k, s)
    BY CopyFacts
  <1> DEFINE rest == [free_list_ EXCEPT ![p] = @ \ ToSet(s)]
  <1>2. /\ IsFresh(s, free_list_[p], k, n) /\ threw' = (k < n) /\ lists' = lists
        /\ p \in Pools /\ q \in Pools /\ n \in Nat /\ m \in Nat
    BY <1>1 DEF CopyEffect, ListInv, TypeInv
  <1>3. k \in Nat /\ k <= n
    BY <1>2 DEF IsFresh
  <1>4. value[x] \in Seq(Values) /\ Len(value[x]) = n /\ Len(value[l]) = m /\ value[x] = Of(x)
    BY OfType DEF value
  <1>6. CASE k < n
    <2>1. ~(k = n)
      BY <1>2, <1>3, <1>6
    <2>2. /\ data' = Leaked(s) /\ UNCHANGED <<active_list_, p_pool_>> /\ free_list_' = rest
          /\ lost' = lost \cup ToSet(s)
      BY <1>1, <2>1 DEF CopyEffect
    <2>3. value[x] # <<>>
      <3>1. Len(value[x]) # 0
        BY <1>2, <1>3, <1>4, <1>6
      <3> HIDE DEF value
      <3> QED BY <3>1, EmptySet, Zenon
    <2>4. value' = value /\ remaining' = remaining
      <3> HIDE DEF n
      <3> QED BY <1>2, <2>2, LeakView
    <2>5. threw'
      BY <1>2, <1>6
    <2> QED BY <1>2, <2>2, <2>3, <2>4, <2>5, Zenon DEF Abstract!Copy, Abstract!Nothing, value, remaining
  <1>7. CASE ~(k < n)
    <2>1. /\ k = n /\ Len(s) = k /\ s \in Seq(AllElements) /\ ToSet(s) \subseteq free_list_[p]
          /\ \A e \in AllElements \ (ToSet(s) \cup Held(l)) : data'[e] = data[e]
          /\ \A i \in 1 .. k : data'[s[i]] = Of(x)[i]
      BY <1>1, <1>7, CopyData
    <2>2. /\ active_list_' = [active_list_ EXCEPT ![l] = s] /\ p_pool_' = [p_pool_ EXCEPT ![l] = p]
          /\ free_list_' = [rest EXCEPT ![q] = @ \cup Held(l)] /\ lost' = lost
      BY <1>1, <1>7 DEF CopyEffect
    <2>3. ~threw'
      BY <1>2, <1>7
    <2>4. \A y \in Lists \ {l} : \A e \in Held(y) : data'[e] = data[e]
      <3>1. \A y \in Lists : Held(y) \subseteq AllElements \ ToSet(s)
        <4> HIDE DEF n
        <4> QED BY <1>2, FreshApart
      <3>2. \A y \in Lists \ {l} : Held(y) \cap Held(l) = {}
        BY DEF ListInv, OnceInv
      <3> QED BY <2>1, <3>1, <3>2
    <2>5. value' = [value EXCEPT ![l] = Map(data', s)]
      BY <2>2, <2>4, ValueStep
    <2>6. Map(data', s) = value[x]
      <3>1. Map(data', s) = SubSeq(value[x], 1, k)
        <4> HIDE DEF n, value
        <4> QED BY <1>3, <1>4, <2>1, MapTaken
      <3>2. SubSeq(value[x], 1, Len(value[x])) = value[x]
        <4> HIDE DEF value
        <4> QED BY <1>4, WholeSeq
      <3> QED BY <1>4, <2>1, <3>1, <3>2, Zenon
    <2>7. value' = [value EXCEPT ![l] = value[x]]
      BY <2>5, <2>6, Zenon
    <2>8. remaining' = [[remaining EXCEPT ![p] = @ - k] EXCEPT ![q] = @ + m]
      <3>1. \A y \in Pools : rest[y] = IF y = p THEN free_list_[y] \ ToSet(s) ELSE free_list_[y]
        BY <1>2 DEF ListInv, TypeInv
      <3>2. /\ \A y \in Pools : rest[y] \subseteq free_list_[y]
            /\ rest = [y \in Pools |-> rest[y]]
        BY <3>1 DEF ListInv, TypeInv
      <3> HIDE DEF rest
      <3>3. \A y \in Pools : free_list_'[y] = IF y = q THEN rest[y] \cup Held(l) ELSE rest[y]
        BY <1>2, <2>2, <3>2
      <3>4. Cardinality(free_list_[p] \ ToSet(s)) = Cardinality(free_list_[p]) - k
        BY <1>2 DEF IsFresh
      <3> DEFINE r(y) == Cardinality(rest[y]) + Lost(y)
      <3>5. \A y \in Pools : /\ r(y) = IF y = p THEN remaining[y] - k ELSE remaining[y]
                             /\ IsFiniteSet(rest[y]) /\ Cardinality(rest[y]) \in Nat /\ Lost(y) \in Nat
        <4>1. ASSUME NEW y \in Pools
              PROVE  /\ remaining[y] = Cardinality(free_list_[y]) + Lost(y) /\ IsFiniteSet(free_list_[y])
                     /\ IsFiniteSet(rest[y]) /\ Cardinality(rest[y]) \in Nat /\ Cardinality(free_list_[y]) \in Nat
                     /\ Lost(y) \in Nat
          BY <3>2, FreeFinite, FS_Subset, FS_CardinalityType
        <4> HIDE DEF remaining
        <4>2. ASSUME NEW y \in Pools, y # p PROVE r(y) = remaining[y]
          BY <3>1, <4>1, <4>2
        <4>3. r(p) = remaining[p] - k
          <5>1. Cardinality(rest[p]) = Cardinality(free_list_[p]) - k
            BY <1>2, <3>1, <3>4
          <5> QED BY <1>2, <1>3, <4>1, <5>1
        <4> QED BY <4>1, <4>2, <4>3
      <3>6. Cardinality(rest[q] \cup Held(l)) = Cardinality(rest[q]) + m
        <4>1. rest[q] \cap Held(l) = {}
          BY <1>2, <3>2 DEF ListInv, ApartInv
        <4> QED BY <1>2, <3>5, <4>1, GiveBack
      <3>7. ASSUME NEW y \in Pools PROVE remaining'[y] = Cardinality(free_list_'[y]) + Lost(y)
        <4> DEFINE G == free_list_'[y]
        <4>1. G \subseteq Elements(y) /\ G \cap lost = {}
          BY <2>2 DEF ListInv, HomeInv, ApartInv
        <4>2. remaining'[y] = Cardinality(G \cup (lost \cap Elements(y)))
          BY <2>2 DEF remaining, Owed, Elements
        <4> HIDE DEF G
        <4>3. remaining'[y] = Cardinality(G) + Lost(y)
          BY <4>1, <4>2, OwedSum, Zenon
        <4> QED BY <4>3 DEF G
      <3>8. remaining' = [y \in Pools |-> remaining'[y]] /\ remaining = [y \in Pools |-> remaining[y]]
        BY DEF remaining
      <3> HIDE DEF remaining, p, q, m
      <3>9. \A y \in Pools : remaining'[y] = IF y = q THEN r(y) + m ELSE r(y)
        <4>1. \A y \in Pools : /\ y = q => remaining'[y] = (Cardinality(rest[y]) + m) + Lost(y)
                               /\ y # q => remaining'[y] = Cardinality(rest[y]) + Lost(y)
          BY <3>3, <3>6, <3>7
        <4>2. m \in Nat
          BY <1>2
        <4> QED BY <3>5, <4>1, <4>2
      <3> DEFINE c == [remaining EXCEPT ![p] = @ - k]
      <3> HIDE DEF r
      <3>10. c = [y \in Pools |-> r(y)]
        BY <3>5, <3>8
      <3>11. [c EXCEPT ![q] = @ + m] = [y \in Pools |-> IF y = q THEN r(y) + m ELSE r(y)]
        <4> HIDE DEF c
        <4> QED BY <3>10
      <3> QED BY <3>8, <3>9, <3>11
    <2>9. remaining' = [[remaining EXCEPT ![p] = @ - Len(value[x])] EXCEPT ![q] = @ + Len(value[l])]
      BY <1>4, <2>1, <2>8, Zenon
    <2> QED BY <1>2, <2>2, <2>3, <2>7, <2>9, Zenon DEF Abstract!Copy, value, remaining
  <1> QED BY <1>6, <1>7

LEMMA CompareView ==
  ASSUME ListInv, NEW l \in Lists, NEW x \in Lists, NEW depth \in 1 .. 3, Compare(l, x, depth)
  PROVE  Abstract!Compare(l, x)
  <1>1. CASE threw' = FALSE /\ UNCHANGED <<lists, active_list_, p_pool_, free_list_, data, lost>>
    <2>1. ~threw' /\ UNCHANGED <<lists, p_pool_>>
      BY <1>1
    <2>2. remaining' = remaining
      BY <1>1 DEF remaining, Owed, Elements
    <2>3. value' = value
      <3>1. \A y : Of(y)' = Of(y)
        BY <1>1 DEF Of
      <3> QED BY <3>1 DEF value
    <2> QED BY <2>1, <2>2, <2>3, Zenon DEF Abstract!Compare, value, remaining
  <1>2. ASSUME NEW y \in {l, x}, NEW k, NEW s, CompareEffect(y, k, s) PROVE Abstract!Compare(l, x)
    <2> DEFINE p == p_pool_[y]
               n == Len(active_list_[y])
    <2>1. p \in Pools /\ y \in Lists
      BY DEF ListInv, TypeInv
    <2>2. /\ IsFresh(s, free_list_[p], k, n) /\ threw' = TRUE /\ k \in 0 .. n - 1
          /\ UNCHANGED <<lists, active_list_, p_pool_>> /\ data' = Leaked(s)
          /\ free_list_' = [free_list_ EXCEPT ![p] = @ \ ToSet(s)] /\ lost' = lost \cup ToSet(s)
      BY <1>2 DEF CompareEffect
    <2>3. Len(value[y]) = n /\ n \in Nat
      BY <2>1, OfType DEF value, ListInv, TypeInv
    <2> HIDE DEF n
    <2>4. value[y] # <<>>
      <3>1. n # 0
        BY <2>2, <2>3
      <3> HIDE DEF value
      <3> QED BY <2>3, <3>1, EmptySet, Zenon
    <2>5. value' = value /\ remaining' = remaining
      BY <2>1, <2>2, LeakView
    <2> QED BY <2>2, <2>4, <2>5, Zenon DEF Abstract!Compare, value, remaining
  <1> QED BY <1>1, <1>2, CompareFacts, Zenon

LEMMA InitView == Init => Abstract!Init
  <1> SUFFICES ASSUME Init PROVE Abstract!Init
    OBVIOUS
  <1>1. ListInv
    BY InitInv
  <1>2. op = "none" /\ lists = {} /\ threw = FALSE /\ p_pool_ \in [Lists -> Pools]
    BY <1>1 DEF Init, ListInv, TypeInv
  <1>3. value = [l \in Lists |-> <<>>]
    <2>1. \A l \in Lists : Of(l) = <<>>
      <3> TAKE l \in Lists
      <3>1. active_list_[l] = <<>>
        BY DEF Init
      <3>2. Of(l) \in Seq(Values) /\ Len(Of(l)) = 0
        BY <1>1, <3>1, OfType
      <3> QED BY <3>2
    <2> QED BY <2>1 DEF value
  <1>4. remaining \in [Pools -> Nat]
    <2>1. \A p \in Pools : remaining[p] \in Nat
      BY <1>1, FreeFinite
    <2> QED BY <2>1 DEF remaining
  <1> QED BY <1>2, <1>3, <1>4, Zenon DEF Abstract!Init, value, remaining

LEMMA PlacesView ==
  ASSUME ListInv, NEW l \in Lists
  PROVE  Abstract!Places(l) = Places(l)
  <1>1. Len(value[l]) = Len(active_list_[l])
    BY OfType DEF value
  <1> QED BY <1>1, Zenon DEF Abstract!Places, Places, value

LEMMA InputsView == Abstract!Inputs = Inputs
  BY DEF Abstract!Inputs, Inputs

(* Each call, as the abstract list sees it. *)
LEMMA NextView ==
  ASSUME ListInv, ListInv', [Next]_vars
  PROVE  [Abstract!Next]_(Abstract!vars)
  <1>0. lists \subseteq Lists
    BY DEF ListInv, TypeInv
  <1>1. ASSUME NEW l \in Lists, NEW p \in Pools, NEW vals \in Inputs, pooled_list(l, p, vals) PROVE Abstract!Next
    <2>1. op' = "construct" /\ Abstract!Construct(l, p, vals)
      BY <1>1, InputsType, ConstructView DEF pooled_list
    <2>2. vals \in Abstract!Inputs
      BY InputsView, Zenon
    <2> QED BY <2>1, <2>2, Zenon DEF Abstract!Next
  <1>2. ASSUME NEW l \in Lists, NEW x \in lists, CopyConstruct(l, x) PROVE Abstract!Next
    <2>1. x \in Lists /\ p_pool_[x] \in Pools
      BY <1>0 DEF ListInv, TypeInv
    <2>2. Of(x) \in Seq(Values)
      BY <2>1, OfType
    <2>3. op' = "copy construct" /\ Abstract!Construct(l, p_pool_[x], Of(x))
      BY <1>2, <2>1, <2>2, ConstructView DEF CopyConstruct
    <2>4. op' = "copy construct" /\ Abstract!Construct(l, p_pool_[x], [y \in Lists |-> Of(y)][x])
      <3>1. [y \in Lists |-> Of(y)][x] = Of(x)
        BY <2>1, Zenon
      <3> QED BY <2>3, <3>1, Zenon
    <2> QED BY <2>4, Zenon DEF Abstract!Next
  <1>3. ASSUME NEW l \in lists, Destroy(l) PROVE Abstract!Next
    <2>1. op' = "destroy" /\ Abstract!Destroy(l)
      BY <1>0, <1>3, DestroyView DEF Destroy
    <2> QED BY <2>1, Zenon DEF Abstract!Next
  <1>4. ASSUME NEW l \in lists, NEW i \in Places(l), NEW vals \in Inputs, insert(l, i, vals) PROVE Abstract!Next
    <2>1. op' = "insert" /\ Abstract!Insert(l, i, vals)
      BY <1>0, <1>4, InputsType, InsertView DEF insert
    <2>2. vals \in Abstract!Inputs /\ i \in Abstract!Places(l)
      BY <1>0, InputsView, PlacesView, Zenon
    <2> QED BY <2>1, <2>2, Zenon DEF Abstract!Next
  <1>5. ASSUME NEW l \in lists, NEW i \in Places(l), NEW j \in Places(l), i <= j, erase(l, i, j) PROVE Abstract!Next
    <2>1. op' = "erase" /\ Abstract!Erase(l, i, j)
      BY <1>0, <1>5, EraseFromView DEF erase
    <2>2. i \in Abstract!Places(l) /\ j \in Abstract!Places(l)
      BY <1>0, PlacesView, Zenon
    <2> QED BY <2>1, <2>2, Zenon DEF Abstract!Next
  <1>6. ASSUME NEW l \in lists, NEW vals \in Inputs, assign(l, vals) PROVE Abstract!Next
    <2>1. op' = "assign" /\ Abstract!Assign(l, vals)
      <3>1. Abstract!Assign(l, vals)
        BY <1>0, <1>6, InputsType, AssignView
      <3> QED BY <1>6, <3>1 DEF assign
    <2>2. vals \in Abstract!Inputs
      BY InputsView, Zenon
    <2> QED BY <2>1, <2>2, Zenon DEF Abstract!Next
  <1>7. ASSUME NEW l \in lists, NEW n \in 0 .. MaxLen, NEW v \in Values, resize(l, n, v) PROVE Abstract!Next
    <2>1. Abstract!Resize(l, n, v)
      BY <1>0, <1>7, ResizeView
    <2>2. op' = "resize"
      BY <1>7, Zenon DEF resize
    <2> QED BY <2>1, <2>2, Zenon DEF Abstract!Next
  <1>8. ASSUME NEW l \in lists, NEW S \in SUBSET Values, remove_if(l, S) PROVE Abstract!Next
    <2>1. Abstract!RemoveIf(l, S)
      BY <1>0, <1>8, RemoveView
    <2>2. op' = "remove_if"
      BY <1>8, Zenon DEF remove_if
    <2> QED BY <2>1, <2>2, Zenon DEF Abstract!Next
  <1>9. ASSUME NEW l \in lists, unique(l) PROVE Abstract!Next
    <2>1. Abstract!Unique(l)
      BY <1>0, <1>9, UniqueView
    <2>2. op' = "unique"
      BY <1>9, Zenon DEF unique
    <2> QED BY <2>1, <2>2, Zenon DEF Abstract!Next
  <1>10. ASSUME NEW l \in lists, reverse(l) PROVE Abstract!Next
    <2>1. Abstract!Reversed(l)
      BY <1>0, <1>10, ReverseView
    <2>2. op' = "reverse"
      BY <1>10, Zenon DEF reverse
    <2> QED BY <2>1, <2>2, Zenon DEF Abstract!Next
  <1>11. ASSUME NEW l \in lists, sort(l) PROVE Abstract!Next
    <2>1. Abstract!Sort(l)
      BY <1>0, <1>11, SortView
    <2>2. op' = "sort"
      BY <1>11, Zenon DEF sort
    <2> QED BY <2>1, <2>2, Zenon DEF Abstract!Next
  <1>12. ASSUME NEW l \in lists, NEW x \in lists, NEW i \in Places(l), splice(l, i, x) PROVE Abstract!Next
    <2>1. Abstract!Splice(l, i, x)
      BY <1>0, <1>12, SpliceView
    <2>2. op' = "splice"
      BY <1>12, Zenon DEF splice
    <2>3. i \in Abstract!Places(l)
      BY <1>0, PlacesView, Zenon
    <2> QED BY <2>1, <2>2, <2>3, Zenon DEF Abstract!Next
  <1>13. ASSUME NEW l \in lists, NEW x \in lists, merge(l, x) PROVE Abstract!Next
    <2>1. op' = "merge"
      BY <1>13, Zenon DEF merge
    <2>2. CASE l # x
      <3>1. Abstract!Merge(l, x)
        BY <1>0, <1>13, <2>2, MergeView
      <3> QED BY <2>1, <2>2, <3>1, Zenon DEF Abstract!Next
    <2>3. CASE l = x
      <3>1. threw' = FALSE /\ UNCHANGED <<lists, active_list_, p_pool_, free_list_, data, lost>>
        BY <1>13, <2>3 DEF merge, Rearranged
      <3>2. ~threw' /\ UNCHANGED <<lists, value, p_pool_, remaining>>
        BY <3>1 DEF value, remaining, Of, Owed, Elements
      <3> QED BY <2>1, <2>3, <3>2, Zenon DEF Abstract!Next, value, remaining
    <2> QED BY <2>2, <2>3
  <1>14. ASSUME NEW l \in lists, NEW x \in lists, swap(l, x) PROVE Abstract!Next
    <2>1. Abstract!Swap(l, x)
      BY <1>0, <1>14, SwapView
    <2>2. op' = "swap"
      BY <1>14, Zenon DEF swap
    <2> QED BY <2>1, <2>2, Zenon DEF Abstract!Next
  <1>15. ASSUME NEW l \in lists, NEW x \in lists, CopyFrom(l, x) PROVE Abstract!Next
    <2>1. Abstract!Copy(l, x)
      BY <1>0, <1>15, CopyView
    <2>2. op' = "operator="
      BY <1>15, Zenon DEF CopyFrom
    <2> QED BY <2>1, <2>2, Zenon DEF Abstract!Next
  <1>16. ASSUME NEW l \in lists, NEW x \in lists, NEW depth \in 1 .. 3, Compare(l, x, depth) PROVE Abstract!Next
    <2>1. Abstract!Compare(l, x)
      BY <1>0, <1>16, CompareView
    <2>2. op' = "compare"
      BY <1>16, Zenon DEF Compare
    <2> QED BY <2>1, <2>2, Zenon DEF Abstract!Next
  <1>17. ASSUME UNCHANGED vars PROVE UNCHANGED Abstract!vars
    <2>1. UNCHANGED <<op, lists, active_list_, p_pool_, free_list_, data, lost, threw>>
      BY <1>17 DEF vars
    <2>2. UNCHANGED <<op, lists, value, p_pool_, remaining, threw>>
      BY <2>1 DEF value, remaining, Of, Owed, Elements
    <2> QED BY <2>2, Zenon DEF Abstract!vars, value, remaining
  <1>18. Next => Abstract!Next
    BY <1>1, <1>2, <1>3, <1>4, <1>5, <1>6, <1>7, <1>8, <1>9, <1>10, <1>11, <1>12, <1>13, <1>14, <1>15, <1>16, Zenon DEF Next
  <1> QED BY <1>17, <1>18, Zenon

(* util/pooled_list implements the lists of values that ListSpec describes, for
   every number of lists, pools and elements: whatever moves elements about, a
   list holds the values std::list would, and a call takes from its pool what it
   added and no more.  What a throwing constructor, operator= or comparison lost
   is counted as still free: that it is not given back is the one promise that
   the code does not keep. *)
THEOREM PooledListRefines == Spec => ImplementsListSpec
  <1>1. Init => ListInv
    BY InitInv
  <1>2. ListInv /\ [Next]_vars => ListInv'
    BY NextInv
  <1>3. ListInv /\ ListInv' /\ [Next]_vars => [Abstract!Next]_(Abstract!vars)
    BY NextView
  <1> QED BY <1>1, <1>2, <1>3, InitView, PTL DEF Spec, ImplementsListSpec, Abstract!Spec

===============================================================================
