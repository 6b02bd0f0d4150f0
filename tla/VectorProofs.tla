----------------------------- MODULE VectorProofs -----------------------------
(***************************************************************************)
(* Induction for folds.  A fold over a sequence is shown to be the last of *)
(* a chain of intermediate results, of which properties are then proved by *)
(* induction along the chain; what is known of the vector operations       *)
(* follows.  All of it is stated over sets, in first-order form.  The last *)
(* part is about the queue and the packet-id allocator of ClientQueue.     *)
(***************************************************************************)
EXTENDS Vectors, ClientQueue, TLAPS, SequenceTheorems, FiniteSetTheorems, WellFoundedInduction

----------------------------------------------------------------------------
(* Induction.                                                              *)

\* A set with 0 that is closed under successors contains the naturals.
LEMMA SetInduction ==
  ASSUME NEW S, 0 \in S, \A n \in Nat : n \in S => n + 1 \in S
  PROVE  Nat \subseteq S
<1> DEFINE T == Nat \ S
           R == OpToRel(<, Nat)
<1> SUFFICES ASSUME T # {} PROVE FALSE
  OBVIOUS
<1>1. IsWellFoundedOn(R, Nat)
  BY NatLessThanWellFounded
<1>2. \A y, x \in Nat : y < x => <<y, x>> \in R
  BY DEF OpToRel
<1>3. T \subseteq Nat
  OBVIOUS
<1>4. \A x \in T : x # 0 /\ x - 1 \in T
  OBVIOUS
<1> HIDE DEF T, R
<1>5. PICK x \in T : \A y \in T : ~(<<y, x>> \in R)
  BY <1>1, <1>3, WFMin
<1>6. x \in Nat /\ x # 0 /\ x - 1 \in T /\ x - 1 \in Nat /\ x - 1 < x
  BY <1>3, <1>4
<1>7. QED
  BY <1>2, <1>5, <1>6

\* The same for an initial segment.
LEMMA IntervalInduction ==
  ASSUME NEW n \in Nat, NEW S, 0 \in S, \A k \in 0 .. n - 1 : k \in S => k + 1 \in S
  PROVE  \A k \in 0 .. n : k \in S
<1> DEFINE T == {k \in Nat : k <= n => k \in S}
<1>1. 0 \in T
  OBVIOUS
<1>2. ASSUME NEW k \in Nat, k \in T PROVE k + 1 \in T
  BY <1>2
<1> HIDE DEF T
<1>3. Nat \subseteq T
  BY <1>1, <1>2, SetInduction
<1>4. QED
  BY <1>3 DEF T

\* A nonempty set of positions has a largest one.
LEMMA MaxOfPositions ==
  ASSUME NEW n \in Nat, NEW d \in SUBSET (1 .. n), d # {}
  PROVE  Max(d) \in d /\ \A x \in d : x <= Max(d)
<1> DEFINE S == {k \in 0 .. n : \A e \in SUBSET (1 .. k) :
                   e # {} => \E m \in e : \A x \in e : x <= m}
<1>1. 0 \in S
  <2>1. \A e \in SUBSET (1 .. 0) : e = {}
    OBVIOUS
  <2>2. 0 \in 0 .. n
    OBVIOUS
  <2>3. QED
    BY <2>1, <2>2, Zenon
<1>2. ASSUME NEW k \in 0 .. n - 1, k \in S PROVE k + 1 \in S
  <2> SUFFICES ASSUME NEW e \in SUBSET (1 .. k + 1), e # {}
               PROVE  \E m \in e : \A x \in e : x <= m
    OBVIOUS
  <2>1. CASE k + 1 \in e
    BY <2>1
  <2>2. CASE k + 1 \notin e
    <3>1. e \in SUBSET (1 .. k)
      BY <2>2
    <3>2. QED
      BY <3>1, <1>2
  <2>3. QED
    BY <2>1, <2>2
<1> HIDE DEF S
<1>3. n \in S
  BY <1>1, <1>2, IntervalInduction
<1>4. \E m \in d : \A x \in d : x <= m
  BY <1>3 DEF S
<1>5. PICK m \in d : \A x \in d : m >= x
  BY <1>4
<1>6. Max(d) \in d /\ \A x \in d : Max(d) >= x
  BY <1>5 DEF Max
<1>7. QED
  BY <1>6

\* The largest of the first k positions is the last.
LEMMA MaxOfInterval ==
  ASSUME NEW k \in Nat, k # 0
  PROVE  Max(1 .. k) = k /\ (1 .. k) \ {k} = 1 .. k - 1
<1>1. k \in 1 .. k /\ (1 .. k) \in SUBSET (1 .. k)
  OBVIOUS
<1>2. Max(1 .. k) \in 1 .. k /\ \A x \in 1 .. k : x <= Max(1 .. k)
  BY <1>1, MaxOfPositions, Zenon
<1>3. QED
  BY <1>1, <1>2

----------------------------------------------------------------------------
(* Folds.  B[k] holds the results there may be after k steps (B grows with *)
(* k), G[k] is the function the fold applies at position k.                *)

Growing(B, n) == \A k \in 1 .. n : B[k - 1] \subseteq B[k]

Steps(G, B, n) == \A k \in 1 .. n : G[k] \in [B[k - 1] -> B[k]]

\* g solves the recursion that defines the fold.
Solution(g, G, base, n, B) ==
  /\ g \in [SUBSET (1 .. n) -> B[n]]
  /\ g[{}] = base
  /\ \A d \in SUBSET (1 .. n) : d # {} =>
       /\ g[d \ {Max(d)}] \in B[Max(d) - 1]
       /\ g[d] = G[Max(d)][g[d \ {Max(d)}]]

\* The intermediate results, up to the last.
Chain(run, G, base, n, B, last) ==
  /\ \A k \in 0 .. n : run[k] \in B[k]
  /\ run[0] = base /\ run[n] = last
  /\ \A k \in 1 .. n : run[k] = G[k][run[k - 1]]

\* The recursion that defines a fold has a solution.
LEMMA FoldExists ==
  ASSUME NEW n \in Nat, NEW B, Growing(B, n), NEW base \in B[0], NEW G, Steps(G, B, n)
  PROVE  \E g : Solution(g, G, base, n, B)
<1> DEFINE Solves(g, k) ==
             /\ g[{}] = base
             /\ \A d \in SUBSET (1 .. k) : d # {} =>
                  /\ g[d \ {Max(d)}] \in B[Max(d) - 1]
                  /\ g[d] = G[Max(d)][g[d \ {Max(d)}]]
           S == {k \in 0 .. n : \E g \in [SUBSET (1 .. k) -> B[k]] : Solves(g, k)}
<1>1. 0 \in S
  <2> DEFINE g == [d \in SUBSET (1 .. 0) |-> base]
  <2>1. \A d \in SUBSET (1 .. 0) : d = {}
    OBVIOUS
  <2>2. g \in [SUBSET (1 .. 0) -> B[0]]
    OBVIOUS
  <2>3. g[{}] = base
    OBVIOUS
  <2> HIDE DEF g
  <2>4. Solves(g, 0)
    BY <2>1, <2>3
  <2>5. 0 \in 0 .. n
    OBVIOUS
  <2> HIDE DEF Solves
  <2>6. QED
    BY <2>2, <2>4, <2>5, Zenon
<1>2. ASSUME NEW k \in 0 .. n - 1, k \in S PROVE k + 1 \in S
  <2>1. PICK g \in [SUBSET (1 .. k) -> B[k]] : Solves(g, k)
    BY <1>2
  <2> DEFINE more == [d \in SUBSET (1 .. k + 1) |->
                        IF k + 1 \in d THEN G[k + 1][g[d \ {k + 1}]] ELSE g[d]]
  <2>2. \A d \in SUBSET (1 .. k + 1) :
          /\ d \ {k + 1} \in SUBSET (1 .. k)
          /\ k + 1 \notin d => d \in SUBSET (1 .. k)
    OBVIOUS
  <2>3. G[k + 1] \in [B[k] -> B[k + 1]] /\ B[k] \subseteq B[k + 1]
    <3>1. k + 1 \in 1 .. n /\ (k + 1) - 1 = k
      OBVIOUS
    <3>2. QED
      BY <3>1 DEF Growing, Steps
  <2>4. more \in [SUBSET (1 .. k + 1) -> B[k + 1]]
    BY <2>1, <2>2, <2>3
  <2>5. \A d \in SUBSET (1 .. k) : d \in SUBSET (1 .. k + 1) /\ k + 1 \notin d
    OBVIOUS
  <2>6. \A d \in SUBSET (1 .. k) : more[d] = g[d]
    BY <2>5
  <2>7. \A d \in SUBSET (1 .. k + 1) : k + 1 \in d => more[d] = G[k + 1][g[d \ {k + 1}]]
    OBVIOUS
  <2> HIDE DEF more
  <2>8. ASSUME NEW d \in SUBSET (1 .. k + 1), d # {}
        PROVE  /\ more[d \ {Max(d)}] \in B[Max(d) - 1]
               /\ more[d] = G[Max(d)][more[d \ {Max(d)}]]
    <3>1. CASE k + 1 \in d
      <4>1. k + 1 \in Nat
        OBVIOUS
      <4>2. Max(d) \in d /\ \A x \in d : x <= Max(d)
        BY <2>8, <4>1, MaxOfPositions, Zenon
      <4>3. Max(d) = k + 1
        <5>1. k + 1 <= Max(d) /\ Max(d) \in 1 .. k + 1
          BY <3>1, <4>2, Zenon
        <5>2. QED
          BY <5>1
      <4>4. more[d \ {k + 1}] = g[d \ {k + 1}] /\ g[d \ {k + 1}] \in B[k]
        BY <2>1, <2>2, <2>6
      <4>5. (k + 1) - 1 = k
        OBVIOUS
      <4>6. QED
        BY <2>7, <3>1, <4>3, <4>4, <4>5
    <3>2. CASE k + 1 \notin d
      <4>1. d \in SUBSET (1 .. k) /\ d \ {Max(d)} \in SUBSET (1 .. k)
        BY <2>2, <3>2
      <4>2. QED
        BY <2>1, <2>6, <2>8, <4>1
    <3>3. QED
      BY <3>1, <3>2
  <2>9. more[{}] = base
    <3>1. {} \in SUBSET (1 .. k)
      OBVIOUS
    <3>2. QED
      BY <2>1, <2>6, <3>1
  <2>10. Solves(more, k + 1)
    BY <2>8, <2>9, Zenon
  <2>11. k + 1 \in 0 .. n
    OBVIOUS
  <2> HIDE DEF Solves
  <2>12. QED
    BY <2>4, <2>10, <2>11, Zenon
<1> HIDE DEF S
<1>3. \A k \in 0 .. n : k \in S
  BY <1>1, <1>2, IntervalInduction, Zenon
<1>4. n \in S
  BY <1>3
<1>5. PICK g \in [SUBSET (1 .. n) -> B[n]] : Solves(g, n)
  BY <1>4, Zenon DEF S
<1>6. QED
  BY <1>5, Zenon DEF Solves, Solution

\* Whatever solves the recursion runs through the positions in order: its value
\* for all of them is the last of a chain of intermediate results.
LEMMA FoldRun ==
  ASSUME NEW n \in Nat, NEW B, NEW base \in B[0], NEW G, Steps(G, B, n), NEW h,
         h[{}] = base,
         \A d \in SUBSET (1 .. n) :
           d # {} /\ h[d \ {Max(d)}] \in B[Max(d) - 1] => h[d] = G[Max(d)][h[d \ {Max(d)}]]
  PROVE  \E run : Chain(run, G, base, n, B, h[1 .. n])
<1> DEFINE run == [k \in 0 .. n |-> h[1 .. k]]
           S == {k \in 0 .. n : h[1 .. k] \in B[k]}
<1>1. h[1 .. 0] = base
  <2>1. 1 .. 0 = {}
    OBVIOUS
  <2>2. QED
    BY <2>1
<1>2. ASSUME NEW k \in 1 .. n, h[1 .. k - 1] \in B[k - 1]
      PROVE  h[1 .. k] = G[k][h[1 .. k - 1]] /\ h[1 .. k] \in B[k]
  <2>1. Max(1 .. k) = k /\ (1 .. k) \ {k} = 1 .. k - 1
    BY MaxOfInterval
  <2>2. 1 .. k \in SUBSET (1 .. n) /\ k \in 1 .. k
    OBVIOUS
  <2>3. 1 .. k # {}
    BY <2>2
  <2>4. h[1 .. k] = G[k][h[1 .. k - 1]]
    BY <1>2, <2>1, <2>2, <2>3
  <2>5. QED
    BY <1>2, <2>4 DEF Steps
<1>3. 0 \in S
  BY <1>1
<1>4. ASSUME NEW k \in 0 .. n - 1, k \in S PROVE k + 1 \in S
  <2>1. k + 1 \in 1 .. n /\ (k + 1) - 1 = k
    OBVIOUS
  <2>2. QED
    BY <1>2, <1>4, <2>1
<1> HIDE DEF S
<1>5. \A k \in 0 .. n : k \in S
  BY <1>3, <1>4, IntervalInduction
<1>6. \A k \in 0 .. n : h[1 .. k] \in B[k]
  BY <1>5 DEF S
<1>7. (\A k \in 0 .. n : run[k] \in B[k]) /\ run[0] = base /\ run[n] = h[1 .. n]
  BY <1>1, <1>6
<1>8. ASSUME NEW k \in 1 .. n PROVE run[k] = G[k][run[k - 1]]
  <2>1. k - 1 \in 0 .. n /\ k \in 0 .. n
    OBVIOUS
  <2>2. QED
    BY <1>2, <1>6, <2>1
<1> HIDE DEF run
<1>9. QED
  BY <1>7, <1>8, Zenon DEF Chain

----------------------------------------------------------------------------
(* Only.                                                                   *)

\* retain and filter run through the vector and keep what is in S.
LEMMA OnlyRun ==
  ASSUME NEW A, NEW s \in Seq(A), NEW S
  PROVE  \E run \in [0 .. Len(s) -> Seq(A)] :
           /\ run[0] = <<>> /\ run[Len(s)] = Only(s, S)
           /\ \A k \in 1 .. Len(s) :
                run[k] = IF s[k] \in S THEN Append(run[k - 1], s[k]) ELSE run[k - 1]
<1> DEFINE n == Len(s)
           B == [k \in 0 .. n |-> Seq(A)]
           base == <<>>
           Op(acc, e) == IF e \in S THEN Append(acc, e) ELSE acc
           G == [k \in 1 .. n |-> [acc \in B[k - 1] |-> Op(acc, s[k])]]
           Def(g) == [d \in SUBSET DOMAIN s |->
                        IF d = {} THEN base ELSE Op(g[d \ {Max(d)}], s[Max(d)])]
           h == CHOOSE g : g = Def(g)
<1>1. n \in Nat /\ DOMAIN s = 1 .. n /\ base \in Seq(A) /\ \A k \in 1 .. n : s[k] \in A
  BY LenProperties, ElementOfSeq
<1>2. \A acc \in Seq(A), k \in 1 .. n : Op(acc, s[k]) \in Seq(A)
  BY <1>1
<1>3. Only(s, S) = h[DOMAIN s]
  BY DEF Only, FoldLeft, MapThenFoldSet
<1> HIDE DEF n, Op, base
<1>4. n \in Nat /\ Growing(B, n) /\ base \in B[0] /\ \A k \in 0 .. n : B[k] = Seq(A)
  BY <1>1 DEF Growing
<1>5. \A k \in 1 .. n : k - 1 \in 0 .. n /\ k \in 0 .. n
  BY <1>1
<1>6. \A k \in 1 .. n : B[k - 1] = Seq(A) /\ B[k] = Seq(A)
  BY <1>4, <1>5
<1> HIDE DEF B
<1>7. \A k \in 1 .. n, acc \in Seq(A) : G[k][acc] = Op(acc, s[k])
  BY <1>6
<1>8. Steps(G, B, n)
  BY <1>2, <1>6 DEF Steps
<1> HIDE DEF G
<1>9. \A d \in SUBSET (1 .. n) : d # {} =>
        Max(d) \in 1 .. n /\ d \ {Max(d)} \in SUBSET (1 .. n)
  BY <1>1, MaxOfPositions
<1>10. \A g : Solution(g, G, base, n, B) => g = Def(g)
  <2>1. SUFFICES ASSUME NEW g, Solution(g, G, base, n, B) PROVE g = Def(g)
    BY Zenon
  <2>2. \A d \in SUBSET (1 .. n) :
          g[d] = IF d = {} THEN base ELSE Op(g[d \ {Max(d)}], s[Max(d)])
    BY <1>6, <1>7, <1>9, <2>1 DEF Solution
  <2>3. QED
    BY <1>1, <2>1, <2>2 DEF Solution
<1>11. h = Def(h)
  BY <1>4, <1>8, <1>10, FoldExists, Zenon
<1> HIDE DEF h
<1>12. \A d \in SUBSET (1 .. n) :
         h[d] = IF d = {} THEN base ELSE Op(h[d \ {Max(d)}], s[Max(d)])
  BY <1>1, <1>11
<1>13. PICK run : Chain(run, G, base, n, B, h[1 .. n])
  <2>1. h[{}] = base
    BY <1>12
  <2>2. \A d \in SUBSET (1 .. n) :
          d # {} /\ h[d \ {Max(d)}] \in B[Max(d) - 1] => h[d] = G[Max(d)][h[d \ {Max(d)}]]
    <3>1. \A d \in SUBSET (1 .. n) : d # {} => h[d] = Op(h[d \ {Max(d)}], s[Max(d)])
      BY <1>12
    <3>2. ASSUME NEW d \in SUBSET (1 .. n), d # {}, h[d \ {Max(d)}] \in B[Max(d) - 1]
          PROVE  h[d] = G[Max(d)][h[d \ {Max(d)}]]
      <4>1. Max(d) \in 1 .. n
        BY <1>9, <3>2
      <4>2. h[d \ {Max(d)}] \in Seq(A)
        BY <1>6, <3>2, <4>1
      <4>3. QED
        BY <1>7, <3>1, <3>2, <4>1, <4>2
    <3>3. QED
      BY <3>2
  <2>3. QED
    BY <1>4, <1>8, <2>1, <2>2, FoldRun, Zenon
<1>14. \A k \in 1 .. n : run[k - 1] \in Seq(A) /\ run[k] = Op(run[k - 1], s[k])
  BY <1>4, <1>5, <1>7, <1>13, SMTT(30) DEF Chain
<1>15. run[n] = Only(s, S) /\ run[0] = base /\ \A k \in 0 .. n : run[k] \in Seq(A)
  BY <1>1, <1>3, <1>4, <1>13 DEF Chain
<1> DEFINE path == [k \in 0 .. n |-> run[k]]
<1>16. path \in [0 .. n -> Seq(A)]
  BY <1>15
<1>17. path[0] = base /\ path[n] = Only(s, S) /\ \A k \in 1 .. n : path[k] = Op(path[k - 1], s[k])
  BY <1>1, <1>5, <1>14, <1>15
<1> HIDE DEF path
<1>18. QED
  BY <1>16, <1>17 DEF n, Op, base

\* What is left is in S, and no more than there was.
LEMMA OnlyType ==
  ASSUME NEW A, NEW s \in Seq(A), NEW S
  PROVE  /\ Only(s, S) \in Seq(A \cap S)
         /\ Len(Only(s, S)) <= Len(s)
<1>1. PICK run \in [0 .. Len(s) -> Seq(A)] :
        /\ run[0] = <<>> /\ run[Len(s)] = Only(s, S)
        /\ \A k \in 1 .. Len(s) :
             run[k] = IF s[k] \in S THEN Append(run[k - 1], s[k]) ELSE run[k - 1]
  BY OnlyRun
<1> DEFINE T == {k \in 0 .. Len(s) : run[k] \in Seq(A \cap S) /\ Len(run[k]) <= k}
<1>2. Len(s) \in Nat /\ \A k \in 1 .. Len(s) : s[k] \in A
  BY LenProperties, ElementOfSeq
<1>3. 0 \in T
  BY <1>1, <1>2
<1>4. ASSUME NEW k \in 0 .. Len(s) - 1, k \in T PROVE k + 1 \in T
  <2>1. k + 1 \in 1 .. Len(s) /\ (k + 1) - 1 = k
    BY <1>2
  <2>2. run[k] \in Seq(A \cap S) /\ Len(run[k]) <= k
    BY <1>4
  <2>3. CASE s[k + 1] \in S
    <3>1. run[k + 1] = Append(run[k], s[k + 1]) /\ s[k + 1] \in A \cap S
      BY <1>1, <1>2, <2>1, <2>3
    <3>2. run[k + 1] \in Seq(A \cap S) /\ Len(run[k + 1]) = Len(run[k]) + 1
      BY <2>2, <3>1, AppendProperties
    <3>3. QED
      BY <1>2, <2>1, <2>2, <3>2, LenProperties
  <2>4. CASE s[k + 1] \notin S
    <3>1. run[k + 1] = run[k] /\ Len(run[k]) \in Nat
      BY <1>1, <2>1, <2>2, <2>4, LenProperties
    <3>2. QED
      BY <1>2, <2>1, <2>2, <3>1
  <2>5. QED
    BY <2>3, <2>4
<1> HIDE DEF T
<1>5. \A k \in 0 .. Len(s) : k \in T
  BY <1>2, <1>3, <1>4, IntervalInduction, Zenon
<1>6. Len(s) \in T
  BY <1>2, <1>5
<1>7. QED
  BY <1>1, <1>6, Zenon DEF T

\* What is in the set is not lost.
LEMMA OnlyMembers ==
  ASSUME NEW A, NEW s \in Seq(A), NEW S, NEW i \in 1 .. Len(s), s[i] \in S
  PROVE  \E j \in 1 .. Len(Only(s, S)) : Only(s, S)[j] = s[i]
<1>1. PICK run \in [0 .. Len(s) -> Seq(A)] :
        /\ run[0] = <<>> /\ run[Len(s)] = Only(s, S)
        /\ \A k \in 1 .. Len(s) :
             run[k] = IF s[k] \in S THEN Append(run[k - 1], s[k]) ELSE run[k - 1]
  BY OnlyRun
<1> DEFINE Found(q) == \E j \in 1 .. Len(q) : q[j] = s[i]
           K == {k \in 0 .. Len(s) : k >= i => Found(run[k])}
<1>2. Len(s) \in Nat /\ \A k \in 1 .. Len(s) : s[k] \in A
  BY LenProperties, ElementOfSeq
<1>3. 0 \in K
  BY <1>2
<1>4. ASSUME NEW k \in 0 .. Len(s) - 1, k \in K PROVE k + 1 \in K
  <2>1. k + 1 \in 1 .. Len(s) /\ (k + 1) - 1 = k /\ run[k] \in Seq(A) /\ s[k + 1] \in A
    BY <1>2
  <2>2. run[k + 1] = IF s[k + 1] \in S THEN Append(run[k], s[k + 1]) ELSE run[k]
    BY <1>1, <2>1
  <2> DEFINE q == run[k]
             r == Append(q, s[k + 1])
  <2>3. q \in Seq(A)
    BY <2>1
  <2> HIDE DEF q
  <2>4. /\ Len(r) = Len(q) + 1 /\ r[Len(q) + 1] = s[k + 1] /\ Len(q) \in Nat
        /\ \A j \in 1 .. Len(q) : r[j] = q[j]
    BY <2>1, <2>3, AppendProperties, LenProperties
  <2> HIDE DEF r
  <2>5. Found(q) => Found(r)
    BY <2>4
  <2>6. s[k + 1] = s[i] => Found(r)
    BY <2>4
  <2>7. CASE i <= k
    <3>1. Found(q)
      BY <1>4, <2>7 DEF q
    <3>2. Found(run[k + 1])
      BY <2>2, <2>5, <3>1 DEF q, r
    <3>3. QED
      BY <2>1, <3>2
  <2>8. CASE i = k + 1
    <3>1. Found(run[k + 1])
      BY <2>2, <2>6, <2>8 DEF q, r
    <3>2. QED
      BY <2>1, <3>1
  <2>9. CASE i > k + 1
    BY <2>1, <2>9
  <2>10. QED
    BY <1>2, <2>7, <2>8, <2>9
<1> HIDE DEF K
<1>5. \A k \in 0 .. Len(s) : k \in K
  BY <1>2, <1>3, <1>4, IntervalInduction, Zenon
<1>6. Len(s) \in 0 .. Len(s)
  BY <1>2
<1>7. Len(s) \in K
  BY <1>5, <1>6
<1>8. QED
  BY <1>1, <1>2, <1>7 DEF K

\* What is left comes from different positions, in the order they had.
LEMMA OnlyPlaces ==
  ASSUME NEW A, NEW s \in Seq(A), NEW S
  PROVE  \E place \in [1 .. Len(Only(s, S)) -> 1 .. Len(s)] :
           /\ \A j \in 1 .. Len(Only(s, S)) : Only(s, S)[j] = s[place[j]]
           /\ \A j, l \in 1 .. Len(Only(s, S)) : j < l => place[j] < place[l]
<1>1. PICK run \in [0 .. Len(s) -> Seq(A)] :
        /\ run[0] = <<>> /\ run[Len(s)] = Only(s, S)
        /\ \A k \in 1 .. Len(s) :
             run[k] = IF s[k] \in S THEN Append(run[k - 1], s[k]) ELSE run[k - 1]
  BY OnlyRun
<1> DEFINE Places(q, k) ==
             \E place \in [1 .. Len(q) -> 1 .. k] :
               /\ \A j \in 1 .. Len(q) : q[j] = s[place[j]]
               /\ \A j, l \in 1 .. Len(q) : j < l => place[j] < place[l]
           K == {k \in 0 .. Len(s) : Places(run[k], k)}
<1>2. Len(s) \in Nat /\ \A k \in 1 .. Len(s) : s[k] \in A
  BY LenProperties, ElementOfSeq
<1>3. 0 \in K
  <2>1. Len(run[0]) = 0 /\ 1 .. 0 = {}
    BY <1>1, EmptySeq
  <2>2. Places(run[0], 0)
    <3> DEFINE place == [j \in {} |-> 0]
    <3>1. place \in [1 .. Len(run[0]) -> 1 .. 0]
      BY <2>1
    <3>2. \A j \in 1 .. Len(run[0]) : FALSE
      BY <2>1
    <3> HIDE DEF place
    <3>3. QED
      BY <3>1, <3>2
  <2>3. QED
    BY <1>2, <2>2
<1>4. ASSUME NEW k \in 0 .. Len(s) - 1, k \in K PROVE k + 1 \in K
  <2>1. k + 1 \in 1 .. Len(s) /\ (k + 1) - 1 = k /\ run[k] \in Seq(A) /\ s[k + 1] \in A
    BY <1>2
  <2>2. run[k + 1] = IF s[k + 1] \in S THEN Append(run[k], s[k + 1]) ELSE run[k]
    BY <1>1, <2>1
  <2> DEFINE q == run[k]
             r == Append(q, s[k + 1])
             n == Len(q)
  <2>3. q \in Seq(A) /\ Places(q, k)
    BY <1>4, <2>1
  <2> HIDE DEF q
  <2>4. n \in Nat /\ Len(r) = n + 1 /\ r[n + 1] = s[k + 1] /\ \A j \in 1 .. n : r[j] = q[j]
    BY <2>1, <2>3, AppendProperties, LenProperties
  <2> HIDE DEF r
  <2>5. PICK place \in [1 .. n -> 1 .. k] :
          /\ \A j \in 1 .. n : q[j] = s[place[j]]
          /\ \A j, l \in 1 .. n : j < l => place[j] < place[l]
    BY <2>3
  <2> HIDE DEF n
  <2>6. Places(r, k + 1)
    <3> DEFINE more == [j \in 1 .. n + 1 |-> IF j = n + 1 THEN k + 1 ELSE place[j]]
    <3>1. \A j \in 1 .. n + 1 : j = n + 1 \/ j \in 1 .. n
      BY <2>4
    <3>2. \A j \in 1 .. n : place[j] \in 1 .. k /\ place[j] \in 1 .. k + 1 /\ place[j] < k + 1
      BY <2>1, <2>5
    <3>3. k + 1 \in 1 .. k + 1
      BY <2>1
    <3>4. more \in [1 .. n + 1 -> 1 .. k + 1]
      BY <3>1, <3>2, <3>3
    <3>5. /\ more[n + 1] = k + 1 /\ \A j \in 1 .. n : more[j] = place[j] /\ j # n + 1
      BY <2>4
    <3> HIDE DEF more
    <3>6. \A j \in 1 .. n + 1 : r[j] = s[more[j]]
      BY <2>4, <2>5, <3>1, <3>5
    <3>7. ASSUME NEW j \in 1 .. n + 1, NEW l \in 1 .. n + 1, j < l PROVE more[j] < more[l]
      <4>1. j \in 1 .. n
        BY <2>4, <3>7
      <4>2. CASE l = n + 1
        BY <3>2, <3>5, <4>1, <4>2
      <4>3. CASE l \in 1 .. n
        BY <2>5, <3>5, <3>7, <4>1, <4>3
      <4>4. QED
        BY <3>1, <4>2, <4>3
    <3>8. QED
      BY <2>4, <3>4, <3>6, <3>7, Zenon
  <2>7. Places(q, k + 1)
    <3>1. place \in [1 .. n -> 1 .. k + 1]
      BY <2>1, <2>5
    <3>2. QED
      BY <2>5, <3>1 DEF n
  <2> HIDE DEF Places
  <2>8. Places(run[k + 1], k + 1)
    <3>1. run[k + 1] = r \/ run[k + 1] = q
      BY <2>2 DEF q, r
    <3>2. QED
      BY <2>6, <2>7, <3>1
  <2>9. QED
    BY <1>2, <2>1, <2>8
<1> HIDE DEF K
<1>5. \A k \in 0 .. Len(s) : k \in K
  BY <1>2, <1>3, <1>4, IntervalInduction, Zenon
<1>6. Len(s) \in 0 .. Len(s)
  BY <1>2
<1>7. Len(s) \in K
  BY <1>5, <1>6
<1>8. QED
  BY <1>1, <1>7 DEF K

\* In a vector without repetitions nothing is repeated by what is left.
LEMMA OnlyDistinct ==
  ASSUME NEW A, NEW s \in Seq(A), NEW S, \A i, j \in 1 .. Len(s) : s[i] = s[j] => i = j
  PROVE  \A j, l \in 1 .. Len(Only(s, S)) : Only(s, S)[j] = Only(s, S)[l] => j = l
<1> DEFINE n == Len(Only(s, S))
<1>1. PICK place \in [1 .. n -> 1 .. Len(s)] :
        /\ \A j \in 1 .. n : Only(s, S)[j] = s[place[j]]
        /\ \A j, l \in 1 .. n : j < l => place[j] < place[l]
  BY OnlyPlaces
<1>2. \A j, l \in 1 .. n : Only(s, S)[j] = Only(s, S)[l] => place[j] = place[l]
  BY <1>1
<1>3. \A j, l \in 1 .. n : j = l \/ j < l \/ l < j
  OBVIOUS
<1>4. \A j \in 1 .. n : place[j] \in Int
  BY <1>1
<1> HIDE DEF n
<1>5. \A j, l \in 1 .. n : place[j] = place[l] => j = l
  BY <1>1, <1>3, <1>4
<1>6. QED
  BY <1>2, <1>5 DEF n

\* The run of OnlyRun, as one formula.
Filtering(run, s, S, A) ==
  /\ \A k \in 0 .. Len(s) : run[k] \in Seq(A)
  /\ run[0] = <<>> /\ run[Len(s)] = Only(s, S)
  /\ \A k \in 1 .. Len(s) :
       run[k] = IF s[k] \in S THEN Append(run[k - 1], s[k]) ELSE run[k - 1]

LEMMA FilteringRun ==
  ASSUME NEW A, NEW s \in Seq(A), NEW S
  PROVE  \E run : Filtering(run, s, S, A)
<1>1. PICK run \in [0 .. Len(s) -> Seq(A)] :
        /\ run[0] = <<>> /\ run[Len(s)] = Only(s, S)
        /\ \A k \in 1 .. Len(s) :
             run[k] = IF s[k] \in S THEN Append(run[k - 1], s[k]) ELSE run[k - 1]
  BY OnlyRun
<1>2. Filtering(run, s, S, A)
  BY <1>1 DEF Filtering
<1>3. QED
  BY <1>2

\* What is left of a concatenation is what is left of its parts.
LEMMA OnlyConcat ==
  ASSUME NEW A, NEW s \in Seq(A), NEW t \in Seq(A), NEW S
  PROVE  Only(s \o t, S) = Only(s, S) \o Only(t, S)
<1> DEFINE m == Len(s)
           n == Len(t)
           w == s \o t
<1>1. m \in Nat /\ n \in Nat
  BY LenProperties
<1>2. w \in Seq(A) /\ Len(w) = m + n /\ \A i \in 1 .. m + n : w[i] = IF i <= m THEN s[i] ELSE t[i - m]
  BY ConcatProperties
<1>3. /\ \A i \in 1 .. m : s[i] \in A
      /\ \A i \in 1 .. n : t[i] \in A
  BY ElementOfSeq
<1> HIDE DEF w
<1>4. PICK rs : Filtering(rs, s, S, A)
  BY FilteringRun, Zenon
<1>5. PICK rt : Filtering(rt, t, S, A)
  BY FilteringRun, Zenon
<1>6. PICK rw : Filtering(rw, w, S, A)
  BY <1>2, FilteringRun, Zenon
<1> HIDE DEF m, n
<1>11. /\ \A k \in 0 .. m : rs[k] \in Seq(A)
       /\ rs[0] = <<>> /\ rs[m] = Only(s, S)
       /\ \A k \in 1 .. m : rs[k] = IF s[k] \in S THEN Append(rs[k - 1], s[k]) ELSE rs[k - 1]
  BY <1>4 DEF Filtering, m
<1>12. /\ \A k \in 0 .. n : rt[k] \in Seq(A)
       /\ rt[0] = <<>> /\ rt[n] = Only(t, S)
       /\ \A k \in 1 .. n : rt[k] = IF t[k] \in S THEN Append(rt[k - 1], t[k]) ELSE rt[k - 1]
  BY <1>5 DEF Filtering, n
<1>13. /\ rw[0] = <<>> /\ rw[m + n] = Only(w, S)
       /\ \A k \in 1 .. m + n : rw[k] = IF w[k] \in S THEN Append(rw[k - 1], w[k]) ELSE rw[k - 1]
  BY <1>2, <1>6 DEF Filtering
<1>7. rw[m] = rs[m]
  <2> DEFINE T == {k \in 0 .. m : rw[k] = rs[k]}
  <2>1. 0 \in T
    BY <1>1, <1>11, <1>13
  <2>2. ASSUME NEW k \in 0 .. m - 1, k \in T PROVE k + 1 \in T
    <3>1. k + 1 \in 1 .. m /\ k + 1 \in 1 .. m + n /\ k + 1 - 1 = k /\ k + 1 <= m
      BY <1>1, <1>2
    <3>2. w[k + 1] = s[k + 1]
      BY <1>1, <1>2, <3>1
    <3>3. rw[k + 1] = IF w[k + 1] \in S THEN Append(rw[k], w[k + 1]) ELSE rw[k]
      BY <1>13, <3>1
    <3>4. rs[k + 1] = IF s[k + 1] \in S THEN Append(rs[k], s[k + 1]) ELSE rs[k]
      BY <1>11, <3>1
    <3>5. QED
      BY <2>2, <3>1, <3>2, <3>3, <3>4
  <2> HIDE DEF T
  <2>3. \A k \in 0 .. m : k \in T
    BY <1>1, <2>1, <2>2, IntervalInduction, Zenon
  <2>4. m \in T
    BY <1>1, <2>3
  <2>5. QED
    BY <2>4 DEF T
<1>8. rs[m] \in Seq(A)
  BY <1>1, <1>11
<1>9. rw[m + n] = rs[m] \o rt[n]
  <2> DEFINE T == {k \in 0 .. n : rw[m + k] = rs[m] \o rt[k]}
  <2>1. 0 \in T
    <3>1. rs[m] \o <<>> = rs[m]
      BY <1>8, ConcatEmptySeq
    <3>2. QED
      <4>1. rw[m + 0] = rs[m] \o rt[0] /\ 0 \in 0 .. n
        <5>1. m + 0 = m /\ 0 \in 0 .. n
          BY <1>1
        <5>2. QED
          BY <1>12, <1>7, <3>1, <5>1
      <4>2. QED
        BY <4>1
  <2>2. ASSUME NEW k \in 0 .. n - 1, k \in T PROVE k + 1 \in T
    <3>1. k + 1 \in 1 .. n /\ k + 1 - 1 = k /\ k \in 0 .. n
      BY <1>1
    <3> DEFINE j == m + (k + 1)
    <3>2. j \in 1 .. m + n /\ j - 1 = m + k /\ j - m = k + 1 /\ ~(j <= m)
      BY <1>1, <1>2, <3>1
    <3> HIDE DEF j
    <3>3. w[j] = t[k + 1]
      BY <1>2, <3>2
    <3>4. rw[j] = IF t[k + 1] \in S THEN Append(rw[m + k], t[k + 1]) ELSE rw[m + k]
      BY <1>13, <3>2, <3>3
    <3>5. rt[k + 1] = IF t[k + 1] \in S THEN Append(rt[k], t[k + 1]) ELSE rt[k]
      <4> DEFINE i == k + 1
      <4>1. i \in 1 .. n /\ i - 1 = k
        BY <3>1
      <4> HIDE DEF i
      <4>2. rt[i] = IF t[i] \in S THEN Append(rt[k], t[i]) ELSE rt[k]
        BY <1>12, <4>1
      <4>3. QED
        BY <4>2 DEF i
    <3>6. rt[k] \in Seq(A) /\ t[k + 1] \in A /\ <<t[k + 1]>> \in Seq(A)
      BY <1>3, <1>12, <3>1
    <3>7. Append(rs[m] \o rt[k], t[k + 1]) = rs[m] \o Append(rt[k], t[k + 1])
      <4>1. rs[m] \o rt[k] \in Seq(A)
        BY <1>8, <3>6, ConcatProperties
      <4>2. Append(rs[m] \o rt[k], t[k + 1]) = (rs[m] \o rt[k]) \o <<t[k + 1]>>
        BY <3>6, <4>1, AppendIsConcat
      <4>3. Append(rt[k], t[k + 1]) = rt[k] \o <<t[k + 1]>>
        BY <3>6, AppendIsConcat
      <4>4. (rs[m] \o rt[k]) \o <<t[k + 1]>> = rs[m] \o (rt[k] \o <<t[k + 1]>>)
        <5> DEFINE u == rs[m]
                   v == rt[k]
                   e == <<t[k + 1]>>
        <5>1. u \in Seq(A) /\ v \in Seq(A) /\ e \in Seq(A)
          BY <1>8, <3>6
        <5> HIDE DEF u, v, e
        <5>2. (u \o v) \o e = u \o (v \o e)
          BY <5>1, ConcatAssociative, SMTT(30)
        <5>3. QED
          BY <5>2 DEF u, v, e
      <4>5. QED
        BY <4>2, <4>3, <4>4
    <3>8. rw[m + k] = rs[m] \o rt[k]
      BY <2>2
    <3>9. rw[j] = rs[m] \o rt[k + 1]
      BY <3>4, <3>5, <3>7, <3>8
    <3>10. k + 1 \in 0 .. n
      BY <3>1, <1>1
    <3>11. QED
      BY <3>9, <3>10 DEF j
  <2> HIDE DEF T
  <2>3. \A k \in 0 .. n : k \in T
    BY <1>1, <2>1, <2>2, IntervalInduction, Zenon
  <2>4. n \in T
    BY <1>1, <2>3
  <2>5. QED
    BY <2>4 DEF T
<1>10. QED
  BY <1>2, <1>11, <1>12, <1>13, <1>9 DEF w

\* What is left of a single element.
LEMMA OnlySingle ==
  ASSUME NEW e, NEW S
  PROVE  Only(<<e>>, S) = IF e \in S THEN <<e>> ELSE <<>>
<1> DEFINE s == <<e>>
<1>1. s \in Seq({e}) /\ Len(s) = 1 /\ s[1] = e
  OBVIOUS
<1> HIDE DEF s
<1>2. PICK run : Filtering(run, s, S, {e})
  BY <1>1, FilteringRun, Zenon
<1>3. run[1] = IF e \in S THEN Append(<<>>, e) ELSE <<>>
  <2>1. 1 \in 1 .. Len(s) /\ 1 - 1 = 0
    BY <1>1
  <2>2. run[1] = IF s[1] \in S THEN Append(run[1 - 1], s[1]) ELSE run[1 - 1]
    BY <1>2, <2>1, Zenon DEF Filtering
  <2>3. run[0] = <<>>
    BY <1>2 DEF Filtering
  <2>4. QED
    BY <1>1, <2>1, <2>2, <2>3
<1>4. Append(<<>>, e) = <<e>>
  OBVIOUS
<1>5. QED
  BY <1>1, <1>2, <1>3, <1>4 DEF s, Filtering

\* An element at the end.
LEMMA OnlyAppend ==
  ASSUME NEW A, NEW s \in Seq(A), NEW e \in A, NEW S
  PROVE  Only(Append(s, e), S) = IF e \in S THEN Append(Only(s, S), e) ELSE Only(s, S)
<1>1. Append(s, e) = s \o <<e>> /\ <<e>> \in Seq(A)
  BY AppendIsConcat
<1>2. Only(s, S) \in Seq(A)
  <2>1. Only(s, S) \in Seq(A \cap S)
    BY OnlyType
  <2>2. QED
    BY <2>1, SeqMonotonic
<1>3. Only(s \o <<e>>, S) = Only(s, S) \o Only(<<e>>, S)
  <2> DEFINE t == <<e>>
  <2>1. t \in Seq(A)
    BY <1>1
  <2> HIDE DEF t
  <2>2. Only(s \o t, S) = Only(s, S) \o Only(t, S)
    BY <2>1, OnlyConcat
  <2>3. QED
    BY <2>2 DEF t
<1>4. Only(s, S) \o <<e>> = Append(Only(s, S), e) /\ Only(s, S) \o <<>> = Only(s, S)
  BY <1>2, AppendIsConcat, ConcatEmptySeq
<1>5. QED
  BY <1>1, <1>3, <1>4, OnlySingle

\* The element at the head is gone.
LEMMA OnlyTail ==
  ASSUME NEW A, NEW s \in Seq(A), s # <<>>, NEW S
  PROVE  \/ Only(Tail(s), S) = Only(s, S)
         \/ Only(s, S) # <<>> /\ Only(Tail(s), S) = Tail(Only(s, S))
<1> DEFINE e == Head(s)
           r == Tail(s)
           left == Only(r, S)
<1>1. e \in A /\ r \in Seq(A) /\ <<e>> \in Seq(A)
  BY HeadTailProperties
<1>2. s = <<e>> \o r
  <2>1. Len(s) \in Nat \ {0}
    BY EmptySeq
  <2>2. 1 \in 1 .. Len(s) /\ Len(s) \in 1 .. Len(s)
    BY <2>1
  <2>3. SubSeq(s, 1, Len(s)) = <<s[1]>> \o SubSeq(s, 1 + 1, Len(s))
    BY <2>2, SubSeqRecursiveFirst
  <2>4. SubSeq(s, 1, Len(s)) = s /\ SubSeq(s, 2, Len(s)) = r
    BY SubSeqFull, TailIsSubSeq
  <2>5. s[1] = e
    BY <2>2
  <2>6. QED
    BY <2>3, <2>4, <2>5
<1>3. left \in Seq(A)
  <2>1. left \in Seq(A \cap S)
    BY <1>1, OnlyType
  <2>2. QED
    BY <2>1, SeqMonotonic
<1> HIDE DEF e, r
<1>4. Only(s, S) = Only(<<e>>, S) \o left
  <2> DEFINE h == <<e>>
  <2>1. h \in Seq(A) /\ s = h \o r
    BY <1>1, <1>2
  <2> HIDE DEF h
  <2>2. Only(h \o r, S) = Only(h, S) \o Only(r, S)
    BY <1>1, <2>1, OnlyConcat
  <2>3. QED
    BY <2>1, <2>2 DEF h
<1> HIDE DEF left
<1>5. CASE e \in S
  <2>1. Only(s, S) = <<e>> \o left
    BY <1>4, <1>5, OnlySingle
  <2>2. <<e>> \o left # <<>> /\ Tail(<<e>> \o left) = left
    <3> DEFINE u == <<e>> \o left
    <3>1. /\ u \in Seq(A) /\ Len(u) = 1 + Len(left)
          /\ \A i \in 1 .. 1 + Len(left) : u[i] = IF i <= 1 THEN e ELSE left[i - 1]
      BY <1>1, <1>3, ConcatProperties
    <3>2. Len(left) \in Nat
      BY <1>3, LenProperties
    <3> HIDE DEF u
    <3>3. u # <<>>
      BY <3>1, <3>2, EmptySeq
    <3>4. Tail(u) \in Seq(A) /\ Len(Tail(u)) = Len(left)
          /\ \A i \in 1 .. Len(left) : Tail(u)[i] = u[i + 1]
      BY <3>1, <3>2, <3>3, HeadTailProperties
    <3>5. \A i \in 1 .. Len(left) : Tail(u)[i] = left[i]
      BY <3>1, <3>2, <3>4
    <3>6. Tail(u) = left
      BY <1>3, <3>4, <3>5, SeqEqual
    <3>7. QED
      BY <3>3, <3>6 DEF u
  <2>3. QED
    BY <2>1, <2>2 DEF left, r
<1>6. CASE e \notin S
  <2>1. Only(s, S) = <<>> \o left
    BY <1>4, <1>6, OnlySingle
  <2>2. QED
    BY <1>3, <2>1, ConcatEmptySeq DEF left, r
<1>7. QED
  BY <1>5, <1>6

----------------------------------------------------------------------------
(* swap_remove.                                                            *)

\* One element less, and none that was not there.
LEMMA SwapRemoveType ==
  ASSUME NEW A, NEW s \in Seq(A), NEW i \in 1 .. Len(s)
  PROVE  SwapRemove(s, i) \in Seq(A) /\ Len(SwapRemove(s, i)) = Len(s) - 1
<1>1. Len(s) \in Nat /\ Len(s) - 1 \in Nat /\ Len(s) \in 1 .. Len(s)
  BY LenProperties
<1>2. \A j \in 1 .. Len(s) : s[j] \in A
  BY ElementOfSeq
<1>3. \A j \in 1 .. Len(s) - 1 : j \in 1 .. Len(s)
  BY <1>1
<1>4. SwapRemove(s, i) \in [1 .. Len(s) - 1 -> A]
  BY <1>1, <1>2, <1>3 DEF SwapRemove
<1> DEFINE r == SwapRemove(s, i)
           n == Len(s) - 1
<1>5. r \in [1 .. n -> A] /\ n \in Nat
  BY <1>1, <1>4
<1> HIDE DEF r, n
<1>6. r \in Seq(A) /\ DOMAIN r = 1 .. n
  BY <1>5
<1>7. Len(r) = n
  BY <1>5, <1>6, LenProperties
<1>8. QED
  BY <1>6, <1>7 DEF r, n

Occurrences(s, x) == {i \in 1 .. Len(s) : s[i] = x}

\* Of the removed element there is one less, of every other as many as before.
LEMMA SwapRemoveCount ==
  ASSUME NEW A, NEW s \in Seq(A), NEW i \in 1 .. Len(s), NEW x
  PROVE  /\ IsFiniteSet(Occurrences(s, x)) /\ IsFiniteSet(Occurrences(SwapRemove(s, i), x))
         /\ Cardinality(Occurrences(s, x)) =
              Cardinality(Occurrences(SwapRemove(s, i), x)) + IF s[i] = x THEN 1 ELSE 0
<1> DEFINE n == Len(s)
           r == SwapRemove(s, i)
           P == Occurrences(s, x)
           Q == Occurrences(r, x)
<1>1. n \in Nat /\ Len(r) = n - 1 /\ i \in 1 .. n /\ n \in 1 .. n
  BY SwapRemoveType, LenProperties
<1>2. \A j \in 1 .. n - 1 : r[j] = IF j = i THEN s[n] ELSE s[j]
  BY DEF SwapRemove
<1>3. P = {j \in 1 .. n : s[j] = x} /\ Q = {j \in 1 .. n - 1 : r[j] = x}
  BY <1>1 DEF Occurrences
<1> HIDE DEF n, r, P, Q
<1>4. IsFiniteSet(P) /\ IsFiniteSet(Q)
  <2>1. IsFiniteSet(1 .. n) /\ IsFiniteSet(1 .. n - 1)
    BY <1>1, FS_Interval
  <2>2. P \subseteq 1 .. n /\ Q \subseteq 1 .. n - 1
    BY <1>3
  <2>3. QED
    BY <2>1, <2>2, FS_Subset
<1>5. Cardinality(P) \in Nat /\ Cardinality(Q) \in Nat
  BY <1>4, FS_CardinalityType
<1>6. \A e \in P : Cardinality(P \ {e}) = Cardinality(P) - 1 /\ IsFiniteSet(P \ {e})
  BY <1>4, FS_RemoveElement
<1>7. CASE s[n] = x /\ s[i] = x
  <2>1. Q = P \ {n} /\ n \in P
    BY <1>1, <1>2, <1>3, <1>7
  <2>2. QED
    BY <1>5, <1>6, <1>7, <2>1, <1>4 DEF n, r, P, Q
<1>8. CASE s[n] = x /\ s[i] # x
  <2>1. Q = (P \ {n}) \cup {i} /\ n \in P /\ i \notin P \ {n}
    BY <1>1, <1>2, <1>3, <1>8
  <2>2. Cardinality(Q) = Cardinality(P \ {n}) + 1
    BY <1>6, <2>1, FS_AddElement
  <2>3. QED
    BY <1>4, <1>5, <1>6, <1>8, <2>1, <2>2 DEF n, r, P, Q
<1>9. CASE s[n] # x /\ s[i] = x
  <2>1. Q = P \ {i} /\ i \in P
    BY <1>1, <1>2, <1>3, <1>9
  <2>2. QED
    BY <1>4, <1>5, <1>6, <1>9, <2>1 DEF n, r, P, Q
<1>10. CASE s[n] # x /\ s[i] # x
  <2>1. Q = P
    BY <1>1, <1>2, <1>3, <1>10
  <2>2. QED
    BY <1>4, <1>5, <1>10, <2>1 DEF n, r, P, Q
<1>11. QED
  BY <1>7, <1>8, <1>9, <1>10

\* The removal of the positions in S, the highest first, is a run through all of
\* them: after k of n positions at least n - k elements are left, so that the
\* positions still to come are in range.
Removal(run, s, S, A) ==
  /\ \A k \in 0 .. Len(s) : run[k] \in Seq(A) /\ Len(run[k]) >= Len(s) - k
  /\ run[0] = s
  /\ \A k \in 1 .. Len(s) :
       run[k] = IF Len(s) + 1 - k \in S THEN SwapRemove(run[k - 1], Len(s) + 1 - k)
                ELSE run[k - 1]

LEMMA RemovalRun ==
  ASSUME NEW A, NEW s \in Seq(A), NEW S
  PROVE  \E run : Removal(run, s, S, A) /\ run[Len(s)] = SwapRemoveAll(s, S)
<1> DEFINE n == Len(s)
           d0 == Downward(n)
           B == [k \in 0 .. n |-> {r \in Seq(A) : Len(r) >= n - k}]
           base == s
           Op(r, i) == IF i \in S THEN SwapRemove(r, i) ELSE r
           G == [k \in 1 .. n |-> [r \in B[k - 1] |-> Op(r, d0[k])]]
           Def(g) == [d \in SUBSET DOMAIN d0 |->
                        IF d = {} THEN base ELSE Op(g[d \ {Max(d)}], d0[Max(d)])]
           h == CHOOSE g : g = Def(g)
<1>1. n \in Nat /\ DOMAIN d0 = 1 .. n /\ \A k \in 1 .. n : d0[k] = n + 1 - k
  BY LenProperties DEF Downward
<1>2. \A r \in Seq(A) : Len(r) \in Nat
  BY LenProperties
<1>3. SwapRemoveAll(s, S) = h[DOMAIN d0]
  BY DEF SwapRemoveAll, FoldLeft, MapThenFoldSet
<1>4. \A k \in 1 .. n : k - 1 \in 0 .. n /\ k \in 0 .. n
  BY <1>1
<1>5. /\ Growing(B, n) /\ base \in B[0]
      /\ \A k \in 0 .. n : B[k] = {r \in Seq(A) : Len(r) >= n - k}
  BY <1>1, <1>2, <1>4 DEF Growing
<1>6. ASSUME NEW k \in 1 .. n, NEW r, r \in B[k - 1] PROVE Op(r, d0[k]) \in B[k]
  <2>1. r \in Seq(A) /\ Len(r) >= n - k + 1 /\ Len(r) \in Nat
    BY <1>1, <1>2, <1>4, <1>6
  <2>2. d0[k] \in 1 .. Len(r)
    BY <1>1, <2>1
  <2>3. SwapRemove(r, d0[k]) \in Seq(A) /\ Len(SwapRemove(r, d0[k])) = Len(r) - 1
    BY <2>1, <2>2, SwapRemoveType
  <2>4. SwapRemove(r, d0[k]) \in B[k] /\ r \in B[k]
    BY <1>1, <1>4, <2>1, <2>3
  <2>5. QED
    BY <2>4
<1> HIDE DEF d0, n, Op, base, B
<1>7. \A k \in 1 .. n : \A r \in B[k - 1] : G[k][r] = Op(r, d0[k])
  OBVIOUS
<1>8. Steps(G, B, n)
  BY <1>6 DEF Steps
<1> HIDE DEF G
<1>9. \A d \in SUBSET (1 .. n) : d # {} =>
        Max(d) \in 1 .. n /\ d \ {Max(d)} \in SUBSET (1 .. n)
  BY <1>1, MaxOfPositions
<1>10. \A g : Solution(g, G, base, n, B) => g = Def(g)
  <2>1. SUFFICES ASSUME NEW g, Solution(g, G, base, n, B) PROVE g = Def(g)
    BY Zenon
  <2>2. \A d \in SUBSET (1 .. n) :
          g[d] = IF d = {} THEN base ELSE Op(g[d \ {Max(d)}], d0[Max(d)])
    BY <1>7, <1>9, <2>1 DEF Solution
  <2>3. QED
    BY <1>1, <2>1, <2>2 DEF Solution
<1>11. h = Def(h)
  BY <1>1, <1>5, <1>8, <1>10, FoldExists, Zenon
<1> HIDE DEF h
<1>12. \A d \in SUBSET (1 .. n) :
         h[d] = IF d = {} THEN base ELSE Op(h[d \ {Max(d)}], d0[Max(d)])
  BY <1>1, <1>11
<1>13. PICK run : Chain(run, G, base, n, B, h[1 .. n])
  <2>1. h[{}] = base
    BY <1>12
  <2>2. ASSUME NEW d \in SUBSET (1 .. n), d # {}, h[d \ {Max(d)}] \in B[Max(d) - 1]
        PROVE  h[d] = G[Max(d)][h[d \ {Max(d)}]]
    <3>1. Max(d) \in 1 .. n
      BY <1>9, <2>2
    <3>2. h[d] = Op(h[d \ {Max(d)}], d0[Max(d)])
      BY <1>12, <2>2
    <3>3. QED
      BY <1>7, <2>2, <3>1, <3>2
  <2>3. QED
    BY <1>1, <1>5, <1>8, <2>1, <2>2, FoldRun, Zenon
<1>14. \A k \in 0 .. n : run[k] \in Seq(A) /\ Len(run[k]) >= n - k
  BY <1>5, <1>13 DEF Chain
<1>15. run[0] = base /\ run[n] = SwapRemoveAll(s, S)
  BY <1>1, <1>3, <1>13 DEF Chain
<1>16. \A k \in 1 .. n : run[k] = Op(run[k - 1], n + 1 - k)
  BY <1>1, <1>4, <1>7, <1>13 DEF Chain
<1>17. QED
  BY <1>14, <1>15, <1>16 DEF n, Op, base, Removal

\* What is left, with regard to the number of elements that are x.
Left(r, s, S, x, A) ==
  /\ r \in Seq(A) /\ Len(r) <= Len(s)
  /\ Cardinality(Occurrences(s, x)) =
       Cardinality(Occurrences(r, x)) + Cardinality(S \cap Occurrences(s, x))

\* Such a run takes out exactly what was at the positions in S: what is swapped
\* into their places has been passed before.
LEMMA RunExact ==
  ASSUME NEW A, NEW s \in Seq(A), NEW S, S \subseteq 1 .. Len(s), NEW x, NEW run,
         Removal(run, s, S, A)
  PROVE  Left(run[Len(s)], s, S, x, A)
<1> DEFINE n == Len(s)
           Taken(k) == {j \in S \cap Occurrences(s, x) : j > n - k}
<1>1. /\ \A k \in 0 .. n : run[k] \in Seq(A) /\ Len(run[k]) >= n - k
      /\ run[0] = s
      /\ \A k \in 1 .. n :
           run[k] = IF n + 1 - k \in S THEN SwapRemove(run[k - 1], n + 1 - k)
                    ELSE run[k - 1]
  BY DEF Removal
<1> DEFINE Exact(q, k) ==
             /\ Len(q) <= n /\ \A j \in 1 .. n - k : q[j] = s[j]
             /\ IsFiniteSet(Occurrences(q, x)) /\ IsFiniteSet(Taken(k))
             /\ Cardinality(Occurrences(s, x)) =
                  Cardinality(Occurrences(q, x)) + Cardinality(Taken(k))
           K == {k \in 0 .. n : Exact(run[k], k)}
<1>2. n \in Nat /\ IsFiniteSet(Occurrences(s, x)) /\ Cardinality(Occurrences(s, x)) \in Nat
  <2>1. n \in Nat
    BY LenProperties
  <2>2. IsFiniteSet(1 .. n)
    BY <2>1, FS_Interval
  <2>3. Occurrences(s, x) \subseteq 1 .. n
    BY DEF Occurrences
  <2>4. QED
    BY <2>1, <2>2, <2>3, FS_Subset, FS_CardinalityType
<1>3. \A k \in 0 .. n : Taken(k) \subseteq Occurrences(s, x) /\ IsFiniteSet(Taken(k))
  BY <1>2, FS_Subset
<1>4. Taken(0) = {} /\ Taken(n) = S \cap Occurrences(s, x)
  BY <1>2 DEF Occurrences
<1>5. \A k \in 0 .. n - 1 :
        Taken(k + 1) = IF n - k \in S /\ s[n - k] = x THEN Taken(k) \cup {n - k} ELSE Taken(k)
  BY <1>2 DEF Occurrences
<1>6. \A k \in 0 .. n : n - k \notin Taken(k)
  BY <1>2
<1> HIDE DEF Taken
<1>7. 0 \in K
  BY <1>1, <1>2, <1>3, <1>4, FS_EmptySet
<1>8. ASSUME NEW k \in 0 .. n - 1, k \in K PROVE k + 1 \in K
  <2> DEFINE q == run[k]
             i == n - k
  <2>1. /\ k + 1 \in 1 .. n /\ (k + 1) - 1 = k /\ n + 1 - (k + 1) = i
        /\ i \in 1 .. n /\ k \in 0 .. n /\ k + 1 \in 0 .. n /\ n - (k + 1) = i - 1
    BY <1>2
  <2>2. run[k + 1] = IF i \in S THEN SwapRemove(q, i) ELSE q
    BY <1>1, <2>1
  <2>3. q \in Seq(A) /\ Len(q) >= i /\ Len(q) \in Nat /\ Exact(q, k)
    BY <1>1, <1>8, <2>1, LenProperties
  <2> HIDE DEF q
  <2>4. i \in 1 .. Len(q) /\ q[i] = s[i]
    <3>1. i \in 1 .. n - k
      BY <2>1
    <3>2. q[i] = s[i]
      BY <2>3, <3>1
    <3> HIDE DEF Exact
    <3>3. QED
      BY <2>1, <2>3, <3>2
  <2>5. Cardinality(Taken(k)) \in Nat /\ IsFiniteSet(Taken(k + 1))
    BY <1>3, <2>1, FS_CardinalityType
  <2>6. Cardinality(Occurrences(q, x)) \in Nat
    BY <2>3, FS_CardinalityType
  <2>7. Taken(k + 1) = IF i \in S /\ s[i] = x THEN Taken(k) \cup {i} ELSE Taken(k)
    BY <1>5
  <2>8. Cardinality(Taken(k) \cup {i}) = Cardinality(Taken(k)) + 1
    BY <1>3, <1>6, <2>1, FS_AddElement
  <2> HIDE DEF i
  <2>9. CASE i \in S
    <3> DEFINE t == SwapRemove(q, i)
    <3>1. Len(t) = Len(q) - 1
      BY <2>3, <2>4, SwapRemoveType
    <3>2. /\ IsFiniteSet(Occurrences(t, x))
          /\ Cardinality(Occurrences(q, x)) =
               Cardinality(Occurrences(t, x)) + IF q[i] = x THEN 1 ELSE 0
      BY <2>3, <2>4, SwapRemoveCount
    <3>3. Cardinality(Occurrences(t, x)) \in Nat
      BY <3>2, FS_CardinalityType
    <3>4. \A j \in 1 .. i - 1 : t[j] = q[j]
      BY <2>3, <2>4 DEF SwapRemove
    <3> HIDE DEF t
    <3>5. \A j \in 1 .. n - (k + 1) : t[j] = s[j]
      BY <1>2, <2>1, <2>3, <3>4 DEF i
    <3>6. Cardinality(Taken(k + 1)) = Cardinality(Taken(k)) + IF s[i] = x THEN 1 ELSE 0
      BY <2>7, <2>8, <2>9, <2>5
    <3>7. Len(t) <= n
      BY <1>2, <2>3, <3>1
    <3>8. Cardinality(Occurrences(s, x)) =
            Cardinality(Occurrences(t, x)) + Cardinality(Taken(k + 1))
      BY <1>2, <2>3, <2>4, <2>5, <2>6, <3>2, <3>3, <3>6
    <3>9. Exact(t, k + 1)
      BY <2>5, <3>2, <3>5, <3>7, <3>8
    <3>10. QED
      BY <2>1, <2>2, <2>9, <3>9 DEF t
  <2>10. CASE i \notin S
    <3>1. Exact(q, k + 1)
      BY <1>2, <2>1, <2>3, <2>5, <2>7, <2>10 DEF i
    <3>2. QED
      BY <2>1, <2>2, <2>10, <3>1
  <2>11. QED
    BY <2>9, <2>10
<1> HIDE DEF K
<1>9. \A k \in 0 .. n : k \in K
  BY <1>2, <1>7, <1>8, IntervalInduction, Zenon
<1>10. n \in 0 .. n
  BY <1>2
<1>11. Exact(run[n], n) /\ run[n] \in Seq(A)
  BY <1>1, <1>9, <1>10 DEF K
<1>12. QED
  BY <1>4, <1>11 DEF Left

\* In terms of the fold.
LEMMA RemovalExact ==
  ASSUME NEW A, NEW s \in Seq(A), NEW S, S \subseteq 1 .. Len(s), NEW x
  PROVE  Left(SwapRemoveAll(s, S), s, S, x, A)
<1>1. PICK run : Removal(run, s, S, A) /\ run[Len(s)] = SwapRemoveAll(s, S)
  BY RemovalRun
<1>2. Left(run[Len(s)], s, S, x, A)
  BY <1>1, RunExact
<1>3. QED
  BY <1>1, <1>2

----------------------------------------------------------------------------
(* ClientQueue.                                                            *)

\* A set of naturals has a least element: the finite intervals below its
\* members are well-founded under inclusion.  Loops that look for the first
\* element with a property (position in queue_qos1, the for loop of
\* alloc_pid) find one whenever there is one.
LEMMA NatMin ==
  ASSUME NEW T, T \subseteq Nat, T # {}
  PROVE  \E x \in T : \A y \in T : x <= y
<1> DEFINE Up == {1..k : k \in T}
<1> DEFINE R == StrictSubsetOrdering(Nat)
<1>1. Up \subseteq FiniteSubsetsOf(Nat)
  BY FS_Interval DEF FiniteSubsetsOf
<1>2. IsWellFoundedOn(R, FiniteSubsetsOf(Nat))
  BY FS_StrictSubsetOrderingWellFounded
<1>3. PICK X \in Up : \A Y \in Up : ~ (<<Y, X>> \in R)
  <2> HIDE DEF R
  <2> Up # {}
    OBVIOUS
  <2> HIDE DEF Up
  <2> QED
    BY <1>1, <1>2, WFMin
<1>4. PICK x \in T : X = 1..x
  OBVIOUS
<1>5. ASSUME NEW y \in T, y < x PROVE FALSE
  <2>1. 1..y \in Up
    OBVIOUS
  <2>2. 1..y \subseteq 1..x /\ 1..y # 1..x
    <3>1. x \in 1..x /\ x \notin 1..y
      BY <1>5
    <3> QED
      BY <3>1, <1>5
  <2>3. <<1..y, X>> \in R
    BY <2>2, <1>4 DEF StrictSubsetOrdering
  <2> QED
    BY <2>1, <2>3, <1>3
<1>6. QED
  BY <1>5

----------------------------------------------------------------------------
(* The write queue.                                                        *)

\* Shorthand for the queues that hold packets of a set P.
QueueOf(P) == Seq([rel : BOOLEAN, pkt : P])

\* Appending a packet (push_back) gives a queue with one entry more.
LEMMA AppendType ==
  ASSUME NEW P, NEW q \in QueueOf(P), NEW e \in [rel : BOOLEAN, pkt : P]
  PROVE  /\ Append(q, e) \in QueueOf(P)
         /\ Len(Append(q, e)) = Len(q) + 1
<1> DEFINE E == [rel : BOOLEAN, pkt : P]
<1>1. q \in Seq(E) /\ e \in E /\ QueueOf(P) = Seq(E)
  BY DEF QueueOf
<1> HIDE DEF E
<1>2. QED
  BY <1>1, AppendProperties

\* position() of queue_qos1: with a QoS0 entry in the queue, FirstQos0 is the
\* index of the oldest one.
LEMMA FirstQos0Found ==
  ASSUME NEW P, NEW q \in QueueOf(P), \E i \in DOMAIN q : ~q[i].rel
  PROVE  /\ FirstQos0(q) \in 1..Len(q)
         /\ ~q[FirstQos0(q)].rel
         /\ \A j \in 1 .. FirstQos0(q)-1 : q[j].rel
<1> DEFINE T == {i \in DOMAIN q : ~q[i].rel}
<1>1. DOMAIN q = 1..Len(q) /\ Len(q) \in Nat
  BY LenProperties DEF QueueOf
<1>2. \A j \in DOMAIN q : q[j].rel \in BOOLEAN
  <2> DEFINE E == [rel : BOOLEAN, pkt : P]
  <2>1. q \in Seq(E)
    BY DEF QueueOf
  <2>2. \A e \in E : e.rel \in BOOLEAN
    OBVIOUS
  <2> HIDE DEF E
  <2>3. \A j \in 1..Len(q) : q[j] \in E
    BY <2>1, ElementOfSeq
  <2> QED
    BY <1>1, <2>2, <2>3
<1>3. PICK i \in T : \A j \in T : i <= j
  <2> T \subseteq Nat /\ T # {}
    BY <1>1
  <2> HIDE DEF T
  <2> QED
    BY NatMin
<1>4. i \in DOMAIN q /\ ~q[i].rel /\ \A j \in 1 .. i-1 : q[j].rel
  BY <1>1, <1>2, <1>3
<1>5. QED
  BY <1>1, <1>4 DEF FirstQos0

\* VecDeque::remove: one entry less, the others still packets of the queue.
LEMMA DropAtShorter ==
  ASSUME NEW S, NEW q \in Seq(S), NEW i \in 1..Len(q)
  PROVE  /\ DropAt(q, i) \in Seq(S)
         /\ Len(DropAt(q, i)) = Len(q) - 1
<1>1. Len(q) \in Nat
  BY LenProperties
<1>2. \A j \in 1..Len(q) : q[j] \in S
  BY ElementOfSeq
<1>3. SubSeq(q, 1, i-1) \in Seq(S) /\ Len(SubSeq(q, 1, i-1)) = i-1
  <2>1. \A j \in 1..(i-1) : q[j] \in S
    BY <1>1, <1>2
  <2>2. QED
    BY <1>1, <2>1, SubSeqProperties
<1>4. SubSeq(q, i+1, Len(q)) \in Seq(S) /\ Len(SubSeq(q, i+1, Len(q))) = Len(q) - i
  <2>1. \A j \in (i+1)..Len(q) : q[j] \in S
    BY <1>1, <1>2
  <2>2. QED
    BY <1>1, <2>1, SubSeqProperties
<1> DEFINE s == SubSeq(q, 1, i-1)
           t == SubSeq(q, i+1, Len(q))
<1> HIDE DEF s, t
<1>5. s \o t \in Seq(S) /\ Len(s \o t) = Len(s) + Len(t)
  BY <1>3, <1>4, ConcatProperties DEF s, t
<1>6. Len(s) + Len(t) = Len(q) - 1
  <2>1. Len(s) = i-1 /\ Len(t) = Len(q) - i
    BY <1>3, <1>4 DEF s, t
  <2>2. QED
    BY <1>1, <2>1
<1>7. QED
  BY <1>5, <1>6 DEF DropAt, s, t

\* queue_qos0 keeps a queue within its bound.
LEMMA Queue0Bounded ==
  ASSUME NEW P, NEW q \in QueueOf(P), NEW pkt \in P,
         Len(q) <= WRITE_QUEUE_CAP
  PROVE  /\ Queue0(q, pkt) \in QueueOf(P)
         /\ Len(Queue0(q, pkt)) <= WRITE_QUEUE_CAP
<1>1. Len(q) \in Nat /\ WRITE_QUEUE_CAP \in Nat
  BY LenProperties, CapAssumption DEF QueueOf
<1>2. Queued(FALSE, pkt) \in [rel : BOOLEAN, pkt : P]
  BY DEF Queued
<1>3. /\ Append(q, Queued(FALSE, pkt)) \in QueueOf(P)
      /\ Len(Append(q, Queued(FALSE, pkt))) = Len(q) + 1
  BY <1>2, AppendType
<1>4. CASE Accepts0(q)
  <2> DEFINE a == Append(q, Queued(FALSE, pkt))
  <2> HIDE DEF a
  <2>1. Queue0(q, pkt) = a
    BY <1>4 DEF Queue0, a
  <2>2. a \in QueueOf(P) /\ Len(a) = Len(q) + 1
    BY <1>3 DEF a
  <2>3. QED
    BY <1>1, <1>4, <2>1, <2>2 DEF Accepts0
<1>5. CASE ~Accepts0(q)
  BY <1>5 DEF Queue0
<1>6. QED
  BY <1>4, <1>5

\* queue_qos1, where it returns Ok, keeps a queue within its bound: the one
\* eviction it may need is always possible.
LEMMA Queue1Bounded ==
  ASSUME NEW P, NEW q \in QueueOf(P), NEW pkt \in P,
         Len(q) <= WRITE_QUEUE_CAP, Accepts1(q)
  PROVE  /\ Queue1(q, pkt) \in QueueOf(P)
         /\ Len(Queue1(q, pkt)) <= WRITE_QUEUE_CAP
<1>1. Len(q) \in Nat /\ WRITE_QUEUE_CAP \in Nat
  BY LenProperties, CapAssumption DEF QueueOf
<1>2. Queued(TRUE, pkt) \in [rel : BOOLEAN, pkt : P]
  BY DEF Queued
<1>3. Evict(q) \in QueueOf(P) /\ Len(Evict(q)) < WRITE_QUEUE_CAP
  <2>1. CASE Accepts0(q)
    BY <2>1, <1>1 DEF Evict, Accepts0
  <2>2. CASE ~Accepts0(q)
    <3>1. FirstQos0(q) \in 1..Len(q)
      BY <2>2, FirstQos0Found DEF Accepts1
    <3>2. DropAt(q, FirstQos0(q)) \in QueueOf(P)
          /\ Len(DropAt(q, FirstQos0(q))) = Len(q) - 1
      BY <3>1, DropAtShorter DEF QueueOf
    <3>3. QED
      BY <2>2, <3>2, <1>1 DEF Evict
  <2>3. QED
    BY <2>1, <2>2
<1>4. QED
  <2> DEFINE a == Append(Evict(q), Queued(TRUE, pkt))
  <2>1. a \in QueueOf(P) /\ Len(a) = Len(Evict(q)) + 1
    BY <1>2, <1>3, AppendType
  <2> HIDE DEF a
  <2>2. Queue1(q, pkt) = a
    BY DEF Queue1, a
  <2>3. Len(Evict(q)) \in Nat
    BY <1>3, LenProperties DEF QueueOf
  <2>4. QED
    BY <1>1, <1>3, <2>1, <2>2, <2>3

----------------------------------------------------------------------------
(* Packet ids.                                                             *)

\* alloc_pid never runs off the end of its loop: while the window has room,
\* some id is the first free one at or after next_pid.
LEMMA AllocSucceeds ==
  ASSUME NEW win, NEW vacant, NEW next \in 0..MAX_PID,
         ~WindowFull(win, vacant)
  PROVE  \E p \in Pid : IsNextPid(win, vacant, next, p)
<1> DEFINE Free == {p \in Pid : win[p] = vacant}
<1> DEFINE Far == {Distance(next, p) : p \in Free}
<1>1. MAX_PID \in Nat /\ IN_FLIGHT_CAP \in Nat /\ IN_FLIGHT_CAP <= MAX_PID
  BY CapAssumption
<1>2. IsFiniteSet(Pid) /\ Cardinality(Pid) = MAX_PID
  <2>1. Cardinality(1..MAX_PID) = IF 1 > MAX_PID THEN 0 ELSE MAX_PID - 1 + 1
    BY <1>1, FS_Interval
  <2>2. IsFiniteSet(1..MAX_PID)
    BY <1>1, FS_Interval
  <2>3. QED
    BY <1>1, <2>1, <2>2 DEF Pid
<1>3. Free # {}
  <2>1. SUFFICES ASSUME Free = {} PROVE FALSE
    OBVIOUS
  <2>2. InUse(win, vacant) = Pid
    BY <2>1 DEF InUse
  <2>3. QED
    BY <2>2, <1>1, <1>2 DEF WindowFull
<1>4. \A p \in Pid : Distance(next, p) \in Nat
  BY <1>1 DEF Distance, Pid
<1>5. PICK d \in Far : \A e \in Far : d <= e
  <2> Far \subseteq Nat /\ Far # {}
    BY <1>3, <1>4
  <2> HIDE DEF Far
  <2> QED
    BY NatMin
<1>6. PICK p \in Free : d = Distance(next, p)
  OBVIOUS
<1>7. ASSUME NEW r \in Pid, Distance(next, r) < Distance(next, p)
      PROVE  win[r] # vacant
  <2>1. SUFFICES ASSUME win[r] = vacant PROVE FALSE
    OBVIOUS
  <2>2. Distance(next, p) <= Distance(next, r)
    BY <2>1, <1>5, <1>6
  <2>3. QED
    BY <2>2, <1>4, <1>6, <1>7
<1>8. QED
  BY <1>6, <1>7 DEF IsNextPid

\* Taking an id keeps a window that had room within its bound.
LEMMA WindowGrows ==
  ASSUME NEW S, NEW win \in [Pid -> S], NEW vacant, NEW p \in Pid, NEW e,
         ~WindowFull(win, vacant)
  PROVE  Cardinality(InUse([win EXCEPT ![p] = e], vacant)) <= IN_FLIGHT_CAP
<1>1. IsFiniteSet(Pid) /\ IN_FLIGHT_CAP \in Nat
  BY CapAssumption, FS_Interval DEF Pid
<1>2. IsFiniteSet(InUse(win, vacant)) /\ Cardinality(InUse(win, vacant)) \in Nat
  BY <1>1, FS_Subset, FS_CardinalityType DEF InUse
<1>3. InUse([win EXCEPT ![p] = e], vacant) \subseteq InUse(win, vacant) \cup {p}
  BY DEF InUse
<1>4. /\ IsFiniteSet(InUse(win, vacant) \cup {p})
      /\ Cardinality(InUse(win, vacant) \cup {p}) <= Cardinality(InUse(win, vacant)) + 1
  <2> DEFINE W == InUse(win, vacant)
  <2>1. IsFiniteSet(W) /\ Cardinality(W) \in Nat
    BY <1>2
  <2> HIDE DEF W
  <2>2. /\ IsFiniteSet(W \cup {p})
        /\ Cardinality(W \cup {p}) = IF p \in W THEN Cardinality(W) ELSE Cardinality(W) + 1
    BY <2>1, FS_AddElement
  <2>3. QED
    BY <2>1, <2>2 DEF W
<1>5. Cardinality(InUse([win EXCEPT ![p] = e], vacant))
        <= Cardinality(InUse(win, vacant) \cup {p})
  BY <1>3, <1>4, FS_Subset
<1>6. /\ Cardinality(InUse([win EXCEPT ![p] = e], vacant)) \in Nat
      /\ Cardinality(InUse(win, vacant) \cup {p}) \in Nat
  BY <1>3, <1>4, FS_Subset, FS_CardinalityType
<1>7. QED
  BY <1>1, <1>2, <1>4, <1>5, <1>6 DEF WindowFull

\* A window with no id that another one lacks is within the same bound.
LEMMA WindowShrinks ==
  ASSUME NEW win, NEW win2, NEW vacant,
         InUse(win2, vacant) \subseteq InUse(win, vacant),
         Cardinality(InUse(win, vacant)) <= IN_FLIGHT_CAP
  PROVE  Cardinality(InUse(win2, vacant)) <= IN_FLIGHT_CAP
<1>1. IsFiniteSet(Pid) /\ IN_FLIGHT_CAP \in Nat
  BY CapAssumption, FS_Interval DEF Pid
<1>2. IsFiniteSet(InUse(win, vacant))
  BY <1>1, FS_Subset DEF InUse
<1>3. Cardinality(InUse(win2, vacant)) <= Cardinality(InUse(win, vacant))
  BY <1>2, FS_Subset
<1>4. /\ Cardinality(InUse(win, vacant)) \in Nat
      /\ Cardinality(InUse(win2, vacant)) \in Nat
  BY <1>2, FS_Subset, FS_CardinalityType
<1>5. QED
  BY <1>1, <1>3, <1>4
=============================================================================
