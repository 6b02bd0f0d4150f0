------------------------------ MODULE FileProofs ------------------------------
(***************************************************************************)
(* The state file, for every value of the constants and every table: what  *)
(* serialize_state writes, deserialize_state reads back, and no strict     *)
(* beginning of it is taken for a file.                                    *)
(*                                                                         *)
(* Both facts are one: let the file be cut off after m cells.  Then each   *)
(* reader, started where its part of the file begins, comes to where that  *)
(* part ends with the value that was written, unless the end is beyond m,  *)
(* in which case it fails (Reached); so the last one fails unless the file *)
(* is whole.  This is shown for a text, a message, a subscription, a list  *)
(* of them, a session and a list of sessions.  A list is read by a fold,   *)
(* whose intermediate cursors are named (ListCursor) and followed by       *)
(* induction on their number; an operator cannot be the parameter of a     *)
(* fact, so the last step of that argument is made for each kind of entry. *)
(***************************************************************************)
EXTENDS BrokerFile, BrokerProofs

----------------------------------------------------------------------------
(* Parts of a file.                                                        *)

\* part stands in data after the first pos cells.
Holds(data, pos, part) ==
  /\ pos + Len(part) <= Len(data)
  /\ \A i \in 1 .. Len(part) : data[pos + i] = part[i]

\* What follows pos cells on: the parts of a part.
LEMMA HoldsPart ==
  ASSUME NEW A, NEW data \in Seq(A), NEW pos \in Nat, NEW part \in Seq(A),
         Holds(data, pos, part),
         NEW from \in Nat, NEW inner \in Seq(A), Holds(part, from, inner)
  PROVE  Holds(data, pos + from, inner)
<1>1. Len(data) \in Nat /\ Len(part) \in Nat /\ Len(inner) \in Nat
  BY LenProperties
<1>2. from + Len(inner) <= Len(part) /\ pos + Len(part) <= Len(data)
  BY DEF Holds
<1>3. ASSUME NEW i \in 1 .. Len(inner) PROVE data[pos + from + i] = inner[i]
  <2>1. from + i \in 1 .. Len(part)
    BY <1>1, <1>2
  <2>2. part[from + i] = inner[i] /\ data[pos + (from + i)] = part[from + i]
    BY <2>1 DEF Holds
  <2>3. pos + (from + i) = pos + from + i
    OBVIOUS
  <2>4. QED
    BY <2>2, <2>3
<1>4. QED
  BY <1>1, <1>2, <1>3 DEF Holds

\* The two halves of a concatenation.
LEMMA HoldsHalves ==
  ASSUME NEW A, NEW p \in Seq(A), NEW q \in Seq(A)
  PROVE  /\ p \o q \in Seq(A) /\ Len(p \o q) = Len(p) + Len(q)
         /\ Holds(p \o q, 0, p) /\ Holds(p \o q, Len(p), q)
<1> DEFINE pq == p \o q
<1>1. Len(p) \in Nat /\ Len(q) \in Nat
  BY LenProperties
<1>2. /\ pq \in Seq(A) /\ Len(pq) = Len(p) + Len(q)
      /\ \A i \in 1 .. Len(p) + Len(q) : pq[i] = IF i <= Len(p) THEN p[i] ELSE q[i - Len(p)]
  BY ConcatProperties
<1> HIDE DEF pq
<1>3. \A i \in 1 .. Len(p) : 0 + i = i /\ i \in 1 .. Len(p) + Len(q) /\ i <= Len(p)
  BY <1>1
<1>4. \A i \in 1 .. Len(q) : Len(p) + i \in 1 .. Len(p) + Len(q) /\ ~(Len(p) + i <= Len(p))
                             /\ (Len(p) + i) - Len(p) = i
  BY <1>1
<1>5. Holds(pq, 0, p)
  <2>1. 0 + Len(p) <= Len(pq)
    BY <1>1, <1>2
  <2>2. \A i \in 1 .. Len(p) : pq[0 + i] = p[i]
    BY <1>2, <1>3
  <2>3. QED
    BY <2>1, <2>2 DEF Holds
<1>6. Holds(pq, Len(p), q)
  <2>1. Len(p) + Len(q) <= Len(pq)
    BY <1>1, <1>2
  <2>2. \A i \in 1 .. Len(q) : pq[Len(p) + i] = q[i]
    BY <1>2, <1>4
  <2>3. QED
    BY <2>1, <2>2 DEF Holds
<1>7. QED
  BY <1>2, <1>5, <1>6 DEF pq

\* Where a concatenation stands in the data, so do its halves.
LEMMA HoldsBoth ==
  ASSUME NEW A, NEW data \in Seq(A), NEW pos \in Nat, NEW p \in Seq(A), NEW q \in Seq(A),
         Holds(data, pos, p \o q)
  PROVE  Holds(data, pos, p) /\ Holds(data, pos + Len(p), q)
<1> DEFINE pq == p \o q
<1>1. pq \in Seq(A) /\ Holds(pq, 0, p) /\ Holds(pq, Len(p), q) /\ Holds(data, pos, pq)
  BY HoldsHalves
<1> HIDE DEF pq
<1>2. Len(p) \in Nat /\ 0 \in Nat /\ pos + 0 = pos
  BY LenProperties
<1>3. Holds(data, pos + 0, p)
  BY <1>1, <1>2, HoldsPart
<1>4. Holds(data, pos + Len(p), q)
  BY <1>1, <1>2, HoldsPart
<1>5. QED
  BY <1>2, <1>3, <1>4

----------------------------------------------------------------------------
(* FlattenSeq.                                                             *)

\* Where the members of seqs stand in their concatenation: off[k] is the length
\* of the first k.
Places(seqs, off, flat) ==
  /\ off \in [0 .. Len(seqs) -> Nat] /\ off[0] = 0
  /\ \A k \in 1 .. Len(seqs) : off[k] = off[k - 1] + Len(seqs[k]) /\ Holds(flat, off[k - 1], seqs[k])
  /\ Len(flat) = off[Len(seqs)]

\* f holds the concatenations of the first members of seqs.
Flattens(f, seqs, n) ==
  \A i \in 1 .. n : f[i] = IF i = 1 THEN seqs[i] ELSE f[i - 1] \o seqs[i]

\* The recursion by which FlattenSeq concatenates has a solution.
LEMMA FlattenExists ==
  ASSUME NEW A, NEW n \in Nat, NEW seqs \in [1 .. n -> Seq(A)]
  PROVE  \E f \in [1 .. n -> Seq(A)] : Flattens(f, seqs, n)
<1> DEFINE Solves(f, k) ==
             \A i \in 1 .. k : f[i] = IF i = 1 THEN seqs[i] ELSE f[i - 1] \o seqs[i]
           S == {k \in 0 .. n : \E f \in [1 .. k -> Seq(A)] : Solves(f, k)}
<1>1. 0 \in S
  <2>1. [i \in 1 .. 0 |-> <<>>] \in [1 .. 0 -> Seq(A)]
    OBVIOUS
  <2>2. Solves([i \in 1 .. 0 |-> <<>>], 0) /\ 0 \in 0 .. n
    OBVIOUS
  <2>3. QED
    BY <2>1, <2>2, Zenon
<1>2. ASSUME NEW k \in 0 .. n - 1, k \in S PROVE k + 1 \in S
  <2>1. PICK f \in [1 .. k -> Seq(A)] : Solves(f, k)
    BY <1>2
  <2> DEFINE last == IF k + 1 = 1 THEN seqs[k + 1] ELSE f[k] \o seqs[k + 1]
             more == [i \in 1 .. k + 1 |-> IF i = k + 1 THEN last ELSE f[i]]
  <2>2. last \in Seq(A)
    <3>1. seqs[k + 1] \in Seq(A)
      OBVIOUS
    <3>2. CASE k = 0
      BY <3>1, <3>2
    <3>3. CASE k # 0
      <4>1. f[k] \in Seq(A)
        BY <2>1, <3>3
      <4>2. QED
        BY <3>1, <3>3, <4>1, HoldsHalves
    <3>4. QED
      BY <3>2, <3>3
  <2>3. k + 1 # 1 => (k + 1) - 1 = k /\ k \in 1 .. k
    OBVIOUS
  <2>4. more[k + 1] = last
    OBVIOUS
  <2>5. \A i \in 1 .. k : more[i] = f[i] /\ (i # 1 => i - 1 \in 1 .. k)
    <3>1. \A i \in 1 .. k : i # k + 1 /\ i \in 1 .. k + 1 /\ (i # 1 => i - 1 \in 1 .. k)
      OBVIOUS
    <3> HIDE DEF last
    <3>2. QED
      BY <3>1
  <2>6. more \in [1 .. k + 1 -> Seq(A)]
    BY <2>1, <2>2
  <2> HIDE DEF more
  <2>7. last = IF k + 1 = 1 THEN seqs[k + 1] ELSE more[(k + 1) - 1] \o seqs[k + 1]
    BY <2>3, <2>5
  <2> HIDE DEF last
  <2>8. \A i \in 1 .. k + 1 : i = k + 1 \/ i \in 1 .. k
    OBVIOUS
  <2>9. \A i \in 1 .. k : more[i] = IF i = 1 THEN seqs[i] ELSE more[i - 1] \o seqs[i]
    BY <2>1, <2>5
  <2>10. Solves(more, k + 1)
    BY <2>4, <2>7, <2>8, <2>9, Zenon
  <2>11. k + 1 \in 0 .. n
    OBVIOUS
  <2> HIDE DEF Solves
  <2>12. QED
    BY <2>6, <2>10, <2>11, Zenon
<1> HIDE DEF S
<1>3. \A k \in 0 .. n : k \in S
  BY <1>1, <1>2, IntervalInduction, Zenon
<1>4. n \in S
  BY <1>3
<1>5. QED
  BY <1>4, Zenon DEF S, Flattens

\* The members of a sequence of sequences stand in their concatenation one
\* after the other.
LEMMA FlattenPlaces ==
  ASSUME NEW A, NEW seqs \in Seq(Seq(A))
  PROVE  FlattenSeq(seqs) \in Seq(A) /\ \E off : Places(seqs, off, FlattenSeq(seqs))
<1> DEFINE n == Len(seqs)
           Def(f) == [i \in 1 .. n |-> IF i = 1 THEN seqs[i] ELSE f[i - 1] \o seqs[i]]
           h == CHOOSE f : f = Def(f)
<1>1. n \in Nat /\ seqs \in [1 .. n -> Seq(A)]
  BY LenProperties
<1>2. FlattenSeq(seqs) = IF n = 0 THEN seqs ELSE h[n]
  BY DEF FlattenSeq
<1>3. n = 0 => seqs = <<>>
  BY EmptySeq
<1> HIDE DEF n
<1>4. PICK f \in [1 .. n -> Seq(A)] : Flattens(f, seqs, n)
  BY <1>1, FlattenExists, Zenon
<1>5. f = Def(f)
  BY <1>4 DEF Flattens
<1>6. h = Def(h)
  BY <1>5, Zenon
<1> HIDE DEF h
<1>7. \A i \in 1 .. n : h[i] = IF i = 1 THEN seqs[i] ELSE h[i - 1] \o seqs[i]
  BY <1>6
<1> DEFINE off == [k \in 0 .. n |-> IF k = 0 THEN 0 ELSE Len(h[k])]
           S == {k \in 0 .. n : k # 0 =>
                  /\ h[k] \in Seq(A)
                  /\ off[k] = off[k - 1] + Len(seqs[k])
                  /\ \A j \in 1 .. k : Holds(h[k], off[j - 1], seqs[j])
                  /\ \A j \in 0 .. k : off[j] \in Nat}
<1>8. off[0] = 0 /\ \A k \in 1 .. n : off[k] = Len(h[k])
  BY <1>1
<1>9. off = [k \in 0 .. n |-> off[k]]
  OBVIOUS
<1> HIDE DEF off
<1>10. 0 \in S
  BY <1>1
<1>11. ASSUME NEW k \in 0 .. n - 1, k \in S PROVE k + 1 \in S
  <2> DEFINE last == seqs[k + 1]
  <2>1. k + 1 \in 1 .. n /\ (k + 1) - 1 = k /\ last \in Seq(A)
    BY <1>1
  <2>2. CASE k = 0
    <3>1. h[1] = last /\ k + 1 = 1
      BY <1>7, <2>1, <2>2
    <3>2. off[1] = Len(last) /\ Len(last) \in Nat
      BY <1>8, <2>1, <3>1, LenProperties
    <3>3. Holds(h[1], 0, last)
      BY <3>1, <3>2 DEF Holds
    <3>4. /\ h[k + 1] \in Seq(A) /\ off[k + 1] = off[(k + 1) - 1] + Len(seqs[k + 1])
          /\ \A j \in 0 .. k + 1 : off[j] \in Nat
      BY <1>8, <2>1, <2>2, <3>1, <3>2
    <3>5. \A j \in 1 .. k + 1 : j = 1
      BY <3>1
    <3>6. \A j \in 1 .. k + 1 : Holds(h[k + 1], off[j - 1], seqs[j])
      BY <1>8, <3>1, <3>3, <3>5
    <3>7. QED
      BY <2>1, <3>4, <3>6
  <2>3. CASE k # 0
    <3> DEFINE sofar == h[k]
    <3>1. k \in 1 .. n /\ k + 1 # 1
      BY <1>1, <2>3
    <3>2. /\ sofar \in Seq(A) /\ \A j \in 1 .. k : Holds(sofar, off[j - 1], seqs[j])
          /\ \A j \in 0 .. k : off[j] \in Nat
      BY <1>11, <2>3
    <3>3. h[k + 1] = sofar \o last
      BY <1>7, <2>1, <3>1
    <3>4. off[k] = Len(sofar)
      BY <1>8, <3>1
    <3> HIDE DEF sofar
    <3>5. /\ h[k + 1] \in Seq(A) /\ Len(h[k + 1]) = Len(sofar) + Len(last)
          /\ Holds(h[k + 1], 0, sofar) /\ Holds(h[k + 1], Len(sofar), last)
      BY <2>1, <3>2, <3>3, HoldsHalves
    <3>6. ASSUME NEW j \in 1 .. k PROVE Holds(h[k + 1], off[j - 1], seqs[j])
      <4>1. off[j - 1] \in Nat /\ seqs[j] \in Seq(A) /\ 0 + off[j - 1] = off[j - 1]
        BY <1>1, <3>1, <3>2
      <4>2. Holds(h[k + 1], 0 + off[j - 1], seqs[j])
        <5>1. 0 \in Nat /\ Holds(sofar, off[j - 1], seqs[j])
          BY <3>2
        <5>2. QED
          BY <3>2, <3>5, <4>1, <5>1, HoldsPart
      <4>3. QED
        BY <4>1, <4>2
    <3>7. off[k + 1] = Len(h[k + 1]) /\ Len(h[k + 1]) \in Nat
      BY <1>8, <2>1, <3>5, LenProperties
    <3>8. off[k + 1] = off[(k + 1) - 1] + Len(seqs[k + 1])
      BY <2>1, <3>4, <3>5, <3>7
    <3>9. \A j \in 0 .. k + 1 : j = k + 1 \/ j \in 0 .. k
      OBVIOUS
    <3>10. \A j \in 0 .. k + 1 : off[j] \in Nat
      BY <3>2, <3>7, <3>9
    <3>11. \A j \in 1 .. k + 1 : (j = k + 1 /\ j - 1 = k) \/ j \in 1 .. k
      OBVIOUS
    <3>12. \A j \in 1 .. k + 1 : Holds(h[k + 1], off[j - 1], seqs[j])
      BY <3>4, <3>5, <3>6, <3>11
    <3>13. QED
      BY <2>1, <3>5, <3>8, <3>10, <3>12
  <2>4. QED
    BY <2>2, <2>3
<1> HIDE DEF S
<1>12. \A k \in 0 .. n : k \in S
  BY <1>1, <1>10, <1>11, IntervalInduction, Zenon
<1>13. ASSUME NEW k \in 1 .. n
       PROVE  /\ h[k] \in Seq(A) /\ off[k] = off[k - 1] + Len(seqs[k])
              /\ \A j \in 1 .. k : Holds(h[k], off[j - 1], seqs[j])
              /\ \A j \in 0 .. k : off[j] \in Nat
  <2>1. k \in S /\ k # 0
    BY <1>12
  <2>2. QED
    BY <2>1, Zenon DEF S
<1>14. CASE n = 0
  <2>1. FlattenSeq(seqs) = <<>> /\ Len(<<>>) = 0
    BY <1>2, <1>3, <1>14
  <2>2. off \in [0 .. n -> Nat]
    BY <1>8, <1>9, <1>14
  <2>3. Places(seqs, off, FlattenSeq(seqs))
    BY <1>8, <1>14, <2>1, <2>2 DEF Places, n
  <2>4. QED
    BY <2>1, <2>3
<1>15. CASE n # 0
  <2>1. n \in 1 .. n
    BY <1>1, <1>15
  <2>2. off \in [0 .. n -> Nat]
    BY <1>9, <1>13, <2>1
  <2>3. FlattenSeq(seqs) = h[n] /\ h[n] \in Seq(A)
    BY <1>2, <1>13, <1>15, <2>1
  <2>4. Len(h[n]) = off[n]
    BY <1>8, <2>1
  <2>5. \A k \in 1 .. n : off[k] = off[k - 1] + Len(seqs[k]) /\ Holds(h[n], off[k - 1], seqs[k])
    BY <1>13, <2>1
  <2>6. Places(seqs, off, FlattenSeq(seqs))
    BY <1>8, <2>2, <2>3, <2>4, <2>5 DEF Places, n
  <2>7. QED
    BY <2>3, <2>6
<1>16. QED
  BY <1>14, <1>15

----------------------------------------------------------------------------
(* Folds whose step does not look at the element.                          *)

\* What is left of a set of positions once the largest is taken out.
LEMMA WithoutMax ==
  ASSUME NEW n \in Nat, NEW d \in SUBSET (1 .. n), d # {}
  PROVE  /\ Cardinality(d) \in 1 .. n
         /\ Cardinality(d \ {Max(d)}) = Cardinality(d) - 1
         /\ d \ {Max(d)} \in SUBSET (1 .. n)
<1>1. IsFiniteSet(1 .. n) /\ Cardinality(1 .. n) = n
  BY FS_Interval
<1>2. IsFiniteSet(d) /\ Cardinality(d) <= n
  BY <1>1, FS_Subset
<1>3. Max(d) \in d
  BY MaxOfPositions
<1>4. Cardinality(d) \in Nat /\ Cardinality(d) # 0
  BY <1>2, FS_CardinalityType, FS_EmptySet
<1>5. Cardinality(d \ {Max(d)}) = Cardinality(d) - 1
  BY <1>2, <1>3, FS_RemoveElement
<1>6. d \ {Max(d)} \in SUBSET (1 .. n)
  OBVIOUS
<1>7. Cardinality(d) \in 1 .. n
  BY <1>2, <1>4
<1>8. QED
  BY <1>5, <1>6, <1>7

\* R[k] is the value of a fold over k positions: so it solves the recursion.
LEMMA IterateExists ==
  ASSUME NEW n \in Nat, NEW R
  PROVE  \E g : /\ g = [d \in SUBSET (1 .. n) |-> g[d]]
                /\ g[{}] = R[0]
                /\ \A d \in SUBSET (1 .. n) : d # {} =>
                     \E k \in 1 .. n : g[d \ {Max(d)}] = R[k - 1] /\ g[d] = R[k]
<1> DEFINE g == [d \in SUBSET (1 .. n) |-> R[Cardinality(d)]]
<1>1. g = [d \in SUBSET (1 .. n) |-> g[d]]
  OBVIOUS
<1>2. \A d \in SUBSET (1 .. n) : g[d] = R[Cardinality(d)]
  OBVIOUS
<1> HIDE DEF g
<1>3. g[{}] = R[0]
  <2>1. Cardinality({}) = 0 /\ {} \in SUBSET (1 .. n)
    BY FS_EmptySet
  <2>2. QED
    BY <1>2, <2>1
<1>4. ASSUME NEW d \in SUBSET (1 .. n), d # {}
      PROVE  \E k \in 1 .. n : g[d \ {Max(d)}] = R[k - 1] /\ g[d] = R[k]
  <2>1. /\ Cardinality(d) \in 1 .. n /\ Cardinality(d \ {Max(d)}) = Cardinality(d) - 1
        /\ d \ {Max(d)} \in SUBSET (1 .. n)
    BY <1>4, WithoutMax
  <2>2. g[d \ {Max(d)}] = R[Cardinality(d) - 1] /\ g[d] = R[Cardinality(d)]
    BY <1>2, <2>1
  <2>3. QED
    BY <2>1, <2>2
<1>5. QED
  BY <1>1, <1>3, <1>4

\* And what solves the recursion has that value.
LEMMA IterateRun ==
  ASSUME NEW n \in Nat, NEW R, NEW h, h[{}] = R[0],
         \A k \in 1 .. n : \A d \in SUBSET (1 .. n) :
           d # {} /\ h[d \ {Max(d)}] = R[k - 1] => h[d] = R[k]
  PROVE  h[1 .. n] = R[n]
<1> DEFINE S == {k \in 0 .. n : h[1 .. k] = R[k]}
<1>1. 0 \in S
  <2>1. 1 .. 0 = {}
    OBVIOUS
  <2>2. QED
    BY <2>1
<1>2. ASSUME NEW k \in 0 .. n - 1, k \in S PROVE k + 1 \in S
  <2>1. k + 1 \in Nat /\ k + 1 # 0 /\ (k + 1) - 1 = k /\ k + 1 \in 1 .. n
    OBVIOUS
  <2>2. Max(1 .. k + 1) = k + 1 /\ (1 .. k + 1) \ {k + 1} = 1 .. k
    BY <2>1, MaxOfInterval
  <2>3. 1 .. k + 1 \in SUBSET (1 .. n) /\ k + 1 \in 1 .. k + 1
    OBVIOUS
  <2>4. h[(1 .. k + 1) \ {Max(1 .. k + 1)}] = R[(k + 1) - 1]
    BY <1>2, <2>1, <2>2
  <2>5. h[1 .. k + 1] = R[k + 1]
    BY <2>1, <2>3, <2>4
  <2>6. QED
    BY <2>1, <2>5
<1> HIDE DEF S
<1>3. \A k \in 0 .. n : k \in S
  BY <1>1, <1>2, IntervalInduction, Zenon
<1>4. n \in S
  BY <1>3
<1>5. QED
  BY <1>4, Zenon DEF S

----------------------------------------------------------------------------
(* Cursors.  The file may be cut off after m cells; a cursor that would    *)
(* have come further has failed.                                           *)

Cut(data, m) == SubSeq(data, 1, m)

Reached(m, pos, read) ==
  IF pos <= m THEN [ok |-> TRUE, pos |-> pos, read |-> read] ELSE None

\* The cells of what is left.
LEMMA CutProperties ==
  ASSUME NEW data \in Seq(Nat), NEW m \in 0 .. Len(data)
  PROVE  /\ Cut(data, m) \in Seq(Nat) /\ Len(Cut(data, m)) = m
         /\ \A i \in 1 .. m : Cut(data, m)[i] = data[i]
<1>1. Len(data) \in Nat
  BY LenProperties
<1>2. /\ SubSeq(data, 1, m) \in Seq(Nat)
      /\ Len(SubSeq(data, 1, m)) = IF 1 <= m THEN m - 1 + 1 ELSE 0
      /\ \A i \in 1 .. m - 1 + 1 : SubSeq(data, 1, m)[i] = data[1 + i - 1]
  BY <1>1, SubSeqProperties
<1>3. QED
  BY <1>1, <1>2 DEF Cut

At(ok, pos, read) == [ok |-> ok, pos |-> pos, read |-> read]

\* One field of a record is replaced.
LEMMA ReadReplaced ==
  \A ok, pos, read, other : [At(ok, pos, read) EXCEPT !.read = other] = At(ok, pos, other)
BY DEF At

WithRead(cur, read) == [cur EXCEPT !.read = read]

\* The parts of a cursor.
LEMMA ReachedFields ==
  ASSUME NEW m \in Nat, NEW pos \in Nat, NEW read, pos <= m
  PROVE  /\ Reached(m, pos, read).ok /\ Reached(m, pos, read).pos = pos
         /\ Reached(m, pos, read).read = read
         /\ \A other : WithRead(Reached(m, pos, read), other) = Reached(m, pos, other)
<1> DEFINE r == Reached(m, pos, read)
           a == At(TRUE, pos, read)
<1>1. r = a /\ \A other : Reached(m, pos, other) = At(TRUE, pos, other)
  BY DEF Reached, At
<1>2. a.ok /\ a.pos = pos /\ a.read = read
  BY DEF At
<1>3. \A other : [a EXCEPT !.read = other] = At(TRUE, pos, other)
  BY ReadReplaced, Zenon
<1> HIDE DEF r, a
<1>4. \A other : WithRead(r, other) = Reached(m, pos, other)
  BY <1>1, <1>3, Zenon DEF WithRead
<1>5. r.ok /\ r.pos = pos /\ r.read = read
  BY <1>1, <1>2
<1>6. QED
  BY <1>4, <1>5 DEF r

\* And of one that would have come further.
LEMMA ReachedNone ==
  ASSUME NEW m \in Nat, NEW pos \in Nat, NEW read, ~(pos <= m)
  PROVE  Reached(m, pos, read) = None /\ ~None.ok
BY DEF Reached, None

\* The value read last, and the ones before it.
LEMMA AppendedLast ==
  ASSUME NEW V, NEW read \in Seq(V), NEW x
  PROVE  /\ Append(read, x) \in Seq(V \cup {x})
         /\ Last(Append(read, x)) = x /\ Front(Append(read, x)) = read
<1> DEFINE W == V \cup {x}
           a == Append(read, x)
<1>1. Len(read) \in Nat /\ DOMAIN read = 1 .. Len(read) /\ \A i \in 1 .. Len(read) : read[i] \in V
  BY LenProperties, ElementOfSeq
<1>2. read \in Seq(W) /\ x \in W
  <2>1. read = [i \in 1 .. Len(read) |-> read[i]]
    BY LenProperties
  <2>2. \A i \in 1 .. Len(read) : read[i] \in W
    BY <1>1
  <2> HIDE DEF W
  <2>3. read \in Seq(W)
    BY <1>1, <2>1, <2>2
  <2>4. QED
    BY <2>3 DEF W
<1> HIDE DEF W
<1>3. /\ a \in Seq(W) /\ Len(a) = Len(read) + 1 /\ a[Len(read) + 1] = x
      /\ \A i \in 1 .. Len(read) : a[i] = read[i]
  BY <1>2, AppendProperties
<1> HIDE DEF a
<1>4. Last(a) = x
  BY <1>3 DEF Last
<1>5. Front(a) = read
  <2> DEFINE f == SubSeq(a, 1, Len(a) - 1)
  <2>1. Len(a) - 1 = Len(read) /\ Len(a) \in Nat
    BY <1>1, <1>3
  <2>2. /\ f \in Seq(W) /\ Len(f) = Len(read)
        /\ \A i \in 1 .. Len(read) : f[i] = a[i]
    <3>1. /\ SubSeq(a, 1, Len(read)) \in Seq(W)
          /\ Len(SubSeq(a, 1, Len(read))) = IF 1 <= Len(read) THEN Len(read) - 1 + 1 ELSE 0
          /\ \A i \in 1 .. Len(read) - 1 + 1 : SubSeq(a, 1, Len(read))[i] = a[1 + i - 1]
      BY <1>1, <1>3, SubSeqProperties
    <3>2. QED
      BY <1>1, <2>1, <3>1
  <2>3. f = read
    <3> HIDE DEF f
    <3>1. \A i \in 1 .. Len(f) : f[i] = read[i]
      BY <1>3, <2>2
    <3>2. QED
      BY <1>2, <2>2, <3>1, SeqEqual
  <2>4. QED
    BY <2>3 DEF Front
<1>6. QED
  BY <1>3, <1>4, <1>5 DEF a, W

\* Cursor::take on a part of the file.
LEMMA TakePart ==
  ASSUME NEW data \in Seq(Nat), NEW m \in 0 .. Len(data), NEW pos \in Nat, NEW read,
         NEW part \in Seq(Nat), Holds(data, pos, part)
  PROVE  Take(Cut(data, m), Reached(m, pos, read), Len(part))
           = Reached(m, pos + Len(part), Append(read, part))
<1> DEFINE c == Cut(data, m)
           n == Len(part)
<1>1. c \in Seq(Nat) /\ Len(c) = m /\ \A i \in 1 .. m : c[i] = data[i]
  BY CutProperties
<1> HIDE DEF c
<1>2. n \in Nat /\ m \in Nat /\ Len(data) \in Nat
  BY LenProperties
<1>3. CASE ~(pos <= m)
  <2>1. ~Reached(m, pos, read).ok
    BY <1>2, <1>3, ReachedNone
  <2>2. ~(pos + n <= m) /\ pos + n \in Nat
    BY <1>2, <1>3
  <2>3. Reached(m, pos + n, Append(read, part)) = None
    BY <1>2, <2>2, ReachedNone
  <2>4. QED
    BY <2>1, <2>3 DEF Take
<1>4. CASE pos <= m
  <2>1. Reached(m, pos, read).ok /\ Reached(m, pos, read).pos = pos /\ Reached(m, pos, read).read = read
    BY <1>2, <1>4, ReachedFields
  <2>2. CASE ~(pos + n <= m)
    <3>1. pos + n > Len(c) /\ pos + n \in Nat
      BY <1>1, <1>2, <2>2
    <3>2. Take(c, Reached(m, pos, read), n) = None
      BY <2>1, <3>1 DEF Take
    <3>3. Reached(m, pos + n, Append(read, part)) = None
      BY <1>2, <2>2, <3>1, ReachedNone
    <3>4. QED
      BY <3>2, <3>3 DEF c
  <2>3. CASE pos + n <= m
    <3> DEFINE s == SubSeq(c, pos + 1, pos + n)
    <3>1. /\ s \in Seq(Nat) /\ Len(s) = n
          /\ \A i \in 1 .. n : s[i] = c[pos + i]
      <4>1. \A i \in pos + 1 .. pos + n : i \in 1 .. Len(c)
        BY <1>1, <1>2, <2>3
      <4>2. /\ s \in Seq(Nat)
            /\ Len(s) = IF pos + 1 <= pos + n THEN (pos + n) - (pos + 1) + 1 ELSE 0
            /\ \A i \in 1 .. (pos + n) - (pos + 1) + 1 : s[i] = c[(pos + 1) + i - 1]
        <5>1. pos + 1 \in Int /\ pos + n \in Int /\ \A i \in pos + 1 .. pos + n : c[i] \in Nat
          BY <1>1, <1>2, <4>1, ElementOfSeq
        <5> HIDE DEF n
        <5>2. QED
          BY <5>1, SubSeqProperties
      <4>3. /\ (pos + n) - (pos + 1) + 1 = n /\ (pos + 1 <= pos + n <=> n # 0)
            /\ \A i \in 1 .. n : (pos + 1) + i - 1 = pos + i
        BY <1>2
      <4> HIDE DEF s, n
      <4>4. Len(s) = n
        BY <4>2, <4>3
      <4>5. \A i \in 1 .. n : s[i] = c[pos + i]
        BY <4>2, <4>3
      <4>6. QED
        BY <4>2, <4>4, <4>5
    <3>2. \A i \in 1 .. n : s[i] = part[i]
      <4> HIDE DEF s
      <4>1. \A i \in 1 .. n : pos + i \in 1 .. m
        BY <1>2, <2>3
      <4>2. \A i \in 1 .. n : data[pos + i] = part[i]
        BY DEF Holds
      <4>3. QED
        BY <1>1, <3>1, <4>1, <4>2
    <3>3. s = part
      <4> HIDE DEF s
      <4>1. QED
        BY <3>1, <3>2, SeqEqual
    <3>4. ~(pos + n > Len(c))
      BY <1>1, <1>2, <2>3
    <3>5. Take(c, Reached(m, pos, read), n) = [ok |-> TRUE, pos |-> pos + n, read |-> Append(read, part)]
      BY <2>1, <3>3, <3>4 DEF Take
    <3>6. QED
      BY <2>3, <3>5 DEF Reached, c
  <2>4. QED
    BY <2>2, <2>3
<1>5. QED
  BY <1>3, <1>4 DEF c

----------------------------------------------------------------------------
(* Texts and QoS.                                                          *)

Text == Seq(Nat)

\* A number that fits is written as it is.
LEMMA FieldFits ==
  ASSUME NEW n \in Nat, n < FIELD
  PROVE  Field(n) = <<n>> /\ Field(n) \in Seq(Nat) /\ Len(Field(n)) = 1 /\ Field(n)[1] = n
<1>1. FIELD \in Nat \ {0}
  BY StateFileAssumption
<1>2. n % FIELD = n
  BY <1>1
<1>3. QED
  BY <1>2 DEF Field

\* What a text is written as.
LEMMA EncodeTextType ==
  ASSUME NEW t \in Text, FitsText(t)
  PROVE  EncodeText(t) \in Seq(Nat) /\ Len(EncodeText(t)) = 1 + Len(t)
<1>1. Field(Len(t)) \in Seq(Nat) /\ Len(Field(Len(t))) = 1
  <2>1. Len(t) \in Nat /\ Len(t) < FIELD
    BY LenProperties DEF Text, FitsText
  <2>2. QED
    BY <2>1, FieldFits
<1>2. QED
  BY <1>1, HoldsHalves DEF EncodeText, Text

\* The first field of an entry, read on its own: its value, and the cursor after it.
LEMMA TakeField ==
  ASSUME NEW data \in Seq(Nat), NEW m \in 0 .. Len(data), NEW pos \in Nat,
         NEW V, NEW read \in Seq(V), NEW n \in Nat, Holds(data, pos, <<n>>)
  PROVE  /\ Take(Cut(data, m), Reached(m, pos, read), 1) = Reached(m, pos + 1, Append(read, <<n>>))
         /\ pos + 1 <= m =>
              /\ Value(Reached(m, pos + 1, Append(read, <<n>>))) = n
              /\ Without(Reached(m, pos + 1, Append(read, <<n>>))) = Reached(m, pos + 1, read)
<1>1. <<n>> \in Seq(Nat) /\ Len(<<n>>) = 1 /\ <<n>>[1] = n
  OBVIOUS
<1> DEFINE part == <<n>>
           more == Append(read, part)
<1>2. Take(Cut(data, m), Reached(m, pos, read), Len(part)) = Reached(m, pos + Len(part), more)
  <2> HIDE DEF part
  <2>1. part \in Seq(Nat) /\ Holds(data, pos, part)
    BY <1>1 DEF part
  <2>2. QED
    BY <2>1, TakePart
<1>3. Last(more) = part /\ Front(more) = read
  <2> HIDE DEF part
  <2>1. QED
    BY AppendedLast
<1>4. ASSUME pos + 1 <= m
      PROVE  Value(Reached(m, pos + 1, more)) = n /\ Without(Reached(m, pos + 1, more)) = Reached(m, pos + 1, read)
  <2> HIDE DEF more
  <2>1. m \in Nat /\ pos + 1 \in Nat
    BY LenProperties
  <2>2. /\ Reached(m, pos + 1, more).read = more
        /\ \A other : WithRead(Reached(m, pos + 1, more), other) = Reached(m, pos + 1, other)
    BY <1>4, <2>1, ReachedFields
  <2>3. QED
    BY <1>1, <1>3, <2>2 DEF Value, Without, WithRead
<1>5. QED
  BY <1>1, <1>2, <1>4

\* read_str, on a text that was written with its length.
LEMMA TakeTextReads ==
  ASSUME NEW data \in Seq(Nat), NEW m \in 0 .. Len(data), NEW pos \in Nat,
         NEW V, NEW read \in Seq(V), NEW t \in Text, FitsText(t),
         Holds(data, pos, EncodeText(t))
  PROVE  TakeText(Cut(data, m), Reached(m, pos, read))
           = Reached(m, pos + Len(EncodeText(t)), Append(read, t))
<1> DEFINE n == Len(t)
           c == Cut(data, m)
           len == Take(c, Reached(m, pos, read), 1)
<1>1. n \in Nat /\ n < FIELD /\ t \in Seq(Nat) /\ m \in Nat /\ pos + 1 \in Nat
  BY LenProperties DEF Text, FitsText
<1>2. Len(EncodeText(t)) = 1 + n
  BY EncodeTextType
<1>3. Holds(data, pos, <<n>>) /\ Holds(data, pos + 1, t)
  <2>1. Field(n) = <<n>> /\ Field(n) \in Seq(Nat) /\ Len(Field(n)) = 1
    BY <1>1, FieldFits
  <2>2. Holds(data, pos, Field(n) \o t)
    BY DEF EncodeText
  <2>3. Holds(data, pos, Field(n)) /\ Holds(data, pos + Len(Field(n)), t)
    <3> DEFINE f == Field(n)
    <3>1. f \in Seq(Nat) /\ Holds(data, pos, f \o t)
      BY <2>1, <2>2
    <3> HIDE DEF f
    <3>2. Holds(data, pos, f) /\ Holds(data, pos + Len(f), t)
      BY <1>1, <3>1, HoldsBoth
    <3>3. QED
      BY <3>2 DEF f
  <2>4. QED
    BY <2>1, <2>3
<1> HIDE DEF n
<1>4. /\ len = Reached(m, pos + 1, Append(read, <<n>>))
      /\ pos + 1 <= m => Value(len) = n /\ Without(len) = Reached(m, pos + 1, read)
  BY <1>1, <1>3, TakeField
<1>5. TakeText(c, Reached(m, pos, read)) = IF len.ok THEN Take(c, Without(len), Value(len)) ELSE None
  BY DEF TakeText
<1> HIDE DEF len
<1>6. Take(c, Reached(m, pos + 1, read), n) = Reached(m, pos + 1 + n, Append(read, t))
  BY <1>1, <1>3, TakePart DEF n
<1> HIDE DEF c
<1>7. CASE pos + 1 <= m
  <2>1. len.ok
    BY <1>1, <1>4, <1>7, ReachedFields
  <2>2. pos + (1 + n) = pos + 1 + n
    BY <1>1
  <2>3. QED
    BY <1>2, <1>4, <1>5, <1>6, <1>7, <2>1, <2>2 DEF c
<1>8. CASE ~(pos + 1 <= m)
  <2>1. ~len.ok
    BY <1>1, <1>4, <1>8, ReachedNone
  <2>2. ~(pos + (1 + n) <= m) /\ pos + (1 + n) \in Nat
    BY <1>1, <1>8
  <2>3. Reached(m, pos + (1 + n), Append(read, t)) = None
    BY <1>1, <2>2, ReachedNone
  <2>4. QED
    BY <1>2, <1>5, <2>1, <2>3 DEF c
<1>9. QED
  BY <1>7, <1>8

\* read_u8 and the check of the QoS.
LEMMA TakeQosReads ==
  ASSUME NEW data \in Seq(Nat), NEW m \in 0 .. Len(data), NEW pos \in Nat,
         NEW V, NEW read \in Seq(V), NEW q \in 0 .. 2, Holds(data, pos, <<q>>)
  PROVE  TakeQos(Cut(data, m), Reached(m, pos, read)) = Reached(m, pos + 1, Append(read, q))
<1> DEFINE c == Cut(data, m)
           more == Append(read, <<q>>)
           qos == Take(c, Reached(m, pos, read), 1)
<1>1. q \in Nat /\ q <= 2 /\ m \in Nat /\ pos + 1 \in Nat
  BY LenProperties
<1>2. /\ qos = Reached(m, pos + 1, more)
      /\ pos + 1 <= m => Value(qos) = q
  BY <1>1, TakeField
<1>3. TakeQos(c, Reached(m, pos, read)) =
        IF qos.ok /\ Value(qos) <= 2
        THEN WithRead(qos, Append(Front(qos.read), Value(qos))) ELSE None
  BY DEF TakeQos, WithRead
<1>4. Front(more) = read
  BY AppendedLast
<1> HIDE DEF qos, more
<1>5. CASE pos + 1 <= m
  <2>1. /\ qos.ok /\ qos.read = more
        /\ \A other : WithRead(qos, other) = Reached(m, pos + 1, other)
    BY <1>1, <1>2, <1>5, ReachedFields
  <2>2. QED
    BY <1>1, <1>2, <1>3, <1>4, <1>5, <2>1
<1>6. CASE ~(pos + 1 <= m)
  <2>1. ~qos.ok
    BY <1>1, <1>2, <1>6, ReachedNone
  <2>2. Reached(m, pos + 1, Append(read, q)) = None
    BY <1>1, <1>6, ReachedNone
  <2>3. QED
    BY <1>3, <2>1, <2>2
<1>7. QED
  BY <1>5, <1>6

----------------------------------------------------------------------------
(* Entries.                                                                *)

MessageOf == Text \X Text \X (0 .. 2)
SubOf == Text \X (0 .. 2)

FitsMessage(e) == FitsText(e[1]) /\ FitsText(e[2])
FitsSub(e) == FitsText(e[1])

\* The parts of a message, and what it is written as.
LEMMA EncodeMessageType ==
  ASSUME NEW e \in MessageOf, FitsMessage(e)
  PROVE  /\ EncodeMessage(e) \in Seq(Nat)
         /\ Len(EncodeMessage(e)) = Len(EncodeText(e[1])) + Len(EncodeText(e[2])) + 1
<1>1. e[1] \in Text /\ e[2] \in Text /\ e[3] \in Nat
  BY DEF MessageOf
<1>2. EncodeText(e[1]) \in Seq(Nat) /\ EncodeText(e[2]) \in Seq(Nat)
  BY <1>1, EncodeTextType DEF FitsMessage
<1> DEFINE a == EncodeText(e[1])
           b == EncodeText(e[2])
           q == <<e[3]>>
<1>3. q \in Seq(Nat) /\ Len(q) = 1
  BY <1>1
<1> HIDE DEF a, b, q
<1>4. a \o b \in Seq(Nat) /\ Len(a \o b) = Len(a) + Len(b)
  BY <1>2, HoldsHalves DEF a, b
<1>5. (a \o b) \o q \in Seq(Nat) /\ Len((a \o b) \o q) = Len(a \o b) + Len(q)
  BY <1>3, <1>4, HoldsHalves
<1>6. EncodeMessage(e) = (a \o b) \o q
  BY DEF EncodeMessage, a, b, q
<1>7. QED
  BY <1>3, <1>4, <1>5, <1>6 DEF a, b

\* What a subscription is written as.
LEMMA EncodeSubType ==
  ASSUME NEW e \in SubOf, FitsSub(e)
  PROVE  /\ EncodeSub(e) \in Seq(Nat)
         /\ Len(EncodeSub(e)) = Len(EncodeText(e[1])) + 1
<1>1. e[1] \in Text /\ e[2] \in Nat /\ FitsText(e[1])
  BY DEF SubOf, FitsSub
<1> DEFINE a == EncodeText(e[1])
           q == <<e[2]>>
<1>2. a \in Seq(Nat) /\ q \in Seq(Nat) /\ Len(q) = 1
  BY <1>1, EncodeTextType
<1> HIDE DEF a, q
<1>3. a \o q \in Seq(Nat) /\ Len(a \o q) = Len(a) + Len(q)
  BY <1>2, HoldsHalves
<1>4. EncodeSub(e) = a \o q
  BY DEF EncodeSub, a, q
<1>5. QED
  BY <1>2, <1>3, <1>4 DEF a

\* A message that was written is read back.
LEMMA TakeMessageReads ==
  ASSUME NEW data \in Seq(Nat), NEW m \in 0 .. Len(data), NEW pos \in Nat,
         NEW e \in MessageOf, FitsMessage(e), Holds(data, pos, EncodeMessage(e))
  PROVE  TakeMessage(Cut(data, m), Reached(m, pos, <<>>)) = Reached(m, pos + Len(EncodeMessage(e)), e)
<1> DEFINE a == EncodeText(e[1])
           b == EncodeText(e[2])
           q == <<e[3]>>
           c == Cut(data, m)
           p1 == pos + Len(a)
           p2 == pos + (Len(a) + Len(b))
           r0 == <<>>
           r1 == Append(r0, e[1])
           r2 == Append(r1, e[2])
           r3 == Append(r2, e[3])
<1>1. /\ e[1] \in Text /\ e[2] \in Text /\ e[3] \in 0 .. 2 /\ FitsText(e[1]) /\ FitsText(e[2])
      /\ e = <<e[1], e[2], e[3]>>
  BY DEF MessageOf, FitsMessage
<1>2. /\ a \in Seq(Nat) /\ b \in Seq(Nat) /\ q \in Seq(Nat) /\ Len(q) = 1
      /\ Len(a) \in Nat /\ Len(b) \in Nat
  BY <1>1, EncodeTextType, LenProperties
<1>3. Len(EncodeMessage(e)) = Len(a) + Len(b) + 1
  BY EncodeMessageType
<1>4. p1 \in Nat /\ p2 \in Nat /\ p1 + Len(b) = p2 /\ p2 + 1 = pos + (Len(a) + Len(b) + 1)
  BY <1>2
<1>5. Holds(data, pos, (a \o b) \o q)
  BY DEF EncodeMessage
<1>6. r3 = e
  BY <1>1
<1>7. r0 \in Seq({})
  OBVIOUS
<1>8. r1 \in Seq({} \cup {e[1]})
  <2> HIDE DEF r0
  <2>1. QED
    BY <1>7, AppendedLast
<1>9. r2 \in Seq(({} \cup {e[1]}) \cup {e[2]})
  <2> HIDE DEF r1
  <2>1. QED
    BY <1>8, AppendedLast
<1>10. TakeMessage(c, Reached(m, pos, r0)) = TakeQos(c, TakeText(c, TakeText(c, Reached(m, pos, r0))))
  BY DEF TakeMessage
<1> HIDE DEF a, b, q
<1>11. Holds(data, pos, a) /\ Holds(data, p1, b) /\ Holds(data, p2, q)
  <2> DEFINE ab == a \o b
  <2>1. ab \in Seq(Nat) /\ Len(ab) = Len(a) + Len(b) /\ Holds(data, pos, ab \o q)
    BY <1>2, <1>5, HoldsHalves
  <2> HIDE DEF ab
  <2>2. Holds(data, pos, ab) /\ Holds(data, pos + Len(ab), q)
    BY <1>2, <2>1, HoldsBoth
  <2>3. Holds(data, pos, a) /\ Holds(data, pos + Len(a), b)
    BY <1>2, <2>2, HoldsBoth DEF ab
  <2>4. QED
    BY <2>1, <2>2, <2>3
<1> HIDE DEF r0, r1, r2, r3, p1, p2
<1>12. TakeText(c, Reached(m, pos, r0)) = Reached(m, p1, r1)
  <2>1. TakeText(c, Reached(m, pos, r0)) = Reached(m, pos + Len(EncodeText(e[1])), Append(r0, e[1]))
    BY <1>1, <1>7, <1>11, TakeTextReads DEF a
  <2>2. QED
    BY <2>1 DEF a, p1, r1
<1>13. TakeText(c, Reached(m, p1, r1)) = Reached(m, p2, r2)
  <2>1. TakeText(c, Reached(m, p1, r1)) = Reached(m, p1 + Len(EncodeText(e[2])), Append(r1, e[2]))
    <3> DEFINE id == e[2]
    <3>1. /\ id \in Text /\ FitsText(id) /\ Holds(data, p1, EncodeText(id))
          /\ r1 \in Seq({} \cup {e[1]}) /\ p1 \in Nat
      BY <1>1, <1>4, <1>8, <1>11 DEF b
    <3> HIDE DEF id
    <3>2. TakeText(c, Reached(m, p1, r1)) = Reached(m, p1 + Len(EncodeText(id)), Append(r1, id))
      BY <3>1, TakeTextReads
    <3>3. QED
      BY <3>2 DEF id
  <2>2. QED
    BY <1>4, <2>1 DEF b, r2
<1>14. TakeQos(c, Reached(m, p2, r2)) = Reached(m, p2 + 1, r3)
  <2> DEFINE x == e[3]
  <2>1. x \in 0 .. 2 /\ p2 \in Nat /\ Holds(data, p2, <<x>>)
    BY <1>1, <1>4, <1>11 DEF q
  <2> DEFINE R == ({} \cup {e[1]}) \cup {e[2]}
  <2>2. r2 \in Seq(R)
    BY <1>9
  <2> HIDE DEF x, R
  <2>3. TakeQos(c, Reached(m, p2, r2)) = Reached(m, p2 + 1, Append(r2, x))
    BY <2>1, <2>2, TakeQosReads
  <2>4. QED
    BY <2>3 DEF x, r3
<1>15. TakeMessage(c, Reached(m, pos, r0)) = Reached(m, pos + Len(EncodeMessage(e)), e)
  BY <1>3, <1>4, <1>6, <1>10, <1>12, <1>13, <1>14
<1>16. QED
  BY <1>15 DEF r0

\* A subscription that was written is read back.
LEMMA TakeSubReads ==
  ASSUME NEW data \in Seq(Nat), NEW m \in 0 .. Len(data), NEW pos \in Nat,
         NEW e \in SubOf, FitsSub(e), Holds(data, pos, EncodeSub(e))
  PROVE  TakeSub(Cut(data, m), Reached(m, pos, <<>>)) = Reached(m, pos + Len(EncodeSub(e)), e)
<1> DEFINE a == EncodeText(e[1])
           q == <<e[2]>>
           c == Cut(data, m)
           p1 == pos + Len(a)
           r0 == <<>>
           r1 == Append(r0, e[1])
           r2 == Append(r1, e[2])
<1>1. e[1] \in Text /\ e[2] \in 0 .. 2 /\ e = <<e[1], e[2]>> /\ FitsText(e[1])
  BY DEF SubOf, FitsSub
<1>2. a \in Seq(Nat) /\ q \in Seq(Nat) /\ Len(q) = 1 /\ Len(a) \in Nat
  BY <1>1, EncodeTextType, LenProperties
<1>3. Len(EncodeSub(e)) = Len(a) + 1
  BY EncodeSubType
<1>4. p1 \in Nat /\ p1 + 1 = pos + (Len(a) + 1)
  BY <1>2
<1>5. Holds(data, pos, a \o q)
  BY DEF EncodeSub
<1>6. r2 = e
  BY <1>1
<1>7. r0 \in Seq({})
  OBVIOUS
<1>8. r1 \in Seq({} \cup {e[1]})
  <2> HIDE DEF r0
  <2>1. QED
    BY <1>7, AppendedLast
<1>9. TakeSub(c, Reached(m, pos, r0)) = TakeQos(c, TakeText(c, Reached(m, pos, r0)))
  BY DEF TakeSub
<1> HIDE DEF a, q
<1>10. Holds(data, pos, a) /\ Holds(data, p1, q)
  BY <1>2, <1>5, HoldsBoth
<1> HIDE DEF r0, r1, r2, p1
<1>11. TakeText(c, Reached(m, pos, r0)) = Reached(m, p1, r1)
  <2> DEFINE id == e[1]
  <2>1. id \in Text /\ FitsText(id) /\ Holds(data, pos, EncodeText(id))
    BY <1>1, <1>10 DEF a
  <2> HIDE DEF id
  <2>2. TakeText(c, Reached(m, pos, r0)) = Reached(m, pos + Len(EncodeText(id)), Append(r0, id))
    BY <1>7, <2>1, TakeTextReads
  <2>3. QED
    BY <2>2 DEF id, a, p1, r1
<1>12. TakeQos(c, Reached(m, p1, r1)) = Reached(m, p1 + 1, r2)
  <2> DEFINE x == e[2]
  <2>1. x \in 0 .. 2 /\ p1 \in Nat /\ Holds(data, p1, <<x>>)
    BY <1>1, <1>4, <1>10 DEF q
  <2> HIDE DEF x
  <2>2. TakeQos(c, Reached(m, p1, r1)) = Reached(m, p1 + 1, Append(r1, x))
    BY <1>8, <2>1, TakeQosReads
  <2>3. QED
    BY <2>2 DEF x, r2
<1>13. TakeSub(c, Reached(m, pos, r0)) = Reached(m, pos + Len(EncodeSub(e)), e)
  BY <1>3, <1>4, <1>6, <1>9, <1>11, <1>12
<1>14. QED
  BY <1>13 DEF r0

----------------------------------------------------------------------------
(* Lists: a count, and so many entries.                                    *)

\* A list of n entries stands in data after pos cells, the k-th written as
\* codes[k]: at[k] cells are before what follows it.
Laid(data, pos, n, codes, at) ==
  /\ at \in [0 .. n -> Nat] /\ at[0] = pos + 1
  /\ Holds(data, pos, <<n>>)
  /\ \A k \in 1 .. n : at[k - 1] + Len(codes[k]) = at[k] /\ Holds(data, at[k - 1], codes[k])

\* The list ends at to.
LaidTo(data, pos, n, codes, to) == \E at : Laid(data, pos, n, codes, at) /\ at[n] = to

\* What a list is written as.
ListCode(n, codes) == Field(n) \o FlattenSeq(codes)

\* Where the count and the entries of a list stand.
LEMMA ListPlaces ==
  ASSUME NEW n \in Nat, n < FIELD, NEW codes \in [1 .. n -> Seq(Nat)],
         NEW data \in Seq(Nat), NEW pos \in Nat
  PROVE  /\ ListCode(n, codes) \in Seq(Nat) /\ Len(ListCode(n, codes)) >= 1
         /\ Holds(data, pos, ListCode(n, codes)) =>
              LaidTo(data, pos, n, codes, pos + Len(ListCode(n, codes)))
<1> DEFINE flat == FlattenSeq(codes)
           f == Field(n)
           list == f \o flat
<1>1. codes \in Seq(Seq(Nat)) /\ Len(codes) = n
  OBVIOUS
<1>2. flat \in Seq(Nat) /\ \E off : Places(codes, off, flat)
  BY <1>1, FlattenPlaces
<1>3. f \in Seq(Nat) /\ Len(f) = 1 /\ f = <<n>>
  BY FieldFits
<1> HIDE DEF flat, f
<1>4. list \in Seq(Nat) /\ Len(list) = 1 + Len(flat) /\ Len(list) >= 1
  BY <1>2, <1>3, HoldsHalves, LenProperties
<1>5. PICK off : Places(codes, off, flat)
  BY <1>2
<1>6. /\ off \in [0 .. n -> Nat] /\ off[0] = 0 /\ Len(flat) = off[n]
      /\ \A k \in 1 .. n : off[k] = off[k - 1] + Len(codes[k]) /\ Holds(flat, off[k - 1], codes[k])
  BY <1>1, <1>5 DEF Places
<1> DEFINE at == [k \in 0 .. n |-> pos + 1 + off[k]]
<1>7. at \in [0 .. n -> Nat] /\ at[0] = pos + 1 /\ \A k \in 0 .. n : at[k] = pos + 1 + off[k]
  BY <1>6
<1> HIDE DEF at
<1>8. ASSUME NEW k \in 1 .. n
      PROVE  /\ off[k - 1] \in Nat /\ codes[k] \in Seq(Nat) /\ Holds(flat, off[k - 1], codes[k])
             /\ at[k - 1] = pos + 1 + off[k - 1] /\ at[k - 1] + Len(codes[k]) = at[k]
  <2> DEFINE a == off[k - 1]
             b == off[k]
             l == Len(codes[k])
  <2>1. k - 1 \in 0 .. n /\ k \in 0 .. n /\ codes[k] \in Seq(Nat)
    OBVIOUS
  <2>2. a \in Nat /\ b = a + l /\ l \in Nat /\ Holds(flat, a, codes[k])
    BY <1>6, <2>1, LenProperties
  <2>3. at[k - 1] = pos + 1 + a /\ at[k] = pos + 1 + b
    BY <1>7, <2>1
  <2> HIDE DEF a, b, l
  <2>4. at[k - 1] + l = at[k]
    BY <2>2, <2>3
  <2>5. QED
    BY <2>1, <2>2, <2>3, <2>4 DEF a, l
<1>9. ASSUME Holds(data, pos, list) PROVE Laid(data, pos, n, codes, at)
  <2>1. Holds(data, pos, f) /\ Holds(data, pos + Len(f), flat)
    BY <1>2, <1>3, <1>9, HoldsBoth
  <2>2. pos + 1 \in Nat /\ Holds(data, pos + 1, flat)
    BY <1>3, <2>1
  <2>3. ASSUME NEW k \in 1 .. n PROVE Holds(data, at[k - 1], codes[k])
    <3>1. Holds(data, pos + 1 + off[k - 1], codes[k])
      BY <1>2, <1>8, <2>2, HoldsPart
    <3>2. QED
      BY <1>8, <3>1
  <2>4. \A k \in 1 .. n : at[k - 1] + Len(codes[k]) = at[k]
    BY <1>8
  <2>5. QED
    BY <1>3, <1>7, <2>1, <2>3, <2>4 DEF Laid
<1> HIDE DEF list
<1>10. at[n] = pos + Len(list)
  <2> DEFINE last == off[n]
  <2>1. n \in 0 .. n /\ last \in Nat
    BY <1>6
  <2>2. at[n] = pos + 1 + last /\ Len(list) = 1 + last
    BY <1>4, <1>6, <1>7, <2>1
  <2> HIDE DEF last
  <2>3. QED
    BY <2>1, <2>2
<1>11. list = ListCode(n, codes)
  BY DEF ListCode, list, f, flat
<1>12. Holds(data, pos, list) => LaidTo(data, pos, n, codes, pos + Len(list))
  BY <1>9, <1>10, Zenon DEF LaidTo
<1>13. QED
  BY <1>4, <1>11, <1>12

\* The lists of messages of the file.
EncodeMessages(es) == EncodeAll(es, EncodeMessage)
TakeMessages(data, cur) == TakeAll(data, cur, TakeMessage)

\* The first k entries of a list.
LEMMA Beginnings ==
  ASSUME NEW E, NEW es \in Seq(E)
  PROVE  /\ SubSeq(es, 1, 0) = <<>> /\ SubSeq(es, 1, Len(es)) = es
         /\ \A k \in 1 .. Len(es) : SubSeq(es, 1, k) = Append(SubSeq(es, 1, k - 1), es[k])
<1> DEFINE n == Len(es)
<1>1. n \in Nat /\ \A i \in 1 .. n : es[i] \in E
  BY LenProperties, ElementOfSeq
<1>2. ASSUME NEW k \in 0 .. n
      PROVE  /\ SubSeq(es, 1, k) \in Seq(E) /\ Len(SubSeq(es, 1, k)) = k
             /\ \A i \in 1 .. k : SubSeq(es, 1, k)[i] = es[i]
  <2>1. \A i \in 1 .. k : es[i] \in E
    BY <1>1
  <2>2. /\ SubSeq(es, 1, k) \in Seq(E)
        /\ Len(SubSeq(es, 1, k)) = IF 1 <= k THEN k - 1 + 1 ELSE 0
        /\ \A i \in 1 .. k - 1 + 1 : SubSeq(es, 1, k)[i] = es[1 + i - 1]
    BY <1>1, <2>1, SubSeqProperties
  <2>3. QED
    BY <1>1, <2>2
<1> HIDE DEF n
<1>3. SubSeq(es, 1, 0) = <<>>
  BY SubSeqEmpty
<1>4. SubSeq(es, 1, n) = es
  <2> DEFINE s == SubSeq(es, 1, n)
  <2>1. s \in Seq(E) /\ Len(s) = n /\ \A i \in 1 .. n : s[i] = es[i]
    BY <1>1, <1>2
  <2> HIDE DEF s
  <2>2. s = es
    BY <2>1, SeqEqual DEF n
  <2>3. QED
    BY <2>2 DEF s
<1>5. ASSUME NEW k \in 1 .. n PROVE SubSeq(es, 1, k) = Append(SubSeq(es, 1, k - 1), es[k])
  <2> DEFINE s == SubSeq(es, 1, k)
             r == SubSeq(es, 1, k - 1)
             a == Append(r, es[k])
  <2>1. k \in 0 .. n /\ k - 1 \in 0 .. n /\ es[k] \in E /\ (k - 1) + 1 = k
    BY <1>1
  <2>2. s \in Seq(E) /\ Len(s) = k /\ \A i \in 1 .. k : s[i] = es[i]
    BY <1>2, <2>1
  <2>3. r \in Seq(E) /\ Len(r) = k - 1 /\ \A i \in 1 .. k - 1 : r[i] = es[i]
    BY <1>2, <2>1
  <2> HIDE DEF s, r
  <2>4. /\ a \in Seq(E) /\ Len(a) = k /\ a[k] = es[k]
        /\ \A i \in 1 .. k - 1 : a[i] = r[i]
    BY <2>1, <2>3, AppendProperties
  <2> HIDE DEF a
  <2>5. \A i \in 1 .. k : i = k \/ i \in 1 .. k - 1
    BY <1>1
  <2>6. \A i \in 1 .. k : a[i] = s[i]
    BY <2>2, <2>3, <2>4, <2>5
  <2>7. a = s
    BY <2>2, <2>4, <2>6, SeqEqual
  <2>8. QED
    BY <2>7 DEF a, s, r
<1>6. QED
  BY <1>3, <1>4, <1>5 DEF n

\* The cursors of the loop over a list: the entries read so far.
ListCursor(m, at, es) == [k \in 0 .. Len(es) |-> Reached(m, at[k], SubSeq(es, 1, k))]

\* What a round of the loop makes of the cursor and of the entry taken.
Round(all, taken) ==
  LET e == IF all.ok THEN taken ELSE None
  IN  IF e.ok THEN WithRead(e, Append(all.read, e.read)) ELSE None

\* What is left of the cursor when the loop ends.
Closed(all, read) == IF ~all.ok THEN None ELSE WithRead(all, Append(read, all.read))

\* Round k of a loop whose cursors are R: what the reader is handed, and that the
\* round comes to the next cursor when the reader takes e, which ends at to.
Advances(R, k, m, from, to, e) ==
  /\ R[k - 1].ok => WithRead(R[k - 1], <<>>) = Reached(m, from, <<>>)
  /\ \A taken : (R[k - 1].ok => taken = Reached(m, to, e)) => Round(R[k - 1], taken) = R[k]

\* Each round of the loop reads the entry that stands there.
LEMMA ListRound ==
  ASSUME NEW E, NEW es \in Seq(E), NEW n, n = Len(es), NEW m \in Nat,
         NEW at \in [0 .. n -> Nat], NEW k \in 1 .. n, at[k - 1] <= at[k]
  PROVE  Advances(ListCursor(m, at, es), k, m, at[k - 1], at[k], es[k])
<1> DEFINE from == at[k - 1]
           to == at[k]
           done == SubSeq(es, 1, k - 1)
           more == SubSeq(es, 1, k)
           all == ListCursor(m, at, es)[k - 1]
           next == ListCursor(m, at, es)[k]
<1>1. n \in Nat /\ k - 1 \in 0 .. n /\ k \in 0 .. n
  BY LenProperties
<1>2. from \in Nat /\ to \in Nat /\ from <= to
  BY <1>1
<1>3. all = Reached(m, from, done) /\ next = Reached(m, to, more)
  BY <1>1 DEF ListCursor
<1>4. more = Append(done, es[k])
  BY Beginnings
<1> HIDE DEF from, to, done, more, all, next
<1>5. all.ok => WithRead(all, <<>>) = Reached(m, from, <<>>)
  <2>1. CASE from <= m
    BY <1>2, <1>3, <2>1, ReachedFields
  <2>2. CASE ~(from <= m)
    BY <1>2, <1>3, <2>2, ReachedNone
  <2>3. QED
    BY <2>1, <2>2
<1>6. ASSUME NEW taken, all.ok => taken = Reached(m, to, es[k])
      PROVE  Round(all, taken) = next
  <2> DEFINE e == IF all.ok THEN taken ELSE None
  <2>1. Round(all, taken) = IF e.ok THEN WithRead(e, Append(all.read, e.read)) ELSE None
    BY DEF Round
  <2>2. CASE to <= m
    <3>1. from <= m /\ m \in Nat
      BY <1>2, <2>2
    <3>2. all.ok /\ all.read = done
      BY <1>2, <1>3, <3>1, ReachedFields
    <3>3. e = Reached(m, to, es[k])
      BY <1>6, <3>2
    <3> HIDE DEF e
    <3>4. e.ok /\ e.read = es[k] /\ \A other : WithRead(e, other) = Reached(m, to, other)
      BY <1>2, <2>2, <3>3, ReachedFields
    <3>5. QED
      BY <1>3, <1>4, <2>1, <3>2, <3>4
  <2>3. CASE ~(to <= m)
    <3>1. Reached(m, to, es[k]) = None /\ Reached(m, to, more) = None /\ ~None.ok
      BY <1>2, <2>3, ReachedNone
    <3>2. ~e.ok
      BY <1>6, <3>1
    <3> HIDE DEF e
    <3>3. QED
      BY <1>3, <2>1, <3>1, <3>2
  <2>4. QED
    BY <2>2, <2>3
<1>7. QED
  BY <1>5, <1>6, Zenon DEF Advances, all, next, from, to

\* The last cursor is that of the whole list.
LEMMA ListClosed ==
  ASSUME NEW E, NEW es \in Seq(E), NEW n, n = Len(es), NEW m \in Nat, NEW at \in [0 .. n -> Nat],
         NEW read
  PROVE  Closed(ListCursor(m, at, es)[n], read) = Reached(m, at[n], Append(read, es))
<1> DEFINE to == at[n]
           all == ListCursor(m, at, es)[n]
<1>1. n \in Nat /\ n \in 0 .. n /\ to \in Nat
  BY LenProperties
<1>2. all = Reached(m, to, es)
  <2>1. SubSeq(es, 1, n) = es
    BY Beginnings
  <2>2. QED
    BY <1>1, <2>1 DEF ListCursor
<1> HIDE DEF to, all
<1>3. CASE to <= m
  <2>1. all.ok /\ all.read = es /\ \A other : WithRead(all, other) = Reached(m, to, other)
    BY <1>1, <1>2, <1>3, ReachedFields
  <2>2. QED
    BY <2>1 DEF to, all, Closed
<1>4. CASE ~(to <= m)
  <2>1. ~all.ok /\ Reached(m, to, Append(read, es)) = None
    BY <1>1, <1>2, <1>4, ReachedNone
  <2>2. QED
    BY <2>1 DEF to, all, Closed
<1>5. QED
  BY <1>3, <1>4

\* Before the first entry nothing has been read.
LEMMA ListOpened ==
  ASSUME NEW E, NEW es \in Seq(E), NEW m, NEW at
  PROVE  ListCursor(m, at, es)[0] = Reached(m, at[0], <<>>)
<1>1. Len(es) \in Nat /\ SubSeq(es, 1, 0) = <<>>
  BY LenProperties, Beginnings
<1>2. 0 \in 0 .. Len(es)
  BY <1>1
<1>3. QED
  BY <1>1, <1>2 DEF ListCursor

\* A list of messages that was written is read back.
LEMMA TakeMessagesReads ==
  ASSUME NEW data \in Seq(Nat), NEW m \in 0 .. Len(data), NEW pos \in Nat, NEW V, NEW read \in Seq(V),
         NEW es \in Seq(MessageOf), Len(es) < FIELD, \A i \in DOMAIN es : FitsMessage(es[i])
  PROVE  /\ EncodeMessages(es) \in Seq(Nat)
         /\ Holds(data, pos, EncodeMessages(es)) =>
              TakeMessages(Cut(data, m), Reached(m, pos, read))
                = Reached(m, pos + Len(EncodeMessages(es)), Append(read, es))
<1> DEFINE n == Len(es)
           codes == [i \in DOMAIN es |-> EncodeMessage(es[i])]
           list == EncodeMessages(es)
           c == Cut(data, m)
<1>1. /\ n \in Nat /\ DOMAIN es = 1 .. n /\ m \in Nat /\ pos + 1 \in Nat /\ n < FIELD
      /\ \A i \in 1 .. n : es[i] \in MessageOf /\ FitsMessage(es[i])
  BY LenProperties, ElementOfSeq
<1>2. codes \in [1 .. n -> Seq(Nat)] /\ \A k \in 1 .. n : codes[k] = EncodeMessage(es[k])
  BY <1>1, EncodeMessageType
<1>3. list = ListCode(n, codes)
  BY DEF EncodeMessages, EncodeAll, ListCode
<1> HIDE DEF codes, list, n
<1>4. n = Len(es)
  BY DEF n
<1>5. /\ list \in Seq(Nat) /\ Len(list) >= 1
      /\ Holds(data, pos, list) => LaidTo(data, pos, n, codes, pos + Len(list))
  BY <1>1, <1>2, <1>3, ListPlaces
<1>6. Len(list) \in Nat
  BY <1>5, LenProperties
<1> SUFFICES ASSUME Holds(data, pos, list)
             PROVE  TakeMessages(c, Reached(m, pos, read)) = Reached(m, pos + Len(list), Append(read, es))
  BY <1>5 DEF list
<1>7. PICK at : Laid(data, pos, n, codes, at) /\ at[n] = pos + Len(list)
  BY <1>5, Zenon DEF LaidTo
<1>8. at \in [0 .. n -> Nat] /\ at[0] = pos + 1 /\ at[n] \in Nat /\ Holds(data, pos, <<n>>)
  BY <1>1, <1>7 DEF Laid
<1> DEFINE count == Take(c, Reached(m, pos, read), 1)
           base == WithRead(count, <<>>)
           One(all, i) ==
             LET e == IF all.ok THEN TakeMessage(c, WithRead(all, <<>>)) ELSE None
             IN  IF e.ok THEN WithRead(e, Append(all.read, e.read)) ELSE None
           idx == [i \in 1 .. Value(count) |-> i]
           Def(g) == [d \in SUBSET DOMAIN idx |->
                        IF d = {} THEN base ELSE One(g[d \ {Max(d)}], idx[Max(d)])]
           h == CHOOSE g : g = Def(g)
           all == h[DOMAIN idx]
           R == ListCursor(m, at, es)
<1>9. TakeMessages(c, Reached(m, pos, read))
        = IF ~count.ok THEN None
          ELSE IF ~all.ok THEN None ELSE WithRead(all, Append(Reached(m, pos, read).read, all.read))
  BY DEF TakeMessages, TakeAll, FoldLeft, MapThenFoldSet, WithRead
<1> HIDE DEF c, count
<1>10. /\ count = Reached(m, pos + 1, Append(read, <<n>>))
       /\ pos + 1 <= m => Value(count) = n
  BY <1>1, <1>8, TakeField DEF c, count
<1>11. CASE ~(pos + 1 <= m)
  <2>1. ~count.ok
    BY <1>1, <1>10, <1>11, ReachedNone
  <2>2. pos + Len(list) \in Nat /\ ~(pos + Len(list) <= m)
    BY <1>1, <1>5, <1>6, <1>11
  <2>3. Reached(m, pos + Len(list), Append(read, es)) = None
    BY <1>1, <2>2, ReachedNone
  <2>4. QED
    BY <1>9, <2>1, <2>3
<1>12. CASE pos + 1 <= m
  <2>1. count.ok /\ Value(count) = n /\ DOMAIN idx = 1 .. n /\ pos <= m
    BY <1>1, <1>10, <1>12, ReachedFields
  <2>2. base = R[0]
    <3>1. base = Reached(m, pos + 1, <<>>)
      BY <1>1, <1>10, <1>12, ReachedFields
    <3>2. R[0] = Reached(m, at[0], <<>>)
      BY ListOpened, Zenon
    <3>3. QED
      BY <1>8, <3>1, <3>2
  <2> HIDE DEF base, idx
  <2>3. ASSUME NEW k \in 1 .. n, NEW i PROVE One(R[k - 1], i) = R[k]
    <3> DEFINE from == at[k - 1]
               to == at[k]
               e == es[k]
               taken == TakeMessage(c, WithRead(R[k - 1], <<>>))
    <3>1. /\ Holds(data, from, EncodeMessage(e)) /\ from + Len(EncodeMessage(e)) = to
          /\ e \in MessageOf /\ FitsMessage(e)
      BY <1>1, <1>2, <1>7 DEF Laid
    <3>2. from \in Nat /\ from <= to /\ EncodeMessage(e) \in Seq(Nat)
      <4>1. EncodeMessage(e) \in Seq(Nat) /\ Len(EncodeMessage(e)) \in Nat
        BY <3>1, EncodeMessageType, LenProperties
      <4>2. from \in Nat
        BY <1>1, <1>8
      <4> HIDE DEF from, to, e
      <4>3. QED
        BY <3>1, <4>1, <4>2
    <3>3. Advances(R, k, m, from, to, e)
      BY <1>1, <1>8, <3>2, ListRound DEF n
    <3> HIDE DEF from, to, e, R
    <3>4. TakeMessage(c, Reached(m, from, <<>>)) = Reached(m, to, e)
      BY <3>1, <3>2, TakeMessageReads DEF c
    <3>5. R[k - 1].ok => taken = Reached(m, to, e)
      BY <3>3, <3>4, Zenon DEF Advances
    <3>6. One(R[k - 1], i) = Round(R[k - 1], taken)
      BY DEF Round
    <3> HIDE DEF taken, One
    <3>7. QED
      BY <3>3, <3>5, <3>6, Zenon DEF Advances
  <2> HIDE DEF One, R
  <2>4. PICK g : /\ g = [d \in SUBSET (1 .. n) |-> g[d]]
                 /\ g[{}] = R[0]
                 /\ \A d \in SUBSET (1 .. n) : d # {} =>
                      \E k \in 1 .. n : g[d \ {Max(d)}] = R[k - 1] /\ g[d] = R[k]
    BY <1>1, IterateExists
  <2>5. ASSUME NEW d \in SUBSET (1 .. n)
        PROVE  g[d] = IF d = {} THEN base ELSE One(g[d \ {Max(d)}], idx[Max(d)])
    <3>1. CASE d = {}
      BY <2>2, <2>4, <3>1
    <3>2. CASE d # {}
      <4>1. PICK k \in 1 .. n : g[d \ {Max(d)}] = R[k - 1] /\ g[d] = R[k]
        BY <2>4, <3>2
      <4>2. One(R[k - 1], idx[Max(d)]) = R[k]
        BY <2>3
      <4>3. QED
        BY <3>2, <4>1, <4>2
    <3>3. QED
      BY <3>1, <3>2
  <2>6. g = Def(g)
    BY <2>1, <2>4, <2>5
  <2>7. h = Def(h)
    BY <2>6, Zenon
  <2> HIDE DEF h
  <2>8. \A d \in SUBSET (1 .. n) :
          h[d] = IF d = {} THEN base ELSE One(h[d \ {Max(d)}], idx[Max(d)])
    BY <2>1, <2>7
  <2>9. all = R[n]
    <3>1. h[{}] = R[0]
      BY <2>2, <2>8
    <3>2. \A k \in 1 .. n : \A d \in SUBSET (1 .. n) :
            d # {} /\ h[d \ {Max(d)}] = R[k - 1] => h[d] = R[k]
      BY <2>3, <2>8
    <3>3. h[1 .. n] = R[n]
      BY <1>1, <3>1, <3>2, IterateRun
    <3>4. QED
      BY <2>1, <3>3
  <2>10. Reached(m, pos, read).read = read
    BY <1>1, <2>1, ReachedFields
  <2> HIDE DEF all
  <2>11. TakeMessages(c, Reached(m, pos, read)) = Closed(all, read)
    BY <1>9, <2>1, <2>10 DEF Closed
  <2>12. Closed(all, read) = Reached(m, at[n], Append(read, es))
    <3>1. Closed(R[n], read) = Reached(m, at[n], Append(read, es))
      <4>1. n \in Nat /\ m \in Nat
        BY <1>1
      <4>2. at \in [0 .. n -> Nat]
        BY <1>8
      <4>3. QED
        BY <1>4, <4>1, <4>2, ListClosed DEF R
    <3>2. QED
      BY <2>9, <3>1
  <2>13. QED
    BY <1>7, <2>11, <2>12
<1>13. QED
  BY <1>11, <1>12

EncodeSubs(es) == EncodeAll(es, EncodeSub)
TakeSubs(data, cur) == TakeAll(data, cur, TakeSub)

\* A list of subscriptions that was written is read back.
LEMMA TakeSubsReads ==
  ASSUME NEW data \in Seq(Nat), NEW m \in 0 .. Len(data), NEW pos \in Nat, NEW V, NEW read \in Seq(V),
         NEW es \in Seq(SubOf), Len(es) < FIELD, \A i \in DOMAIN es : FitsSub(es[i])
  PROVE  /\ EncodeSubs(es) \in Seq(Nat)
         /\ Holds(data, pos, EncodeSubs(es)) =>
              TakeSubs(Cut(data, m), Reached(m, pos, read))
                = Reached(m, pos + Len(EncodeSubs(es)), Append(read, es))
<1> DEFINE n == Len(es)
           codes == [i \in DOMAIN es |-> EncodeSub(es[i])]
           list == EncodeSubs(es)
           c == Cut(data, m)
<1>1. /\ n \in Nat /\ DOMAIN es = 1 .. n /\ m \in Nat /\ pos + 1 \in Nat /\ n < FIELD
      /\ \A i \in 1 .. n : es[i] \in SubOf /\ FitsSub(es[i])
  BY LenProperties, ElementOfSeq
<1>2. codes \in [1 .. n -> Seq(Nat)] /\ \A k \in 1 .. n : codes[k] = EncodeSub(es[k])
  BY <1>1, EncodeSubType
<1>3. list = ListCode(n, codes)
  BY DEF EncodeSubs, EncodeAll, ListCode
<1> HIDE DEF codes, list, n
<1>4. n = Len(es)
  BY DEF n
<1>5. /\ list \in Seq(Nat) /\ Len(list) >= 1
      /\ Holds(data, pos, list) => LaidTo(data, pos, n, codes, pos + Len(list))
  BY <1>1, <1>2, <1>3, ListPlaces
<1>6. Len(list) \in Nat
  BY <1>5, LenProperties
<1> SUFFICES ASSUME Holds(data, pos, list)
             PROVE  TakeSubs(c, Reached(m, pos, read)) = Reached(m, pos + Len(list), Append(read, es))
  BY <1>5 DEF list
<1>7. PICK at : Laid(data, pos, n, codes, at) /\ at[n] = pos + Len(list)
  BY <1>5, Zenon DEF LaidTo
<1>8. at \in [0 .. n -> Nat] /\ at[0] = pos + 1 /\ at[n] \in Nat /\ Holds(data, pos, <<n>>)
  BY <1>1, <1>7 DEF Laid
<1> DEFINE count == Take(c, Reached(m, pos, read), 1)
           base == WithRead(count, <<>>)
           One(all, i) ==
             LET e == IF all.ok THEN TakeSub(c, WithRead(all, <<>>)) ELSE None
             IN  IF e.ok THEN WithRead(e, Append(all.read, e.read)) ELSE None
           idx == [i \in 1 .. Value(count) |-> i]
           Def(g) == [d \in SUBSET DOMAIN idx |->
                        IF d = {} THEN base ELSE One(g[d \ {Max(d)}], idx[Max(d)])]
           h == CHOOSE g : g = Def(g)
           all == h[DOMAIN idx]
           R == ListCursor(m, at, es)
<1>9. TakeSubs(c, Reached(m, pos, read))
        = IF ~count.ok THEN None
          ELSE IF ~all.ok THEN None ELSE WithRead(all, Append(Reached(m, pos, read).read, all.read))
  BY DEF TakeSubs, TakeAll, FoldLeft, MapThenFoldSet, WithRead
<1> HIDE DEF c, count
<1>10. /\ count = Reached(m, pos + 1, Append(read, <<n>>))
       /\ pos + 1 <= m => Value(count) = n
  BY <1>1, <1>8, TakeField DEF c, count
<1>11. CASE ~(pos + 1 <= m)
  <2>1. ~count.ok
    BY <1>1, <1>10, <1>11, ReachedNone
  <2>2. pos + Len(list) \in Nat /\ ~(pos + Len(list) <= m)
    BY <1>1, <1>5, <1>6, <1>11
  <2>3. Reached(m, pos + Len(list), Append(read, es)) = None
    BY <1>1, <2>2, ReachedNone
  <2>4. QED
    BY <1>9, <2>1, <2>3
<1>12. CASE pos + 1 <= m
  <2>1. count.ok /\ Value(count) = n /\ DOMAIN idx = 1 .. n /\ pos <= m
    BY <1>1, <1>10, <1>12, ReachedFields
  <2>2. base = R[0]
    <3>1. base = Reached(m, pos + 1, <<>>)
      BY <1>1, <1>10, <1>12, ReachedFields
    <3>2. R[0] = Reached(m, at[0], <<>>)
      BY ListOpened, Zenon
    <3>3. QED
      BY <1>8, <3>1, <3>2
  <2> HIDE DEF base, idx
  <2>3. ASSUME NEW k \in 1 .. n, NEW i PROVE One(R[k - 1], i) = R[k]
    <3> DEFINE from == at[k - 1]
               to == at[k]
               e == es[k]
               taken == TakeSub(c, WithRead(R[k - 1], <<>>))
    <3>1. /\ Holds(data, from, EncodeSub(e)) /\ from + Len(EncodeSub(e)) = to
          /\ e \in SubOf /\ FitsSub(e)
      BY <1>1, <1>2, <1>7 DEF Laid
    <3>2. from \in Nat /\ from <= to /\ EncodeSub(e) \in Seq(Nat)
      <4>1. EncodeSub(e) \in Seq(Nat) /\ Len(EncodeSub(e)) \in Nat
        BY <3>1, EncodeSubType, LenProperties
      <4>2. from \in Nat
        BY <1>1, <1>8
      <4> HIDE DEF from, to, e
      <4>3. QED
        BY <3>1, <4>1, <4>2
    <3>3. Advances(R, k, m, from, to, e)
      BY <1>1, <1>8, <3>2, ListRound DEF n
    <3> HIDE DEF from, to, e, R
    <3>4. TakeSub(c, Reached(m, from, <<>>)) = Reached(m, to, e)
      BY <3>1, <3>2, TakeSubReads DEF c
    <3>5. R[k - 1].ok => taken = Reached(m, to, e)
      BY <3>3, <3>4, Zenon DEF Advances
    <3>6. One(R[k - 1], i) = Round(R[k - 1], taken)
      BY DEF Round
    <3> HIDE DEF taken, One
    <3>7. QED
      BY <3>3, <3>5, <3>6, Zenon DEF Advances
  <2> HIDE DEF One, R
  <2>4. PICK g : /\ g = [d \in SUBSET (1 .. n) |-> g[d]]
                 /\ g[{}] = R[0]
                 /\ \A d \in SUBSET (1 .. n) : d # {} =>
                      \E k \in 1 .. n : g[d \ {Max(d)}] = R[k - 1] /\ g[d] = R[k]
    BY <1>1, IterateExists
  <2>5. ASSUME NEW d \in SUBSET (1 .. n)
        PROVE  g[d] = IF d = {} THEN base ELSE One(g[d \ {Max(d)}], idx[Max(d)])
    <3>1. CASE d = {}
      BY <2>2, <2>4, <3>1
    <3>2. CASE d # {}
      <4>1. PICK k \in 1 .. n : g[d \ {Max(d)}] = R[k - 1] /\ g[d] = R[k]
        BY <2>4, <3>2
      <4>2. One(R[k - 1], idx[Max(d)]) = R[k]
        BY <2>3
      <4>3. QED
        BY <3>2, <4>1, <4>2
    <3>3. QED
      BY <3>1, <3>2
  <2>6. g = Def(g)
    BY <2>1, <2>4, <2>5
  <2>7. h = Def(h)
    BY <2>6, Zenon
  <2> HIDE DEF h
  <2>8. \A d \in SUBSET (1 .. n) :
          h[d] = IF d = {} THEN base ELSE One(h[d \ {Max(d)}], idx[Max(d)])
    BY <2>1, <2>7
  <2>9. all = R[n]
    <3>1. h[{}] = R[0]
      BY <2>2, <2>8
    <3>2. \A k \in 1 .. n : \A d \in SUBSET (1 .. n) :
            d # {} /\ h[d \ {Max(d)}] = R[k - 1] => h[d] = R[k]
      BY <2>3, <2>8
    <3>3. h[1 .. n] = R[n]
      BY <1>1, <3>1, <3>2, IterateRun
    <3>4. QED
      BY <2>1, <3>3
  <2>10. Reached(m, pos, read).read = read
    BY <1>1, <2>1, ReachedFields
  <2> HIDE DEF all
  <2>11. TakeSubs(c, Reached(m, pos, read)) = Closed(all, read)
    BY <1>9, <2>1, <2>10 DEF Closed
  <2>12. Closed(all, read) = Reached(m, at[n], Append(read, es))
    <3>1. Closed(R[n], read) = Reached(m, at[n], Append(read, es))
      <4>1. n \in Nat /\ m \in Nat
        BY <1>1
      <4>2. at \in [0 .. n -> Nat]
        BY <1>8
      <4>3. QED
        BY <1>4, <4>1, <4>2, ListClosed DEF R
    <3>2. QED
      BY <2>9, <3>1
  <2>13. QED
    BY <1>7, <2>11, <2>12
<1>13. QED
  BY <1>11, <1>12

----------------------------------------------------------------------------
(* Sessions.                                                               *)

SessionOf == Text \X Seq(SubOf) \X Seq(MessageOf)

FitsSession(s) ==
  /\ FitsText(s[1])
  /\ Len(s[2]) < FIELD /\ \A i \in DOMAIN s[2] : FitsSub(s[2][i])
  /\ Len(s[3]) < FIELD /\ \A i \in DOMAIN s[3] : FitsMessage(s[3][i])

EncodeSessions(es) == EncodeAll(es, EncodeSession)
TakeSessions(data, cur) == TakeAll(data, cur, TakeSession)

\* The parts of a session.
LEMMA SessionParts ==
  ASSUME NEW e \in SessionOf, FitsSession(e)
  PROVE  /\ e[1] \in Text /\ FitsText(e[1])
         /\ e[2] \in Seq(SubOf) /\ Len(e[2]) < FIELD /\ \A i \in DOMAIN e[2] : FitsSub(e[2][i])
         /\ e[3] \in Seq(MessageOf) /\ Len(e[3]) < FIELD /\ \A i \in DOMAIN e[3] : FitsMessage(e[3][i])
         /\ e = <<e[1], e[2], e[3]>>
         /\ EncodeText(e[1]) \in Seq(Nat) /\ EncodeSubs(e[2]) \in Seq(Nat)
         /\ EncodeMessages(e[3]) \in Seq(Nat)
         /\ EncodeSession(e) = (EncodeText(e[1]) \o EncodeSubs(e[2])) \o EncodeMessages(e[3])
<1>1. /\ e[1] \in Text /\ e[2] \in Seq(SubOf) /\ e[3] \in Seq(MessageOf)
      /\ e = <<e[1], e[2], e[3]>>
  BY DEF SessionOf
<1>2. /\ FitsText(e[1]) /\ Len(e[2]) < FIELD /\ Len(e[3]) < FIELD
      /\ \A i \in DOMAIN e[2] : FitsSub(e[2][i])
      /\ \A i \in DOMAIN e[3] : FitsMessage(e[3][i])
  BY DEF FitsSession
<1>3. EncodeSession(e) = (EncodeText(e[1]) \o EncodeSubs(e[2])) \o EncodeMessages(e[3])
  BY DEF EncodeSession, EncodeSubs, EncodeMessages
<1> DEFINE data == <<>>
<1>4. data \in Seq(Nat) /\ data \in Seq({}) /\ Len(data) = 0 /\ 0 \in 0 .. Len(data)
  OBVIOUS
<1> HIDE DEF data
<1>5. EncodeText(e[1]) \in Seq(Nat)
  BY <1>1, <1>2, EncodeTextType
<1> DEFINE subs == e[2]
           offline == e[3]
<1>6. EncodeSubs(subs) \in Seq(Nat)
  <2> HIDE DEF subs
  <2>1. subs \in Seq(SubOf) /\ Len(subs) < FIELD /\ \A i \in DOMAIN subs : FitsSub(subs[i])
    BY <1>1, <1>2 DEF subs
  <2>2. QED
    BY <2>1, <1>4, TakeSubsReads
<1>7. EncodeMessages(offline) \in Seq(Nat)
  <2> HIDE DEF offline
  <2>1. offline \in Seq(MessageOf) /\ Len(offline) < FIELD
        /\ \A i \in DOMAIN offline : FitsMessage(offline[i])
    BY <1>1, <1>2 DEF offline
  <2>2. QED
    BY <2>1, <1>4, TakeMessagesReads
<1>8. QED
  BY <1>1, <1>2, <1>3, <1>5, <1>6, <1>7

\* What a session is written as.
LEMMA EncodeSessionType ==
  ASSUME NEW e \in SessionOf, FitsSession(e)
  PROVE  EncodeSession(e) \in Seq(Nat)
<1> DEFINE a == EncodeText(e[1])
           b == EncodeSubs(e[2])
           q == EncodeMessages(e[3])
<1>1. a \in Seq(Nat) /\ b \in Seq(Nat) /\ q \in Seq(Nat) /\ EncodeSession(e) = (a \o b) \o q
  BY SessionParts
<1> HIDE DEF a, b, q
<1>2. a \o b \in Seq(Nat)
  BY <1>1, HoldsHalves
<1>3. (a \o b) \o q \in Seq(Nat)
  BY <1>1, <1>2, HoldsHalves
<1>4. QED
  BY <1>1, <1>3

\* A session that was written is read back.
LEMMA TakeSessionReads ==
  ASSUME NEW data \in Seq(Nat), NEW m \in 0 .. Len(data), NEW pos \in Nat,
         NEW e \in SessionOf, FitsSession(e), Holds(data, pos, EncodeSession(e))
  PROVE  TakeSession(Cut(data, m), Reached(m, pos, <<>>)) = Reached(m, pos + Len(EncodeSession(e)), e)
<1> DEFINE id == e[1]
           subs == e[2]
           offline == e[3]
           a == EncodeText(id)
           b == EncodeSubs(subs)
           q == EncodeMessages(offline)
           c == Cut(data, m)
           p1 == pos + Len(a)
           p2 == p1 + Len(b)
           p3 == p2 + Len(q)
           r0 == <<>>
           r1 == Append(r0, id)
           r2 == Append(r1, subs)
           r3 == Append(r2, offline)
<1>1. /\ id \in Text /\ FitsText(id)
      /\ subs \in Seq(SubOf) /\ Len(subs) < FIELD /\ \A i \in DOMAIN subs : FitsSub(subs[i])
      /\ offline \in Seq(MessageOf) /\ Len(offline) < FIELD
      /\ \A i \in DOMAIN offline : FitsMessage(offline[i])
      /\ e = <<id, subs, offline>>
      /\ a \in Seq(Nat) /\ b \in Seq(Nat) /\ q \in Seq(Nat)
      /\ EncodeSession(e) = (a \o b) \o q
  BY SessionParts
<1>2. r3 = e
  BY <1>1
<1>3. r0 \in Seq({})
  OBVIOUS
<1>4. TakeSession(c, Reached(m, pos, r0))
        = TakeMessages(c, TakeSubs(c, TakeText(c, Reached(m, pos, r0))))
  BY DEF TakeSession, TakeMessages, TakeSubs
<1> HIDE DEF id, subs, offline, r0
<1>5. r1 \in Seq({} \cup {id})
  BY <1>3, AppendedLast
<1>6. r2 \in Seq(({} \cup {id}) \cup {subs})
  <2> HIDE DEF r1
  <2>1. QED
    BY <1>5, AppendedLast
<1> HIDE DEF a, b, q
<1>7. Len(a) \in Nat /\ Len(b) \in Nat /\ Len(q) \in Nat
  BY <1>1, LenProperties
<1>8. /\ Holds(data, pos, a) /\ Holds(data, p1, b) /\ Holds(data, p2, q)
      /\ Len(EncodeSession(e)) = Len(a) + Len(b) + Len(q)
  <2> DEFINE ab == a \o b
             abq == ab \o q
  <2>1. ab \in Seq(Nat) /\ Len(ab) = Len(a) + Len(b) /\ Holds(data, pos, abq)
    BY <1>1, HoldsHalves
  <2> HIDE DEF ab
  <2>2. Holds(data, pos, ab) /\ Holds(data, pos + Len(ab), q) /\ Len(abq) = Len(ab) + Len(q)
    BY <1>1, <2>1, HoldsBoth, HoldsHalves
  <2>3. Holds(data, pos, a) /\ Holds(data, pos + Len(a), b)
    BY <1>1, <2>2, HoldsBoth DEF ab
  <2>4. pos + Len(ab) = p2 /\ Len(EncodeSession(e)) = Len(abq)
    BY <1>1, <1>7, <2>1 DEF ab
  <2> HIDE DEF abq
  <2>5. QED
    BY <2>1, <2>2, <2>3, <2>4
<1>9. p1 \in Nat /\ p2 \in Nat /\ p3 \in Nat /\ p3 = pos + Len(EncodeSession(e))
  BY <1>7, <1>8
<1> HIDE DEF r1, r2, r3, p1, p2
<1>10. TakeText(c, Reached(m, pos, r0)) = Reached(m, p1, r1)
  <2>1. Holds(data, pos, EncodeText(id))
    BY <1>8 DEF a
  <2>2. TakeText(c, Reached(m, pos, r0)) = Reached(m, pos + Len(EncodeText(id)), Append(r0, id))
    BY <1>1, <1>3, <2>1, TakeTextReads
  <2>3. QED
    BY <2>2 DEF a, p1, r1
<1>11. TakeSubs(c, Reached(m, p1, r1)) = Reached(m, p2, r2)
  <2>1. Holds(data, p1, EncodeSubs(subs))
    BY <1>8 DEF b
  <2>2. TakeSubs(c, Reached(m, p1, r1)) = Reached(m, p1 + Len(EncodeSubs(subs)), Append(r1, subs))
    <3> DEFINE R == {} \cup {id}
    <3>1. r1 \in Seq(R) /\ p1 \in Nat
      BY <1>5, <1>9
    <3>2. subs \in Seq(SubOf) /\ Len(subs) < FIELD /\ \A i \in DOMAIN subs : FitsSub(subs[i])
      BY <1>1
    <3> HIDE DEF R
    <3>3. QED
      BY <2>1, <3>1, <3>2, TakeSubsReads
  <2>3. QED
    BY <2>2 DEF b, p2, r2
<1>12. TakeMessages(c, Reached(m, p2, r2)) = Reached(m, p3, r3)
  <2>1. Holds(data, p2, EncodeMessages(offline))
    BY <1>8 DEF q
  <2>2. TakeMessages(c, Reached(m, p2, r2))
          = Reached(m, p2 + Len(EncodeMessages(offline)), Append(r2, offline))
    <3> DEFINE R == ({} \cup {id}) \cup {subs}
    <3>1. r2 \in Seq(R) /\ p2 \in Nat
      BY <1>6, <1>9
    <3>2. /\ offline \in Seq(MessageOf) /\ Len(offline) < FIELD
          /\ \A i \in DOMAIN offline : FitsMessage(offline[i])
      BY <1>1
    <3> HIDE DEF R
    <3>3. QED
      BY <2>1, <3>1, <3>2, TakeMessagesReads
  <2>3. p2 + Len(EncodeMessages(offline)) = p3
    BY DEF q
  <2>4. QED
    BY <2>2, <2>3 DEF r3
<1>13. TakeSession(c, Reached(m, pos, r0)) = Reached(m, pos + Len(EncodeSession(e)), e)
  BY <1>2, <1>4, <1>9, <1>10, <1>11, <1>12
<1>14. QED
  BY <1>13 DEF r0

\* A list of sessions that was written is read back.
LEMMA TakeSessionsReads ==
  ASSUME NEW data \in Seq(Nat), NEW m \in 0 .. Len(data), NEW pos \in Nat, NEW V, NEW read \in Seq(V),
         NEW es \in Seq(SessionOf), Len(es) < FIELD, \A i \in DOMAIN es : FitsSession(es[i])
  PROVE  /\ EncodeSessions(es) \in Seq(Nat)
         /\ Holds(data, pos, EncodeSessions(es)) =>
              TakeSessions(Cut(data, m), Reached(m, pos, read))
                = Reached(m, pos + Len(EncodeSessions(es)), Append(read, es))
<1> DEFINE n == Len(es)
           codes == [i \in DOMAIN es |-> EncodeSession(es[i])]
           list == EncodeSessions(es)
           c == Cut(data, m)
<1>1. /\ n \in Nat /\ DOMAIN es = 1 .. n /\ m \in Nat /\ pos + 1 \in Nat /\ n < FIELD
      /\ \A i \in 1 .. n : es[i] \in SessionOf /\ FitsSession(es[i])
  BY LenProperties, ElementOfSeq
<1>2. codes \in [1 .. n -> Seq(Nat)] /\ \A k \in 1 .. n : codes[k] = EncodeSession(es[k])
  BY <1>1, EncodeSessionType
<1>3. list = ListCode(n, codes)
  BY DEF EncodeSessions, EncodeAll, ListCode
<1> HIDE DEF codes, list, n
<1>4. n = Len(es)
  BY DEF n
<1>5. /\ list \in Seq(Nat) /\ Len(list) >= 1
      /\ Holds(data, pos, list) => LaidTo(data, pos, n, codes, pos + Len(list))
  BY <1>1, <1>2, <1>3, ListPlaces
<1>6. Len(list) \in Nat
  BY <1>5, LenProperties
<1> SUFFICES ASSUME Holds(data, pos, list)
             PROVE  TakeSessions(c, Reached(m, pos, read)) = Reached(m, pos + Len(list), Append(read, es))
  BY <1>5 DEF list
<1>7. PICK at : Laid(data, pos, n, codes, at) /\ at[n] = pos + Len(list)
  BY <1>5, Zenon DEF LaidTo
<1>8. at \in [0 .. n -> Nat] /\ at[0] = pos + 1 /\ at[n] \in Nat /\ Holds(data, pos, <<n>>)
  BY <1>1, <1>7 DEF Laid
<1> DEFINE count == Take(c, Reached(m, pos, read), 1)
           base == WithRead(count, <<>>)
           One(all, i) ==
             LET e == IF all.ok THEN TakeSession(c, WithRead(all, <<>>)) ELSE None
             IN  IF e.ok THEN WithRead(e, Append(all.read, e.read)) ELSE None
           idx == [i \in 1 .. Value(count) |-> i]
           Def(g) == [d \in SUBSET DOMAIN idx |->
                        IF d = {} THEN base ELSE One(g[d \ {Max(d)}], idx[Max(d)])]
           h == CHOOSE g : g = Def(g)
           all == h[DOMAIN idx]
           R == ListCursor(m, at, es)
<1>9. TakeSessions(c, Reached(m, pos, read))
        = IF ~count.ok THEN None
          ELSE IF ~all.ok THEN None ELSE WithRead(all, Append(Reached(m, pos, read).read, all.read))
  BY DEF TakeSessions, TakeAll, FoldLeft, MapThenFoldSet, WithRead
<1> HIDE DEF c, count
<1>10. /\ count = Reached(m, pos + 1, Append(read, <<n>>))
       /\ pos + 1 <= m => Value(count) = n
  BY <1>1, <1>8, TakeField DEF c, count
<1>11. CASE ~(pos + 1 <= m)
  <2>1. ~count.ok
    BY <1>1, <1>10, <1>11, ReachedNone
  <2>2. pos + Len(list) \in Nat /\ ~(pos + Len(list) <= m)
    BY <1>1, <1>5, <1>6, <1>11
  <2>3. Reached(m, pos + Len(list), Append(read, es)) = None
    BY <1>1, <2>2, ReachedNone
  <2>4. QED
    BY <1>9, <2>1, <2>3
<1>12. CASE pos + 1 <= m
  <2>1. count.ok /\ Value(count) = n /\ DOMAIN idx = 1 .. n /\ pos <= m
    BY <1>1, <1>10, <1>12, ReachedFields
  <2>2. base = R[0]
    <3>1. base = Reached(m, pos + 1, <<>>)
      BY <1>1, <1>10, <1>12, ReachedFields
    <3>2. R[0] = Reached(m, at[0], <<>>)
      BY ListOpened, Zenon
    <3>3. QED
      BY <1>8, <3>1, <3>2
  <2> HIDE DEF base, idx
  <2>3. ASSUME NEW k \in 1 .. n, NEW i PROVE One(R[k - 1], i) = R[k]
    <3> DEFINE from == at[k - 1]
               to == at[k]
               e == es[k]
               taken == TakeSession(c, WithRead(R[k - 1], <<>>))
    <3>1. /\ Holds(data, from, EncodeSession(e)) /\ from + Len(EncodeSession(e)) = to
          /\ e \in SessionOf /\ FitsSession(e)
      BY <1>1, <1>2, <1>7 DEF Laid
    <3>2. from \in Nat /\ from <= to /\ EncodeSession(e) \in Seq(Nat)
      <4>1. EncodeSession(e) \in Seq(Nat) /\ Len(EncodeSession(e)) \in Nat
        BY <3>1, EncodeSessionType, LenProperties
      <4>2. from \in Nat
        BY <1>1, <1>8
      <4> HIDE DEF from, to, e
      <4>3. QED
        BY <3>1, <4>1, <4>2
    <3>3. Advances(R, k, m, from, to, e)
      BY <1>1, <1>8, <3>2, ListRound DEF n
    <3> HIDE DEF from, to, e, R
    <3>4. TakeSession(c, Reached(m, from, <<>>)) = Reached(m, to, e)
      BY <3>1, <3>2, TakeSessionReads DEF c
    <3>5. R[k - 1].ok => taken = Reached(m, to, e)
      BY <3>3, <3>4, Zenon DEF Advances
    <3>6. One(R[k - 1], i) = Round(R[k - 1], taken)
      BY DEF Round
    <3> HIDE DEF taken, One
    <3>7. QED
      BY <3>3, <3>5, <3>6, Zenon DEF Advances
  <2> HIDE DEF One, R
  <2>4. PICK g : /\ g = [d \in SUBSET (1 .. n) |-> g[d]]
                 /\ g[{}] = R[0]
                 /\ \A d \in SUBSET (1 .. n) : d # {} =>
                      \E k \in 1 .. n : g[d \ {Max(d)}] = R[k - 1] /\ g[d] = R[k]
    BY <1>1, IterateExists
  <2>5. ASSUME NEW d \in SUBSET (1 .. n)
        PROVE  g[d] = IF d = {} THEN base ELSE One(g[d \ {Max(d)}], idx[Max(d)])
    <3>1. CASE d = {}
      BY <2>2, <2>4, <3>1
    <3>2. CASE d # {}
      <4>1. PICK k \in 1 .. n : g[d \ {Max(d)}] = R[k - 1] /\ g[d] = R[k]
        BY <2>4, <3>2
      <4>2. One(R[k - 1], idx[Max(d)]) = R[k]
        BY <2>3
      <4>3. QED
        BY <3>2, <4>1, <4>2
    <3>3. QED
      BY <3>1, <3>2
  <2>6. g = Def(g)
    BY <2>1, <2>4, <2>5
  <2>7. h = Def(h)
    BY <2>6, Zenon
  <2> HIDE DEF h
  <2>8. \A d \in SUBSET (1 .. n) :
          h[d] = IF d = {} THEN base ELSE One(h[d \ {Max(d)}], idx[Max(d)])
    BY <2>1, <2>7
  <2>9. all = R[n]
    <3>1. h[{}] = R[0]
      BY <2>2, <2>8
    <3>2. \A k \in 1 .. n : \A d \in SUBSET (1 .. n) :
            d # {} /\ h[d \ {Max(d)}] = R[k - 1] => h[d] = R[k]
      BY <2>3, <2>8
    <3>3. h[1 .. n] = R[n]
      BY <1>1, <3>1, <3>2, IterateRun
    <3>4. QED
      BY <2>1, <3>3
  <2>10. Reached(m, pos, read).read = read
    BY <1>1, <2>1, ReachedFields
  <2> HIDE DEF all
  <2>11. TakeSessions(c, Reached(m, pos, read)) = Closed(all, read)
    BY <1>9, <2>1, <2>10 DEF Closed
  <2>12. Closed(all, read) = Reached(m, at[n], Append(read, es))
    <3>1. Closed(R[n], read) = Reached(m, at[n], Append(read, es))
      <4>1. n \in Nat /\ m \in Nat
        BY <1>1
      <4>2. at \in [0 .. n -> Nat]
        BY <1>8
      <4>3. QED
        BY <1>4, <4>1, <4>2, ListClosed DEF R
    <3>2. QED
      BY <2>9, <3>1
  <2>13. QED
    BY <1>7, <2>11, <2>12
<1>13. QED
  BY <1>11, <1>12

----------------------------------------------------------------------------
(* The whole file.                                                         *)

File == [retained : Seq(MessageOf), sessions : Seq(SessionOf)]

\* Fits, entry by entry.
LEMMA FitsParts ==
  ASSUME NEW state \in File, Fits(state)
  PROVE  /\ state.retained \in Seq(MessageOf) /\ Len(state.retained) < FIELD
         /\ \A i \in DOMAIN state.retained : FitsMessage(state.retained[i])
         /\ state.sessions \in Seq(SessionOf) /\ Len(state.sessions) < FIELD
         /\ \A i \in DOMAIN state.sessions : FitsSession(state.sessions[i])
<1>1. state.retained \in Seq(MessageOf) /\ state.sessions \in Seq(SessionOf)
  BY DEF File
<1>2. ASSUME NEW es, FitsMessages(es)
      PROVE  Len(es) < FIELD /\ \A i \in DOMAIN es : FitsMessage(es[i])
  <2>1. Len(es) < FIELD /\ \A e \in {es[i] : i \in DOMAIN es} : FitsText(e[1]) /\ FitsText(e[2])
    BY <1>2 DEF FitsMessages, ToSet
  <2>2. QED
    BY <2>1 DEF FitsMessage
<1>3. ASSUME NEW i \in DOMAIN state.sessions PROVE FitsSession(state.sessions[i])
  <2> DEFINE s == state.sessions[i]
  <2>1. s \in ToSet(state.sessions)
    BY DEF ToSet
  <2>2. /\ FitsText(s[1]) /\ FitsMessages(s[3])
        /\ Len(s[2]) < FIELD /\ \A e \in ToSet(s[2]) : FitsText(e[1])
    BY <2>1 DEF Fits
  <2> HIDE DEF s
  <2>3. \A j \in DOMAIN s[2] : FitsSub(s[2][j])
    BY <2>2 DEF ToSet, FitsSub
  <2>4. Len(s[3]) < FIELD /\ \A j \in DOMAIN s[3] : FitsMessage(s[3][j])
    BY <1>2, <2>2
  <2>5. FitsSession(s)
    BY <2>2, <2>3, <2>4 DEF FitsSession
  <2>6. QED
    BY <2>5 DEF s
<1>4. FitsMessages(state.retained) /\ Len(state.sessions) < FIELD
  BY DEF Fits
<1>5. QED
  BY <1>1, <1>2, <1>3, <1>4

\* Where the parts of the file stand.
LEMMA EncodePlaces ==
  ASSUME NEW state \in File, Fits(state)
  PROVE  LET data == Encode(state)
             r == EncodeMessages(state.retained)
             s == EncodeSessions(state.sessions)
         IN  /\ data \in Seq(Nat) /\ r \in Seq(Nat) /\ s \in Seq(Nat)
             /\ Len(data) = 2 + Len(r) + Len(s)
             /\ Holds(data, 0, <<MAGIC, VERSION>>)
             /\ Holds(data, 2, r) /\ Holds(data, 2 + Len(r), s)
<1> DEFINE data == Encode(state)
           h == <<MAGIC, VERSION>>
           r == EncodeMessages(state.retained)
           s == EncodeSessions(state.sessions)
           hr == h \o r
           none == <<>>
<1>1. none \in Seq(Nat) /\ none \in Seq({}) /\ Len(none) = 0 /\ 0 \in 0 .. Len(none)
  OBVIOUS
<1>2. h \in Seq(Nat) /\ Len(h) = 2
  BY DEF MAGIC, VERSION
<1>3. data = hr \o s
  BY DEF Encode, EncodeMessages, EncodeSessions
<1> HIDE DEF none, data, h
<1>4. r \in Seq(Nat)
  <2> DEFINE es == state.retained
  <2>1. es \in Seq(MessageOf) /\ Len(es) < FIELD /\ \A i \in DOMAIN es : FitsMessage(es[i])
    BY FitsParts
  <2> HIDE DEF es
  <2>2. EncodeMessages(es) \in Seq(Nat)
    BY <1>1, <2>1, TakeMessagesReads
  <2>3. QED
    BY <2>2 DEF es
<1>5. s \in Seq(Nat)
  <2> DEFINE es == state.sessions
  <2>1. es \in Seq(SessionOf) /\ Len(es) < FIELD /\ \A i \in DOMAIN es : FitsSession(es[i])
    BY FitsParts
  <2> HIDE DEF es
  <2>2. EncodeSessions(es) \in Seq(Nat)
    BY <1>1, <2>1, TakeSessionsReads
  <2>3. QED
    BY <2>2 DEF es
<1> HIDE DEF r, s
<1>6. hr \in Seq(Nat) /\ Len(hr) = Len(h) + Len(r) /\ Holds(hr, 0, h) /\ Holds(hr, Len(h), r)
  BY <1>2, <1>4, HoldsHalves
<1> HIDE DEF hr
<1>7. data \in Seq(Nat) /\ Len(data) = Len(hr) + Len(s) /\ Holds(data, 0, hr) /\ Holds(data, Len(hr), s)
  BY <1>3, <1>5, <1>6, HoldsHalves
<1>8. Len(r) \in Nat /\ Len(s) \in Nat
  BY <1>4, <1>5, LenProperties
<1>9. Holds(data, 0, h) /\ Holds(data, Len(h), r)
  <2>1. 0 \in Nat /\ Len(h) \in Nat /\ 0 + 0 = 0 /\ 0 + Len(h) = Len(h)
    BY <1>2
  <2>2. Holds(data, 0 + 0, h)
    BY <1>2, <1>6, <1>7, <2>1, HoldsPart
  <2>3. Holds(data, 0 + Len(h), r)
    BY <1>4, <1>6, <1>7, <2>1, HoldsPart
  <2>4. QED
    BY <2>1, <2>2, <2>3
<1>10. QED
  BY <1>2, <1>4, <1>5, <1>6, <1>7, <1>8, <1>9 DEF data, h, r, s

\* The header of what is left of the file.
LEMMA HeaderKept ==
  ASSUME NEW data \in Seq(Nat), NEW m \in 0 .. Len(data), NEW h \in Seq(Nat), Len(h) = 2,
         Holds(data, 0, h), 2 <= m
  PROVE  SubSeq(Cut(data, m), 1, 2) = h
<1> DEFINE c == Cut(data, m)
           s == SubSeq(c, 1, 2)
<1>1. c \in Seq(Nat) /\ Len(c) = m /\ \A i \in 1 .. m : c[i] = data[i]
  BY CutProperties
<1>2. m \in Nat /\ 1 \in 1 .. m /\ 2 \in 1 .. m
  BY LenProperties
<1> HIDE DEF c
<1>3. s \in Seq(Nat) /\ Len(s) = 2 /\ \A i \in 1 .. 2 : s[i] = c[i]
  <2>1. \A i \in 1 .. 2 : c[i] \in Nat
    BY <1>1, <1>2, ElementOfSeq
  <2>2. /\ SubSeq(c, 1, 2) \in Seq(Nat)
        /\ Len(SubSeq(c, 1, 2)) = IF 1 <= 2 THEN 2 - 1 + 1 ELSE 0
        /\ \A i \in 1 .. 2 - 1 + 1 : SubSeq(c, 1, 2)[i] = c[1 + i - 1]
    BY <2>1, SubSeqProperties
  <2>3. QED
    BY <2>2
<1> HIDE DEF s
<1>4. \A i \in 1 .. 2 : data[i] = h[i]
  <2>1. \A i \in 1 .. Len(h) : data[0 + i] = h[i]
    BY DEF Holds
  <2>2. QED
    BY <2>1
<1>5. \A i \in 1 .. 2 : s[i] = h[i]
  BY <1>1, <1>2, <1>3, <1>4
<1>6. s = h
  BY <1>3, <1>5, SeqEqual
<1>7. QED
  BY <1>6 DEF s, c

\* deserialize_state, on what serialize_state wrote, whole or cut off.
THEOREM DecodeCut ==
  ASSUME NEW state \in File, Fits(state), NEW m \in 0 .. Len(Encode(state))
  PROVE  Decode(Cut(Encode(state), m)) = IF m = Len(Encode(state)) THEN state ELSE None
<1> DEFINE data == Encode(state)
           c == Cut(data, m)
           ret == state.retained
           ses == state.sessions
           r == EncodeMessages(ret)
           s == EncodeSessions(ses)
           p1 == 2 + Len(r)
           p2 == p1 + Len(s)
           r0 == <<>>
           r1 == Append(r0, ret)
           r2 == Append(r1, ses)
           start == [ok |-> TRUE, pos |-> 2, read |-> r0]
           cur == TakeSessions(c, TakeMessages(c, start))
<1>1. /\ data \in Seq(Nat) /\ r \in Seq(Nat) /\ s \in Seq(Nat)
      /\ Len(data) = 2 + Len(r) + Len(s)
      /\ Holds(data, 0, <<MAGIC, VERSION>>)
      /\ Holds(data, 2, r) /\ Holds(data, 2 + Len(r), s)
  BY EncodePlaces
<1>2. /\ ret \in Seq(MessageOf) /\ Len(ret) < FIELD /\ \A i \in DOMAIN ret : FitsMessage(ret[i])
      /\ ses \in Seq(SessionOf) /\ Len(ses) < FIELD /\ \A i \in DOMAIN ses : FitsSession(ses[i])
  BY FitsParts
<1>3. r2[1] = ret /\ r2[2] = ses /\ state = [retained |-> ret, sessions |-> ses]
  BY DEF File
<1>4. r0 \in Seq({})
  OBVIOUS
<1>5. Decode(c) = IF Len(c) < 2 \/ SubSeq(c, 1, 2) # <<MAGIC, VERSION>> THEN None
                  ELSE IF ~cur.ok THEN None
                  ELSE [retained |-> cur.read[1], sessions |-> cur.read[2]]
  BY DEF Decode, TakeMessages, TakeSessions
<1> HIDE DEF data, ret, ses, r0, cur
<1>6. r1 \in Seq({} \cup {ret})
  BY <1>4, AppendedLast
<1> HIDE DEF r, s, r1, r2
<1>7. /\ Len(r) \in Nat /\ Len(s) \in Nat /\ m \in 0 .. Len(data) /\ m \in Nat
      /\ Len(data) = p2 /\ p1 \in Nat /\ p2 \in Nat /\ 2 <= p1 /\ p1 <= p2
  BY <1>1, LenProperties DEF data
<1> HIDE DEF p1, p2
<1>8. Len(c) = m
  BY <1>1, <1>7, CutProperties
<1>9. CASE m < 2
  <2>1. Decode(c) = None /\ m # Len(data)
    BY <1>5, <1>7, <1>8, <1>9
  <2>2. QED
    BY <2>1 DEF data
<1>10. CASE 2 <= m
  <2>1. SubSeq(c, 1, 2) = <<MAGIC, VERSION>> /\ ~(Len(c) < 2)
    <3> DEFINE h == <<MAGIC, VERSION>>
    <3>1. h \in Seq(Nat) /\ Len(h) = 2
      BY DEF MAGIC, VERSION
    <3>2. ~(Len(c) < 2)
      BY <1>7, <1>8, <1>10
    <3>3. Holds(data, 0, h)
      BY <1>1
    <3> HIDE DEF h
    <3>4. SubSeq(c, 1, 2) = h
      BY <1>1, <1>7, <1>10, <3>1, <3>3, HeaderKept
    <3>5. QED
      BY <3>2, <3>4 DEF h
  <2> HIDE DEF c
  <2>2. start = Reached(m, 2, r0)
    BY <1>10 DEF Reached
  <2> HIDE DEF start
  <2>3. TakeMessages(c, start) = Reached(m, p1, r1)
    <3>1. 2 \in Nat /\ data \in Seq(Nat) /\ m \in 0 .. Len(data) /\ Holds(data, 2, EncodeMessages(ret))
      BY <1>1, <1>7 DEF r
    <3>2. TakeMessages(c, Reached(m, 2, r0)) = Reached(m, 2 + Len(r), Append(r0, ret))
      BY <1>2, <1>4, <3>1, TakeMessagesReads DEF c, r
    <3>3. QED
      BY <2>2, <3>2 DEF p1, r1
  <2>4. cur = Reached(m, p2, r2)
    <3>1. TakeSessions(c, Reached(m, p1, r1)) = Reached(m, p1 + Len(s), Append(r1, ses))
      <4>1. /\ p1 \in Nat /\ data \in Seq(Nat) /\ m \in 0 .. Len(data)
            /\ Holds(data, p1, EncodeSessions(ses))
        BY <1>1, <1>7 DEF p1, s
      <4>2. QED
        BY <1>2, <1>6, <4>1, TakeSessionsReads DEF c, s
    <3>2. QED
      BY <2>3, <3>1 DEF cur, p2, r2
  <2>5. CASE m = Len(data)
    <3>1. cur.ok /\ cur.read = r2
      BY <1>7, <2>4, <2>5, ReachedFields
    <3>2. Decode(c) = state
      BY <1>3, <1>5, <2>1, <3>1
    <3>3. QED
      BY <2>5, <3>2 DEF c, data
  <2>6. CASE m # Len(data)
    <3>1. ~(p2 <= m)
      BY <1>7, <2>6
    <3>2. ~cur.ok
      BY <1>7, <2>4, <3>1, ReachedNone
    <3>3. Decode(c) = None
      BY <1>5, <3>2
    <3>4. QED
      BY <2>6, <3>3 DEF c, data
  <2>7. QED
    BY <2>5, <2>6
<1>11. QED
  BY <1>7, <1>9, <1>10

\* For every table that fits the fields of the file, load_state restores what
\* save_state wrote.
THEOREM WrittenIsRead == \A state \in File : Fits(state) => Restores(state)
<1> SUFFICES ASSUME NEW state \in File, Fits(state) PROVE Restores(state)
  OBVIOUS
<1> DEFINE data == Encode(state)
<1>1. data \in Seq(Nat)
  BY EncodePlaces
<1>2. Cut(data, Len(data)) = data
  <2> HIDE DEF data
  <2>1. QED
    BY <1>1, Beginnings DEF Cut
<1>3. Len(data) \in 0 .. Len(data)
  BY <1>1, LenProperties
<1>4. Decode(Cut(data, Len(data))) = state
  BY <1>3, DecodeCut
<1>5. QED
  BY <1>2, <1>4 DEF Restores

\* And takes no strict beginning of it for a file.
THEOREM TornIsRejected ==
  \A state \in File : Fits(state) => \A data \in Torn(state) : Decode(data) = None
<1> SUFFICES ASSUME NEW state \in File, Fits(state), NEW m \in 0 .. Len(Encode(state)) - 1
             PROVE  Decode(SubSeq(Encode(state), 1, m)) = None
  BY DEF Torn
<1> DEFINE n == Len(Encode(state))
<1>1. n \in Nat
  BY EncodePlaces, LenProperties
<1>2. m \in 0 .. n /\ m # n
  BY <1>1
<1>3. Decode(Cut(Encode(state), m)) = None
  BY <1>2, DecodeCut
<1>4. QED
  BY <1>3 DEF Cut

----------------------------------------------------------------------------
(* The files of the broker.                                                *)

\* Each element of a finite set is listed once.
LEMMA SetListed ==
  ASSUME NEW S, IsFiniteSet(S)
  PROVE  /\ Cardinality(S) \in Nat /\ SetToSeq(S) \in [1 .. Cardinality(S) -> S]
         /\ IsInjective(SetToSeq(S))
<1> DEFINE n == Cardinality(S)
<1>1. n \in Nat /\ ExistsBijection(1 .. n, S)
  BY FS_CardinalityType
<1>2. PICK f : f \in Bijection(1 .. n, S)
  BY <1>1 DEF ExistsBijection
<1>3. f \in [1 .. n -> S] /\ IsInjective(f)
  BY <1>2, Zenon DEF Bijection, Injection
<1> HIDE DEF n
<1>4. SetToSeq(S) \in [1 .. n -> S] /\ IsInjective(SetToSeq(S))
  BY <1>3, Zenon DEF SetToSeq, n
<1>5. QED
  BY <1>1, <1>4 DEF n

\* Bytes are numbers.
LEMMA TextsAreText == ASSUME NEW t \in Texts PROVE t \in Text
<1>1. Len(t) \in Nat /\ DOMAIN t = 1 .. Len(t) /\ t = [i \in 1 .. Len(t) |-> t[i]]
  BY LenProperties DEF Texts
<1>2. \A i \in 1 .. Len(t) : t[i] \in 0 .. 255
  BY ElementOfSeq DEF Texts
<1> DEFINE n == Len(t)
<1> HIDE DEF n
<1>3. \A i \in 1 .. n : t[i] \in Nat
  <2>1. \A b \in 0 .. 255 : b \in Nat
    OBVIOUS
  <2>2. QED
    BY <1>2, <2>1, Zenon DEF n
<1>4. t \in [1 .. n -> Nat]
  BY <1>1, <1>3 DEF n
<1>5. QED
  BY <1>1, <1>4 DEF Text, n

\* What the entries of the tables are saved as.
LEMMA SavedTypes ==
  /\ \A h \in HeldType : Message(h) \in MessageOf
  /\ \A s \in FilterQos : SavedSub(s) \in SubOf
  /\ \A c \in Cid : CidText[c] \in Text
<1>1. ASSUME NEW h \in HeldType PROVE Message(h) \in MessageOf
  <2>1. h.msg \in Msg /\ h.qos \in 0 .. 2
    BY DEF HeldType
  <2>2. TopicText[TopicOf[h.msg]] \in Texts /\ PayloadText[h.msg] \in Texts
    BY <2>1, BrokerAssumption, BrokerFileAssumption
  <2>3. QED
    BY <2>1, <2>2, TextsAreText DEF Message, MessageOf
<1>2. ASSUME NEW s \in FilterQos PROVE SavedSub(s) \in SubOf
  <2>1. s.filter \in Filter /\ s.qos \in 0 .. 2
    BY DEF FilterQos
  <2>2. FilterText[s.filter] \in Texts
    BY <2>1, BrokerFileAssumption
  <2>3. QED
    BY <2>1, <2>2, TextsAreText DEF SavedSub, SubOf
<1>3. ASSUME NEW c \in Cid PROVE CidText[c] \in Text
  <2>1. CidText[c] \in Texts
    BY BrokerFileAssumption
  <2>2. QED
    BY <2>1, TextsAreText
<1>4. QED
  BY <1>1, <1>2, <1>3

\* A session, as saved.
LEMMA SavedSessionType ==
  ASSUME NEW c \in Cid, NEW s \in StoredType
  PROVE  SavedSession(c, s) \in SessionOf
<1>1. s.subs \in Seq(FilterQos) /\ s.offline \in Seq(HeldType)
  BY DEF StoredType
<1>2. Listed(s.subs, SavedSub) \in Seq(SubOf)
  <2> DEFINE es == s.subs
             l == [i \in DOMAIN es |-> SavedSub(es[i])]
  <2>1. Len(es) \in Nat /\ DOMAIN es = 1 .. Len(es) /\ \A i \in 1 .. Len(es) : es[i] \in FilterQos
    BY <1>1, LenProperties, ElementOfSeq
  <2> HIDE DEF es
  <2>2. \A i \in 1 .. Len(es) : SavedSub(es[i]) \in SubOf
    BY <2>1, SavedTypes
  <2>3. l \in Seq(SubOf)
    BY <2>1, <2>2
  <2>4. QED
    BY <2>3 DEF Listed, es
<1>3. Listed(s.offline, Message) \in Seq(MessageOf)
  <2> DEFINE es == s.offline
             l == [i \in DOMAIN es |-> Message(es[i])]
  <2>1. Len(es) \in Nat /\ DOMAIN es = 1 .. Len(es) /\ \A i \in 1 .. Len(es) : es[i] \in HeldType
    BY <1>1, LenProperties, ElementOfSeq
  <2> HIDE DEF es
  <2>2. \A i \in 1 .. Len(es) : Message(es[i]) \in MessageOf
    BY <2>1, SavedTypes
  <2>3. l \in Seq(MessageOf)
    BY <2>1, <2>2
  <2>4. QED
    BY <2>3 DEF Listed, es
<1>4. QED
  BY <1>2, <1>3, SavedTypes DEF SavedSession, SessionOf

\* What is saved is a file.
LEMMA FileOfType == ASSUME NEW state \in StateType PROVE FileOf(state) \in File
<1> DEFINE T == {t \in Topic : state.retained[t].msg # NoMsg}
           C == {c \in Cid : state.sessions[c].stored}
           topics == SetToSeq(T)
           cids == SetToSeq(C)
           r == [i \in DOMAIN topics |-> Message(state.retained[topics[i]])]
           s == [i \in DOMAIN cids |-> SavedSession(cids[i], state.sessions[cids[i]])]
<1>1. IsFiniteSet(T) /\ IsFiniteSet(C)
  BY BrokerAssumption, BrokerFileAssumption, FS_Subset
<1>2. ASSUME NEW t \in T PROVE Message(state.retained[t]) \in MessageOf
  <2>1. state.retained[t] \in HeldType \cup {Held(NoMsg, 0)} /\ state.retained[t].msg # NoMsg
    BY DEF StateType, RetainedType
  <2>2. state.retained[t] \in HeldType
    BY <2>1 DEF Held
  <2>3. QED
    BY <2>2, SavedTypes
<1>3. ASSUME NEW c \in C PROVE SavedSession(c, state.sessions[c]) \in SessionOf
  <2>1. c \in Cid /\ state.sessions[c] \in SessionType /\ state.sessions[c].stored
    BY DEF StateType
  <2>2. state.sessions[c] \in StoredType
    BY <2>1 DEF SessionType, NoSession
  <2>3. QED
    BY <2>1, <2>2, SavedSessionType
<1> HIDE DEF T, C
<1>4. r \in Seq(MessageOf)
  <2>1. Cardinality(T) \in Nat /\ topics \in [1 .. Cardinality(T) -> T]
    BY <1>1, SetListed
  <2> HIDE DEF topics
  <2>2. \A i \in 1 .. Cardinality(T) : Message(state.retained[topics[i]]) \in MessageOf
    BY <1>2, <2>1
  <2>3. QED
    BY <2>1, <2>2
<1>5. s \in Seq(SessionOf)
  <2>1. Cardinality(C) \in Nat /\ cids \in [1 .. Cardinality(C) -> C]
    BY <1>1, SetListed
  <2> HIDE DEF cids
  <2>2. \A i \in 1 .. Cardinality(C) : SavedSession(cids[i], state.sessions[cids[i]]) \in SessionOf
    BY <1>3, <2>1
  <2>3. QED
    BY <2>1, <2>2
<1>6. FileOf(state) = [retained |-> r, sessions |-> s]
  BY DEF FileOf, T, C
<1> HIDE DEF r, s
<1>7. QED
  BY <1>4, <1>5, <1>6 DEF File

\* Lists up to a length are lists.
LEMMA SeqOfIsSeq == ASSUME NEW E, NEW F, E \subseteq F, NEW n, NEW l \in SeqOf(E, n) PROVE l \in Seq(F)
<1>1. PICK k \in 0 .. n : l \in [1 .. k -> E]
  BY DEF SeqOf
<1>2. l \in [1 .. k -> F] /\ k \in Nat
  BY <1>1
<1>3. QED
  BY <1>2

\* And so are the files of the instance.
LEMMA FilesType == Files \subseteq File
<1>1. Messages \subseteq MessageOf
  <2>1. ASSUME NEW m \in Msg, NEW qos \in PUB_QOS \cup {WILL_QOS} PROVE Held(m, qos) \in HeldType
    BY BrokerAssumption DEF Held, HeldType
  <2>2. QED
    BY <2>1, SavedTypes DEF Messages
<1>2. Subs \subseteq SubOf
  <2>1. ASSUME NEW topics \in Requests, NEW s \in ToSet(topics) PROVE s \in FilterQos
    <3>1. topics \in Seq([filter : Filter, qos : 0..2])
      BY BrokerAssumption
    <3>2. PICK i \in DOMAIN topics : s = topics[i]
      BY DEF ToSet
    <3>3. DOMAIN topics = 1 .. Len(topics)
      BY <3>1, LenProperties
    <3>4. QED
      BY <3>1, <3>2, <3>3, ElementOfSeq DEF FilterQos
  <2>2. QED
    BY <2>1, SavedTypes DEF Subs
<1>3. Sessions \subseteq SessionOf
  <2> SUFFICES ASSUME NEW x \in Sessions PROVE x \in SessionOf
    OBVIOUS
  <2>1. PICK t \in {CidText[c] : c \in Cid}, subs \in SeqOf(Subs, MAX_SUBS),
             offline \in SeqOf(Messages, OFFLINE_CAP) : x = <<t, subs, offline>>
    BY DEF Sessions
  <2>2. t \in Text
    BY SavedTypes
  <2>3. subs \in Seq(SubOf)
    BY <1>2, SeqOfIsSeq
  <2>4. offline \in Seq(MessageOf)
    BY <1>1, SeqOfIsSeq
  <2>5. QED
    BY <2>1, <2>2, <2>3, <2>4 DEF SessionOf
<1>4. ASSUME NEW r \in SeqOf(Messages, 1), NEW s \in SeqOf(Sessions, 2)
      PROVE  [retained |-> r, sessions |-> s] \in File
  <2>1. r \in Seq(MessageOf)
    BY <1>1, SeqOfIsSeq
  <2>2. s \in Seq(SessionOf)
    BY <1>3, SeqOfIsSeq
  <2>3. QED
    BY <2>1, <2>2 DEF File
<1>5. QED
  BY <1>4 DEF Files

\* The file in the disk and the one that would be written now.
LEMMA DiskTyped ==
  ASSUME TypeOK
  PROVE  /\ disk # Corrupt => FileOf(disk) \in File
         /\ Running => FileOf(Snapshot(broker)) \in File
<1>1. disk # Corrupt => disk \in StateType
  BY DEF TypeOK
<1>2. Running => Snapshot(broker) \in StateType
  BY DEF TypeOK, BrokerType, StateType, Snapshot
<1>3. QED
  BY <1>1, <1>2, FileOfType

\* Whatever the names, the payloads and the tables are, what save writes
\* load_state restores, unless a length does not fit its field.
THEOREM SavedIsRead == Spec => []FileRestores
<1>1. TypeOK => FileRestores
  <2>1. \A f \in File : RestoresIfFits(f)
    BY WrittenIsRead DEF RestoresIfFits
  <2>2. AllRestore
    BY <2>1, FilesType DEF AllRestore
  <2>3. ASSUME TypeOK, disk # Corrupt PROVE RestoresIfFits(FileOf(disk))
    BY <2>1, <2>3, DiskTyped
  <2>4. QED
    BY <2>2, <2>3 DEF FileRestores
<1>2. QED
  BY <1>1, BrokerTypes, PTL

\* And what a crash leaves of it is not taken for a file.
THEOREM TornIsNoFile == Spec => []TornFileRejected
<1>1. TypeOK => TornFileRejected
  <2>1. \A f \in File : RejectsTorn(f)
    BY TornIsRejected DEF RejectsTorn
  <2>2. QED
    BY <2>1, DiskTyped DEF TornFileRejected
<1>2. QED
  BY <1>1, BrokerTypes, PTL
=============================================================================
