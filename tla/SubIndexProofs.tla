---------------------------- MODULE SubIndexProofs ----------------------------
(***************************************************************************)
(* The subscription table and the two tiers of its index, for any filters, *)
(* topics and connections: the tiers hold every position of the table once *)
(* and at the node of its filter, their lookups miss no filter that        *)
(* topic_matches accepts, and what publish prunes is what failed.          *)
(***************************************************************************)
EXTENDS SubIndex, VectorProofs

----------------------------------------------------------------------------
(* The trie.                                                               *)

\* The first "#" of a filter ends its node.
LEMMA FirstHash ==
  ASSUME NEW L, NEW f \in Seq(L), NEW i \in 1 .. Len(f), f[i] = Hash,
         \A j \in 1 .. i - 1 : f[j] # Hash
  PROVE  Node(f) = [path |-> SubSeq(f, 1, i - 1), hash |-> TRUE]
<1> DEFINE I == {k \in 1 .. Len(f) : f[k] = Hash}
<1>1. Len(f) \in Nat /\ DOMAIN f = 1 .. Len(f)
  BY LenProperties
<1>2. i \in I /\ \A k \in I : i <= k
  BY <1>1
<1>3. \A k \in I : (\A j \in I : k <= j) => k = i
  BY <1>1, <1>2
<1>4. I # {} /\ Min(I) = i
  <2>1. I # {}
    BY <1>2
  <2>2. Min(I) = i
    BY <1>2, <1>3 DEF Min
  <2>3. QED
    BY <2>1, <2>2
<1>5. SelectInSeq(f, LAMBDA l : l = Hash) = i
  BY <1>4 DEF SelectInSeq
<1>6. Contains(f, Hash)
  BY <1>2 DEF Contains
<1>7. QED
  BY <1>5, <1>6 DEF Node

\* The walk of collect down the levels of a topic comes by the node of every
\* filter with a wildcard that topic_matches accepts, and a filter without one
\* that it accepts is the topic itself, the key of subs_exact.  The index thus
\* proposes every subscription the flat scan would find; topic_matches then
\* rejects the rest.
THEOREM IndexMissesNothing ==
  ASSUME NEW L, NEW f \in Seq(L), NEW t \in Seq(L), TopicMatches(f, t)
  PROVE  IF Wild(f) THEN Collected(t, Node(f)) ELSE Node(f).path = t
<1>1. Len(f) \in Nat /\ Len(t) \in Nat /\ DOMAIN f = 1 .. Len(f) /\ DOMAIN t = 1 .. Len(t)
  BY LenProperties
<1>2. ASSUME NEW i \in DOMAIN f, f[i] = Hash, Fits(f, t, i - 1)
      PROVE  Wild(f) /\ Collected(t, Node(f))
  <2> DEFINE p == SubSeq(f, 1, i - 1)
  <2>1. i - 1 \in 0 .. Len(f) /\ \A j \in 1 .. i - 1 : f[j] # Hash
    BY <1>1, <1>2 DEF Fits
  <2>2. Node(f) = [path |-> p, hash |-> TRUE]
    BY <1>1, <1>2, <2>1, FirstHash
  <2>3. Len(p) = i - 1 /\ DOMAIN p = 1 .. i - 1 /\ \A j \in 1 .. i - 1 : p[j] = f[j]
    <3>1. p \in Seq(L) /\ Len(p) = i - 1 /\ \A j \in 1 .. i - 1 : p[j] = f[1 + j - 1]
      BY <1>1, <2>1, SubSeqProperties
    <3>2. QED
      BY <1>1, <1>2, <3>1, LenProperties
  <2> HIDE DEF p
  <2>4. Collected(t, Node(f))
    BY <1>2, <2>2, <2>3 DEF Collected, Visits, Fits
  <2>5. Wild(f)
    BY <1>2, SubIndexAssumption DEF Wild, Hash
  <2>6. QED
    BY <2>4, <2>5
<1>3. ASSUME Len(f) = Len(t), Fits(f, t, Len(f))
      PROVE  IF Wild(f) THEN Collected(t, Node(f)) ELSE Node(f).path = t
  <2>1. Node(f) = [path |-> f, hash |-> FALSE]
    BY <1>1, <1>3 DEF Node, Contains, Fits
  <2>2. Collected(t, Node(f))
    BY <1>1, <1>3, <2>1 DEF Collected, Visits, Fits
  <2>3. ASSUME ~Wild(f) PROVE f = t
    <3>1. \A j \in 1 .. Len(f) : f[j] = t[j]
      BY <1>1, <1>3, <2>3, SubIndexAssumption DEF Wild, Fits, Plus
    <3>2. QED
      BY <1>3, <3>1, SeqEqual
  <2>4. QED
    BY <2>1, <2>2, <2>3
<1>4. QED
  BY <1>2, <1>3 DEF TopicMatches

----------------------------------------------------------------------------
(* The inductive invariant.                                                *)

SubType == [filter : Filter, token : Token]

\* What a tier may hold: positions of filters of its kind, at their nodes.
Entries(table, wild) ==
  {Indexed(i, table[i].filter) : i \in {i \in 1 .. Len(table) : Wild(table[i].filter) <=> wild}}

\* It holds each of them, and once.
Tier(tier, table, wild) ==
  /\ tier \in Seq(Entries(table, wild))
  /\ \A i \in 1 .. Len(table) :
       (Wild(table[i].filter) <=> wild) => \E p \in 1 .. Len(tier) : tier[p].idx = i
  /\ \A p, q \in 1 .. Len(tier) : tier[p].idx = tier[q].idx => p = q

IndexOK ==
  /\ subs \in Seq(SubType) /\ Len(subs) <= MAX_SUBS
  /\ Tier(subs_exact, subs, FALSE) /\ Tier(subs_wild, subs, TRUE)

----------------------------------------------------------------------------
(* rebuild_index.                                                          *)

\* Filtering the entries of all positions makes a tier.
LEMMA TierRebuilt ==
  ASSUME NEW table \in Seq(SubType), NEW wild \in BOOLEAN, NEW S,
         \A i \in 1 .. Len(table) :
           Indexed(i, table[i].filter) \in S <=> (Wild(table[i].filter) <=> wild)
  PROVE  Tier(Only([i \in DOMAIN table |-> Indexed(i, table[i].filter)], S), table, wild)
<1> DEFINE n == Len(table)
           all == [i \in DOMAIN table |-> Indexed(i, table[i].filter)]
           A == {Indexed(i, table[i].filter) : i \in 1 .. n}
           tier == Only(all, S)
<1>1. n \in Nat /\ DOMAIN table = 1 .. n
  BY LenProperties
<1>2. all \in Seq(A) /\ Len(all) = n /\ \A i \in 1 .. n : all[i] = Indexed(i, table[i].filter)
  <2>1. all \in [1 .. n -> A]
    BY <1>1
  <2>2. all \in Seq(A)
    BY <1>1, <2>1
  <2>3. QED
    BY <1>1, <2>2, LenProperties
<1>3. \A i \in 1 .. n : all[i].idx = i
  BY <1>2 DEF Indexed
<1> HIDE DEF all
<1>4. tier \in Seq(A \cap S)
  BY <1>2, OnlyType
<1>5. A \cap S \subseteq Entries(table, wild)
  BY DEF Entries
<1>6. tier \in Seq(Entries(table, wild))
  BY <1>4, <1>5
<1>7. ASSUME NEW i \in 1 .. n, Wild(table[i].filter) <=> wild
      PROVE  \E p \in 1 .. Len(tier) : tier[p].idx = i
  <2>1. i \in 1 .. Len(all) /\ all[i] \in S
    BY <1>2, <1>7
  <2>2. \E p \in 1 .. Len(tier) : tier[p] = all[i]
    BY <1>2, <2>1, OnlyMembers, Zenon
  <2>3. QED
    BY <1>3, <2>2
<1>8. \A p, q \in 1 .. Len(tier) : tier[p] = tier[q] => p = q
  <2>1. \A i, j \in 1 .. Len(all) : all[i] = all[j] => i = j
    BY <1>2, <1>3
  <2>2. QED
    BY <1>2, <2>1, OnlyDistinct, Zenon
<1>9. \A e, f \in A : e.idx = f.idx => e = f
  BY DEF Indexed
<1>10. \A p \in 1 .. Len(tier) : tier[p] \in A
  BY <1>4, ElementOfSeq
<1> HIDE DEF tier, A
<1>11. \A p, q \in 1 .. Len(tier) : tier[p].idx = tier[q].idx => p = q
  BY <1>8, <1>9, <1>10
<1>12. QED
  BY <1>6, <1>7, <1>11 DEF Tier, tier, all, n

\* A table within the bound and its rebuilt index are in order.
LEMMA Rebuilt ==
  ASSUME NEW table \in Seq(SubType), Len(table) <= MAX_SUBS, Becomes(table)
  PROVE  IndexOK'
<1> DEFINE n == Len(table)
           all == [i \in DOMAIN table |-> Indexed(i, table[i].filter)]
           wild == {e \in ToSet(all) : Wild(table[e.idx].filter)}
<1>1. n \in Nat /\ DOMAIN table = 1 .. n
  BY LenProperties
<1>2. \A i \in 1 .. n : all[i] = Indexed(i, table[i].filter) /\ all[i] \in ToSet(all)
  BY <1>1 DEF ToSet
<1>3. \A i \in 1 .. n : Indexed(i, table[i].filter).idx = i
  BY DEF Indexed
<1>4. \A i \in 1 .. n : Indexed(i, table[i].filter) \in wild <=> Wild(table[i].filter)
  BY <1>2, <1>3
<1>5. \A i \in 1 .. n :
        Indexed(i, table[i].filter) \in ToSet(all) \ wild <=> ~Wild(table[i].filter)
  BY <1>2, <1>4
<1>6. subs' = table /\ subs_exact' = Only(all, ToSet(all) \ wild) /\ subs_wild' = Only(all, wild)
  BY DEF Becomes, RebuildIndex
<1> HIDE DEF wild
<1>7. Tier(Only(all, wild), table, TRUE)
  BY <1>4, TierRebuilt
<1>8. Tier(Only(all, ToSet(all) \ wild), table, FALSE)
  BY <1>5, TierRebuilt
<1> HIDE DEF all
<1>9. QED
  BY <1>6, <1>7, <1>8 DEF IndexOK

----------------------------------------------------------------------------
(* The steps.                                                              *)

\* add_sub pushes the new position into the tier of its kind.
LEMMA TierExtended ==
  ASSUME NEW table \in Seq(SubType), NEW sub \in SubType, NEW wild \in BOOLEAN,
         NEW tier, Tier(tier, table, wild)
  PROVE  Tier(IF Wild(sub.filter) <=> wild
              THEN Append(tier, Indexed(Len(table) + 1, sub.filter)) ELSE tier,
              Append(table, sub), wild)
<1> DEFINE n == Len(table)
           more == Append(table, sub)
           E == Entries(more, wild)
           new == Indexed(n + 1, sub.filter)
           kind(i) == Wild(more[i].filter) <=> wild
<1>1. /\ n \in Nat /\ Len(more) = n + 1 /\ more[n + 1] = sub
      /\ \A i \in 1 .. n : more[i] = table[i]
  BY LenProperties, AppendProperties
<1> HIDE DEF more
<1>2. \A i \in 1 .. n : i \in 1 .. n + 1
  BY <1>1
<1>3. Entries(table, wild) \subseteq E
  BY <1>1, <1>2 DEF Entries
<1>4. tier \in Seq(E) /\ Len(tier) \in Nat
  BY <1>3, LenProperties DEF Tier
<1>5. \A p \in 1 .. Len(tier) : tier[p].idx \in 1 .. n
  <2>1. \A e \in Entries(table, wild) : e.idx \in 1 .. n
    BY DEF Entries, Indexed
  <2>2. QED
    BY <2>1, ElementOfSeq DEF Tier
<1>6. CASE ~kind(n + 1)
  <2>1. \A i \in 1 .. n + 1 : kind(i) => i \in 1 .. n /\ (Wild(table[i].filter) <=> wild)
    <3>1. \A i \in 1 .. n + 1 : i = n + 1 \/ i \in 1 .. n
      BY <1>1
    <3>2. QED
      BY <1>1, <1>6, <3>1
  <2>2. Tier(tier, more, wild)
    BY <1>1, <1>4, <2>1 DEF Tier
  <2>3. QED
    BY <1>1, <1>6, <2>2 DEF more
<1>7. CASE kind(n + 1)
  <2> DEFINE t == Append(tier, new)
  <2>1. new \in E /\ new.idx = n + 1
    BY <1>1, <1>7 DEF Entries, Indexed
  <2> HIDE DEF new, E
  <2>2. /\ t \in Seq(E) /\ Len(t) = Len(tier) + 1 /\ t[Len(tier) + 1] = new
        /\ \A p \in 1 .. Len(tier) : t[p] = tier[p]
    BY <1>4, <2>1, AppendProperties
  <2> HIDE DEF t
  <2>3. ASSUME NEW i \in 1 .. n + 1, kind(i)
        PROVE  \E p \in 1 .. Len(t) : t[p].idx = i
    <3>1. CASE i = n + 1
      BY <1>4, <2>1, <2>2, <3>1
    <3>2. CASE i # n + 1
      <4>1. i \in 1 .. n /\ (Wild(table[i].filter) <=> wild)
        BY <1>1, <2>3, <3>2
      <4>2. PICK p \in 1 .. Len(tier) : tier[p].idx = i
        BY <4>1 DEF Tier
      <4>3. p \in 1 .. Len(t) /\ t[p].idx = i
        BY <1>4, <2>2, <4>2
      <4>4. QED
        BY <4>3
    <3>3. QED
      BY <3>1, <3>2
  <2>4. \A p \in 1 .. Len(t) : p \in 1 .. Len(tier) \/ (p = Len(tier) + 1 /\ t[p].idx = n + 1)
    BY <1>4, <2>1, <2>2
  <2>5. \A p \in 1 .. Len(tier) : t[p].idx \in 1 .. n /\ t[p].idx # n + 1
    BY <1>1, <1>5, <2>2
  <2>6. \A p, q \in 1 .. Len(tier) : t[p].idx = t[q].idx => p = q
    BY <2>2 DEF Tier
  <2>7. \A p, q \in 1 .. Len(t) : t[p].idx = t[q].idx => p = q
    BY <2>4, <2>5, <2>6
  <2>8. Tier(t, more, wild)
    BY <1>1, <2>2, <2>3, <2>7 DEF Tier, E
  <2>9. QED
    BY <1>1, <1>7, <2>8 DEF t, new, more
<1>8. QED
  BY <1>6, <1>7

LEMMA AddSubOK ==
  ASSUME IndexOK, NEW token \in Token, NEW f \in Filter, AddSub(token, f)
  PROVE  IndexOK'
<1> DEFINE sub == Sub(f, token)
           n == Len(subs)
           e == Indexed(n + 1, f)
<1>1. sub \in SubType /\ sub.filter = f
  BY DEF Sub, SubType
<1>2. subs \in Seq(SubType) /\ n \in Nat
  BY LenProperties DEF IndexOK
<1> HIDE DEF sub
<1>3. Tier(IF Wild(f) <=> TRUE THEN Append(subs_wild, e) ELSE subs_wild,
           Append(subs, sub), TRUE)
  BY <1>1, <1>2, TierExtended, Zenon DEF IndexOK
<1>4. Tier(IF Wild(f) <=> FALSE THEN Append(subs_exact, e) ELSE subs_exact,
           Append(subs, sub), FALSE)
  BY <1>1, <1>2, TierExtended, Zenon DEF IndexOK
<1>5. /\ subs' = Append(subs, sub) /\ Len(subs) < MAX_SUBS
      /\ subs_wild' = IF Wild(f) <=> TRUE THEN Append(subs_wild, e) ELSE subs_wild
      /\ subs_exact' = IF Wild(f) <=> FALSE THEN Append(subs_exact, e) ELSE subs_exact
  BY DEF AddSub, sub
<1>6. subs' \in Seq(SubType) /\ Len(subs') <= MAX_SUBS
  BY <1>1, <1>2, <1>5, AppendProperties, SubIndexAssumption
<1>7. Tier(subs_wild', subs', TRUE) /\ Tier(subs_exact', subs', FALSE)
  BY <1>3, <1>4, <1>5, Zenon
<1>8. QED
  BY <1>6, <1>7 DEF IndexOK

\* retain leaves no more subscriptions than there were.
LEMMA RetainOK ==
  ASSUME IndexOK, NEW S, Becomes(Only(subs, S))
  PROVE  IndexOK'
<1>1. subs \in Seq(SubType) /\ Len(subs) \in Nat /\ Len(subs) <= MAX_SUBS
  BY LenProperties DEF IndexOK
<1> DEFINE r == Only(subs, S)
<1>2. r \in Seq(SubType \cap S) /\ Len(r) <= Len(subs)
  BY <1>1, OnlyType
<1> HIDE DEF r
<1>3. r \in Seq(SubType) /\ Len(r) <= MAX_SUBS
  <2>1. r \in Seq(SubType) /\ Len(r) \in Nat
    BY <1>2, LenProperties
  <2>2. QED
    BY <1>1, <1>2, <2>1, SubIndexAssumption
<1>4. QED
  BY <1>3, Rebuilt DEF r

\* Whatever was found is in the table.
LEMMA CandidatesInTable ==
  ASSUME IndexOK, NEW topic
  PROVE  Candidates(topic) \subseteq 1 .. Len(subs)
<1>1. \A wild \in BOOLEAN : \A e \in Entries(subs, wild) : e.idx \in 1 .. Len(subs)
  BY DEF Entries, Indexed
<1>2. \A p \in DOMAIN subs_exact : subs_exact[p].idx \in 1 .. Len(subs)
  <2>1. subs_exact \in Seq(Entries(subs, FALSE))
    BY DEF IndexOK, Tier
  <2>2. QED
    BY <1>1, <2>1, LenProperties, ElementOfSeq
<1>3. \A p \in DOMAIN subs_wild : subs_wild[p].idx \in 1 .. Len(subs)
  <2>1. subs_wild \in Seq(Entries(subs, TRUE))
    BY DEF IndexOK, Tier
  <2>2. QED
    BY <1>1, <2>1, LenProperties, ElementOfSeq
<1>4. QED
  BY <1>2, <1>3 DEF Candidates

LEMMA PruneOK ==
  ASSUME IndexOK, NEW topic \in Topic, NEW gone \in SUBSET Token, Prune(topic, gone)
  PROVE  IndexOK'
<1> DEFINE idxs == {i \in Candidates(topic) : Hits(topic, i) > 0}
           failed == {i \in idxs : subs[i].token \in gone}
           r == SwapRemoveAll(subs, failed)
<1>1. subs \in Seq(SubType) /\ Len(subs) \in Nat /\ Len(subs) <= MAX_SUBS
  BY LenProperties DEF IndexOK
<1>2. failed \subseteq 1 .. Len(subs)
  BY CandidatesInTable
<1>3. Becomes(r)
  BY DEF Prune
<1> HIDE DEF failed
<1>4. Left(r, subs, failed, {}, SubType)
  BY <1>1, <1>2, RemovalExact
<1> HIDE DEF r
<1>5. r \in Seq(SubType) /\ Len(r) <= MAX_SUBS
  <2>1. r \in Seq(SubType) /\ Len(r) <= Len(subs) /\ Len(r) \in Nat
    BY <1>4, LenProperties DEF Left
  <2>2. QED
    BY <1>1, <2>1, SubIndexAssumption
<1>6. QED
  BY <1>3, <1>5, Rebuilt

\* The tiers hold every position of the table once, at the node of its filter, in
\* every state of the broker.
THEOREM IndexInOrder == Spec => []IndexOK
<1>1. Init => IndexOK
  <2> SUFFICES ASSUME Init PROVE IndexOK
    OBVIOUS
  <2>1. <<>> \in Seq(SubType) /\ \A S : <<>> \in Seq(S)
    OBVIOUS
  <2>2. Len(<<>>) = 0 /\ 1 .. 0 = {}
    OBVIOUS
  <2>3. \A wild \in BOOLEAN : Tier(<<>>, <<>>, wild)
    BY <2>1, <2>2 DEF Tier
  <2>4. Tier(subs_exact, subs, FALSE) /\ Tier(subs_wild, subs, TRUE)
    BY <2>3, Zenon DEF Init
  <2>5. subs \in Seq(SubType) /\ Len(subs) = 0
    BY <2>1, <2>2 DEF Init
  <2>6. 0 <= MAX_SUBS
    BY SubIndexAssumption
  <2>7. QED
    BY <2>4, <2>5, <2>6 DEF IndexOK
<1>2. IndexOK /\ [Next]_vars => IndexOK'
  <2> SUFFICES ASSUME IndexOK, [Next]_vars PROVE IndexOK'
    OBVIOUS
  <2>1. CASE UNCHANGED vars
    BY <2>1 DEF vars, IndexOK
  <2>2. ASSUME NEW token \in Token, NEW f \in Filter, AddSub(token, f) PROVE IndexOK'
    BY <2>2, AddSubOK
  <2>3. ASSUME NEW token \in Token, NEW f \in Filter, Unsubscribe(token, f) PROVE IndexOK'
    BY <2>3, RetainOK DEF Unsubscribe
  <2>4. ASSUME NEW token \in Token, RemoveClient(token) PROVE IndexOK'
    BY <2>4, RetainOK DEF RemoveClient
  <2>5. ASSUME NEW topic \in Topic, NEW gone \in SUBSET Token, Prune(topic, gone)
        PROVE  IndexOK'
    BY <2>5, PruneOK
  <2>6. QED
    BY <2>1, <2>2, <2>3, <2>4, <2>5 DEF Next
<1>3. QED
  BY <1>1, <1>2, PTL DEF Spec

----------------------------------------------------------------------------
(* Types.                                                                  *)

\* Among the positions with a property there is a lowest.
LEMMA LeastPosition ==
  ASSUME NEW n \in Nat, NEW I \in SUBSET (1 .. n), I # {}
  PROVE  \E i \in I : \A j \in I : i <= j
<1> DEFINE R == OpToRel(<, Nat)
<1>1. IsWellFoundedOn(R, Nat)
  BY NatLessThanWellFounded
<1>2. I \subseteq Nat
  OBVIOUS
<1>3. \A y, x \in Nat : y < x => <<y, x>> \in R
  BY DEF OpToRel
<1> HIDE DEF R
<1>4. PICK i \in I : \A j \in I : ~(<<j, i>> \in R)
  BY <1>1, <1>2, WFMin
<1>5. \A j \in I : ~(j < i)
  BY <1>2, <1>3, <1>4
<1>6. QED
  BY <1>2, <1>5

\* The node of a filter is one of the trie, which has none for "#".
LEMMA NodeType ==
  ASSUME NEW L, NEW f \in Seq(L)
  PROVE  Node(f).path \in Seq(L \ {Hash}) /\ Node(f).hash \in BOOLEAN
<1>1. Len(f) \in Nat /\ DOMAIN f = 1 .. Len(f) /\ \A j \in 1 .. Len(f) : f[j] \in L
  BY LenProperties, ElementOfSeq
<1>2. CASE \E i \in 1 .. Len(f) : f[i] = Hash
  <2> DEFINE I == {i \in 1 .. Len(f) : f[i] = Hash}
  <2>1. PICK i \in I : \A j \in I : i <= j
    BY <1>1, <1>2, LeastPosition
  <2>2. i \in 1 .. Len(f) /\ f[i] = Hash /\ \A j \in 1 .. i - 1 : f[j] # Hash
    BY <1>1, <2>1
  <2>3. Node(f) = [path |-> SubSeq(f, 1, i - 1), hash |-> TRUE]
    BY <2>2, FirstHash
  <2> DEFINE p == SubSeq(f, 1, i - 1)
  <2>4. p \in Seq(L) /\ Len(p) = i - 1 /\ \A j \in 1 .. i - 1 : p[j] = f[1 + j - 1]
    BY <1>1, <2>2, SubSeqProperties
  <2> HIDE DEF p
  <2>5. \A j \in 1 .. Len(p) : p[j] \in L \ {Hash}
    BY <1>1, <2>2, <2>4
  <2>6. p \in Seq(L \ {Hash})
    <3>1. p \in [1 .. Len(p) -> L \ {Hash}] /\ Len(p) \in Nat
      BY <2>4, <2>5, LenProperties
    <3>2. QED
      BY <3>1
  <2>7. QED
    BY <2>3, <2>6 DEF p
<1>3. CASE \A i \in 1 .. Len(f) : f[i] # Hash
  <2>1. Node(f) = [path |-> f, hash |-> FALSE]
    BY <1>1, <1>3 DEF Node, Contains
  <2>2. f \in [1 .. Len(f) -> L \ {Hash}]
    BY <1>1, <1>3
  <2>3. f \in Seq(L \ {Hash})
    BY <1>1, <2>2
  <2>4. QED
    BY <2>1, <2>3
<1>4. QED
  BY <1>2, <1>3

\* The type invariant of the table and its index.
THEOREM IndexTypes == Spec => []TypeOK
<1>1. IndexOK => TypeOK
  <2> SUFFICES ASSUME IndexOK PROVE TypeOK
    OBVIOUS
  <2>1. subs \in Seq(SubType) /\ Len(subs) \in Nat /\ Len(subs) <= MAX_SUBS /\ MAX_SUBS \in Nat
    <3>1. subs \in Seq(SubType) /\ Len(subs) <= MAX_SUBS
      BY DEF IndexOK
    <3>2. QED
      BY <3>1, LenProperties, SubIndexAssumption
  <2>2. \A i \in 1 .. Len(subs) : subs[i].filter \in Filter
    <3>1. \A i \in 1 .. Len(subs) : subs[i] \in SubType
      BY <2>1, ElementOfSeq
    <3>2. QED
      BY <3>1 DEF SubType
  <2>3. \A f \in Filter : f \in Seq(Level)
    <3>1. ASSUME NEW f \in Filter PROVE f \in Seq(Level)
      <4>1. f \in Seq(ToSet(f)) /\ ToSet(f) \subseteq Level
        BY SubIndexAssumption DEF Level
      <4>2. QED
        BY <4>1
    <3>2. QED
      BY <3>1
  <2> DEFINE Typed(e) == /\ e.idx \in 1 .. MAX_SUBS
                         /\ e.node.path \in Seq(Level \ {Hash}) /\ e.node.hash \in BOOLEAN
  <2>4. ASSUME NEW i \in 1 .. Len(subs) PROVE Typed(Indexed(i, subs[i].filter))
    <3>1. Node(subs[i].filter).path \in Seq(Level \ {Hash}) /\ Node(subs[i].filter).hash \in BOOLEAN
      BY <2>2, <2>3, NodeType
    <3>2. i \in 1 .. MAX_SUBS
      BY <2>1
    <3>3. QED
      BY <3>1, <3>2 DEF Indexed
  <2> HIDE DEF Typed
  <2>5. \A wild \in BOOLEAN : \A e \in Entries(subs, wild) : Typed(e)
    BY <2>4 DEF Entries
  <2>6. ASSUME NEW tier, NEW wild \in BOOLEAN, Tier(tier, subs, wild)
        PROVE  \A e \in ToSet(tier) : Typed(e)
    <3>1. tier \in Seq(Entries(subs, wild))
      BY <2>6 DEF Tier
    <3>2. \A p \in DOMAIN tier : tier[p] \in Entries(subs, wild)
      BY <3>1, LenProperties, ElementOfSeq
    <3>3. QED
      BY <2>5, <3>2 DEF ToSet
  <2>7. (\A e \in ToSet(subs_exact) : Typed(e)) /\ \A e \in ToSet(subs_wild) : Typed(e)
    BY <2>6 DEF IndexOK
  <2>8. QED
    BY <2>1, <2>7 DEF TypeOK, Typed, SubType
<1>2. QED
  BY <1>1, IndexInOrder, PTL

----------------------------------------------------------------------------
(* What publish finds.                                                     *)

\* Of a tier without repetitions at most one place holds a given position: it is
\* found once if the lookup accepts its node, or not at all.
Places(tier, i) == {p \in DOMAIN tier : tier[p].idx = i}

LEMMA FoundOnce ==
  ASSUME NEW tier, NEW wild \in BOOLEAN, Tier(tier, subs, wild), NEW i \in 1 .. Len(subs)
  PROVE  IF Wild(subs[i].filter) <=> wild
         THEN \E p \in DOMAIN tier :
                Places(tier, i) = {p} /\ tier[p] = Indexed(i, subs[i].filter)
         ELSE Places(tier, i) = {}
<1> DEFINE P == Places(tier, i)
<1>0. P = {p \in DOMAIN tier : tier[p].idx = i}
  BY DEF Places
<1> HIDE DEF P
<1>1. DOMAIN tier = 1 .. Len(tier)
  BY LenProperties DEF Tier
<1>2. ASSUME NEW p \in P
      PROVE  /\ p \in DOMAIN tier /\ tier[p] = Indexed(i, subs[i].filter)
             /\ Wild(subs[i].filter) <=> wild
  <2>1. p \in 1 .. Len(tier) /\ tier[p].idx = i
    BY <1>0, <1>1, <1>2
  <2>2. tier[p] \in Entries(subs, wild)
    BY <2>1, ElementOfSeq DEF Tier
  <2>3. PICK j \in 1 .. Len(subs) :
          tier[p] = Indexed(j, subs[j].filter) /\ (Wild(subs[j].filter) <=> wild)
    BY <2>2 DEF Entries
  <2>4. j = i
    BY <2>1, <2>3 DEF Indexed
  <2>5. QED
    BY <1>1, <2>1, <2>3, <2>4
<1>3. CASE Wild(subs[i].filter) <=> wild
  <2>1. PICK p \in 1 .. Len(tier) : tier[p].idx = i
    BY <1>3 DEF Tier
  <2>2. \A q \in P : q = p
    BY <1>0, <1>1, <2>1 DEF Tier
  <2>3. p \in P /\ p \in DOMAIN tier
    BY <1>0, <1>1, <2>1
  <2>4. P = {p}
    BY <2>2, <2>3
  <2>5. tier[p] = Indexed(i, subs[i].filter)
    BY <1>2, <2>3
  <2>6. QED
    BY <1>3, <2>3, <2>4, <2>5 DEF P
<1>4. CASE ~(Wild(subs[i].filter) <=> wild)
  BY <1>2, <1>4 DEF P
<1>5. QED
  BY <1>3, <1>4 DEF P

\* The two lookups together come upon a subscription once if its filter matches.
LEMMA HitsExact ==
  ASSUME IndexOK, NEW topic \in Topic, NEW i \in 1 .. Len(subs)
  PROVE  Hits(topic, i) = IF TopicMatches(subs[i].filter, topic) THEN 1 ELSE 0
<1> DEFINE f == subs[i].filter
           m == TopicMatches(f, topic)
           Pe == Places(subs_exact, i)
           Pw == Places(subs_wild, i)
           exact == {p \in DOMAIN subs_exact :
                       subs_exact[p].node.path = topic /\ subs_exact[p].idx = i /\ m}
           wild == {p \in DOMAIN subs_wild :
                      Collected(topic, subs_wild[p].node) /\ subs_wild[p].idx = i /\ m}
<1>0. Tier(subs_exact, subs, FALSE) /\ Tier(subs_wild, subs, TRUE)
  BY DEF IndexOK
<1>1. IF Wild(f) <=> FALSE
      THEN \E p \in DOMAIN subs_exact : Pe = {p} /\ subs_exact[p] = Indexed(i, f)
      ELSE Pe = {}
  BY <1>0, FoundOnce, Zenon
<1>2. IF Wild(f) <=> TRUE
      THEN \E p \in DOMAIN subs_wild : Pw = {p} /\ subs_wild[p] = Indexed(i, f)
      ELSE Pw = {}
  BY <1>0, FoundOnce, Zenon
<1>3. m => IF Wild(f) THEN Collected(topic, Node(f)) ELSE Node(f).path = topic
  <2> DEFINE L == ToSet(f) \cup ToSet(topic)
  <2>1. f \in Filter
    <3>1. subs \in Seq(SubType)
      BY DEF IndexOK
    <3>2. subs[i] \in SubType
      BY <3>1, ElementOfSeq
    <3>3. QED
      BY <3>2 DEF SubType
  <2>2. f \in Seq(ToSet(f)) /\ topic \in Seq(ToSet(topic))
    BY <2>1, SubIndexAssumption
  <2>3. f \in Seq(L) /\ topic \in Seq(L)
    BY <2>2
  <2>4. QED
    BY <2>3, IndexMissesNothing
<1>4. Indexed(i, f).node = Node(f) /\ Indexed(i, f).idx = i
  BY DEF Indexed
<1>5. exact \subseteq Pe /\ wild \subseteq Pw
  BY DEF Places
<1>6. \A p \in Pe : p \in exact <=> m /\ subs_exact[p].node.path = topic
  BY DEF Places
<1>7. \A p \in Pw : p \in wild <=> m /\ Collected(topic, subs_wild[p].node)
  BY DEF Places
<1>8. Hits(topic, i) = Cardinality(exact) + Cardinality(wild)
  BY DEF Hits
<1> HIDE DEF m, f, Pe, Pw, exact, wild
<1>9. Cardinality({}) = 0 /\ \A p : Cardinality({p}) = 1
  BY FS_EmptySet, FS_Singleton
<1>10. Cardinality(exact) + Cardinality(wild) = IF m THEN 1 ELSE 0
  <2>1. CASE ~m
    <3>1. exact = {} /\ wild = {}
      BY <1>5, <1>6, <1>7, <2>1
    <3>2. QED
      BY <1>9, <2>1, <3>1
  <2>2. CASE m /\ Wild(f)
    <3>1. exact = {}
      BY <1>1, <1>5, <2>2
    <3>2. \E p : wild = {p}
      BY <1>2, <1>3, <1>4, <1>5, <1>7, <2>2
    <3>3. Cardinality(exact) = 0 /\ Cardinality(wild) = 1
      BY <1>9, <3>1, <3>2, Zenon
    <3>4. QED
      BY <2>2, <3>3
  <2>3. CASE m /\ ~Wild(f)
    <3>1. wild = {}
      BY <1>2, <1>5, <2>3
    <3>2. \E p : exact = {p}
      BY <1>1, <1>3, <1>4, <1>5, <1>6, <2>3
    <3>3. Cardinality(wild) = 0 /\ Cardinality(exact) = 1
      BY <1>9, <3>1, <3>2, Zenon
    <3>4. QED
      BY <2>3, <3>3
  <2>4. QED
    BY <2>1, <2>2, <2>3
<1>11. QED
  BY <1>8, <1>10 DEF m, f

\* For every topic the index finds exactly what the flat scan would find, each
\* subscription once, and no position outside the table.
THEOREM IndexIsScan == Spec => []IndexAgreesWithScan
<1>1. IndexOK => IndexAgreesWithScan
  <2> SUFFICES ASSUME IndexOK PROVE IndexAgreesWithScan
    OBVIOUS
  <2>1. DOMAIN subs = 1 .. Len(subs)
    BY LenProperties DEF IndexOK
  <2>2. QED
    BY <2>1, CandidatesInTable, HitsExact DEF IndexAgreesWithScan
<1>2. QED
  BY <1>1, IndexInOrder, PTL

----------------------------------------------------------------------------
(* What publish prunes.                                                    *)

Count(table, s) == Cardinality({i \in DOMAIN table : table[i] = s})
Stays(s, topic, gone) == ~(s.token \in gone /\ TopicMatches(s.filter, topic))

Failed(topic, gone) ==
  {i \in {i \in Candidates(topic) : Hits(topic, i) > 0} : subs[i].token \in gone}

\* The positions that are pruned are those of the failed subscriptions.
LEMMA PrunedPositions ==
  ASSUME IndexOK, NEW topic \in Topic, NEW gone
  PROVE  Failed(topic, gone) = {i \in 1 .. Len(subs) : ~Stays(subs[i], topic, gone)}
<1>1. \A i \in Candidates(topic) : i \in 1 .. Len(subs)
  BY CandidatesInTable
<1>2. \A i \in 1 .. Len(subs) : Hits(topic, i) > 0 <=> TopicMatches(subs[i].filter, topic)
  <2>1. ASSUME NEW i \in 1 .. Len(subs)
        PROVE  Hits(topic, i) > 0 <=> TopicMatches(subs[i].filter, topic)
    BY HitsExact
  <2>2. QED
    BY <2>1
<1>3. ASSUME NEW i \in 1 .. Len(subs), i \notin Candidates(topic)
      PROVE  Hits(topic, i) = 0
  <2> DEFINE exact == {p \in DOMAIN subs_exact :
                         subs_exact[p].node.path = topic
                         /\ (subs_exact[p].idx = i /\ TopicMatches(subs[i].filter, topic))}
             wild == {p \in DOMAIN subs_wild :
                        Collected(topic, subs_wild[p].node)
                        /\ (subs_wild[p].idx = i /\ TopicMatches(subs[i].filter, topic))}
  <2>1. exact = {} /\ wild = {}
    BY <1>3 DEF Candidates
  <2>2. Hits(topic, i) = Cardinality(exact) + Cardinality(wild)
    BY DEF Hits
  <2> HIDE DEF exact, wild
  <2>3. QED
    BY <2>1, <2>2, FS_EmptySet
<1>4. QED
  BY <1>1, <1>2, <1>3 DEF Stays, Failed

LEMMA PruneCounts ==
  ASSUME IndexOK, NEW topic \in Topic, NEW gone \in SUBSET Token, Prune(topic, gone), NEW s
  PROVE  Count(subs', s) = IF Stays(s, topic, gone) THEN Count(subs, s) ELSE 0
<1> DEFINE failed == Failed(topic, gone)
           r == SwapRemoveAll(subs, failed)
           here == Occurrences(subs, s)
           left == Occurrences(r, s)
<1>1. subs \in Seq(SubType) /\ DOMAIN subs = 1 .. Len(subs)
  <2>1. subs \in Seq(SubType)
    BY DEF IndexOK
  <2>2. QED
    BY <2>1, LenProperties
<1>2. failed = {i \in 1 .. Len(subs) : ~Stays(subs[i], topic, gone)}
  BY PrunedPositions
<1>3. subs' = r
  BY DEF Prune, Becomes, Failed
<1> HIDE DEF failed
<1>4. Left(r, subs, failed, s, SubType)
  BY <1>1, <1>2, RemovalExact
<1>5. here = {i \in 1 .. Len(subs) : subs[i] = s}
  BY DEF Occurrences
<1>6. failed \cap here = IF Stays(s, topic, gone) THEN {} ELSE here
  BY <1>2, <1>5
<1> HIDE DEF r
<1>7. r \in Seq(SubType) /\ DOMAIN r = 1 .. Len(r)
  <2>1. r \in Seq(SubType)
    BY <1>4 DEF Left
  <2>2. QED
    BY <2>1, LenProperties
<1>8. Count(subs, s) = Cardinality(here) /\ Count(subs', s) = Cardinality(left)
  BY <1>1, <1>3, <1>7 DEF Count, Occurrences
<1>9. Cardinality(here) = Cardinality(left) + Cardinality(failed \cap here)
  BY <1>4 DEF Left
<1>10. Cardinality(here) \in Nat /\ Cardinality(left) \in Nat /\ Cardinality({}) = 0
  <2>1. Len(subs) \in Nat /\ Len(r) \in Nat
    BY <1>1, <1>7, LenProperties
  <2>2. IsFiniteSet(1 .. Len(subs)) /\ IsFiniteSet(1 .. Len(r))
    BY <2>1, FS_Interval
  <2>3. here \subseteq 1 .. Len(subs) /\ left \subseteq 1 .. Len(r)
    BY DEF Occurrences
  <2> HIDE DEF here, left
  <2>4. IsFiniteSet(here) /\ IsFiniteSet(left)
    BY <2>2, <2>3, FS_Subset
  <2>5. QED
    BY <2>4, FS_CardinalityType, FS_EmptySet
<1> HIDE DEF here, left
<1>11. CASE Stays(s, topic, gone)
  <2>1. Cardinality(failed \cap here) = 0
    BY <1>6, <1>10, <1>11
  <2>2. QED
    BY <1>8, <1>9, <1>10, <1>11, <2>1
<1>12. CASE ~Stays(s, topic, gone)
  <2>1. Cardinality(failed \cap here) = Cardinality(here)
    BY <1>6, <1>12
  <2>2. QED
    BY <1>8, <1>9, <1>10, <1>12, <2>1
<1>13. QED
  BY <1>11, <1>12

\* A publication prunes the subscriptions whose delivery failed and no other,
\* whatever swap_remove moved into their places.
THEOREM PrunesWhatFailed == Spec => PruneExact
<1>1. IndexOK => (\A topic \in Topic, gone \in SUBSET Token :
                    Prune(topic, gone) =>
                      LET stays(s) == ~(s.token \in gone /\ TopicMatches(s.filter, topic))
                          count(table, s) == Cardinality({i \in DOMAIN table : table[i] = s})
                      IN  \A s \in ToSet(subs) \cup ToSet(subs') :
                            count(subs', s) = IF stays(s) THEN count(subs, s) ELSE 0)
  BY PruneCounts DEF Count, Stays
<1>2. QED
  BY <1>1, IndexInOrder, PTL DEF PruneExact
=============================================================================
