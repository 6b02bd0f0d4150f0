------------------------------- MODULE SubIndex -------------------------------
(***************************************************************************)
(* The subscription table of the event-loop broker (mio_broker/src/main.rs)*)
(* and its two-tier index: `subs` is the source of truth, subs_exact maps  *)
(* filters without wildcards to positions in it, and subs_wild is a trie   *)
(* over the levels of the others.  Removals shift or swap positions, after *)
(* which the index is rebuilt.                                             *)
(*                                                                         *)
(* A filter or topic is the sequence of its levels.  A trie node stands    *)
(* for the path that leads to it; a tier is the sequence of the positions  *)
(* pushed into it, each with its node, so that a position pushed twice     *)
(* shows.                                                                  *)
(***************************************************************************)
EXTENDS Vectors

CONSTANTS
  Filter,    \* filters that clients subscribe to
  Topic,     \* topics that messages are published to
  Token,     \* connections
  WildLevel, \* the levels in which a "+" or "#" occurs
  MAX_SUBS   \* bound: subscriptions in the table

ASSUME SubIndexAssumption ==
  /\ {"+", "#"} \subseteq WildLevel /\ MAX_SUBS \in Nat
  /\ \A f \in Filter \cup Topic : f \in Seq(ToSet(f))

VARIABLES subs, subs_exact, subs_wild

vars == <<subs, subs_exact, subs_wild>>

Hash == "#"
Plus == "+"

\* is_wild_filter: a wildcard character anywhere, also inside a level.
Wild(f) == \E i \in DOMAIN f : f[i] \in WildLevel

----------------------------------------------------------------------------
(* topic_matches: level by level, until "#" accepts the rest.              *)

\* The first n levels of f are there in t, and match without "#".
Fits(f, t, n) ==
  /\ n <= Len(t)
  /\ \A j \in 1 .. n : f[j] # Hash /\ (f[j] = Plus \/ f[j] = t[j])

TopicMatches(f, t) ==
  \/ \E i \in DOMAIN f : f[i] = Hash /\ Fits(f, t, i - 1)
  \/ Len(f) = Len(t) /\ Fits(f, t, Len(f))

----------------------------------------------------------------------------
(* Trie.insert and Trie.collect.                                           *)

\* Slip: "#" is filed under its own level, as if it were one.
NodeBelowHash(f) == [path |-> f, hash |-> Contains(f, Hash)]

\* The node a filter ends at: levels after the first "#" are ignored, and
\* hash_subs of the node before it takes the position.
Node(f) ==
  IF Contains(f, Hash)
  THEN [path |-> SubSeq(f, 1, SelectInSeq(f, LAMBDA l : l = Hash) - 1), hash |-> TRUE]
  ELSE [path |-> f, hash |-> FALSE]

\* collect_node comes by this node on the way down the levels of t.
Visits(t, path) ==
  /\ Len(path) <= Len(t)
  /\ \A j \in DOMAIN path : path[j] = Plus \/ path[j] = t[j]

Collected(t, node) == Visits(t, node.path) /\ (node.hash \/ Len(node.path) = Len(t))

----------------------------------------------------------------------------
(* add_sub, rebuild_index and the removals.                                *)

Sub(f, token) == [filter |-> f, token |-> token]
Indexed(idx, f) == [idx |-> idx, node |-> Node(f)]

AddSub(token, f) ==
  /\ Len(subs) < MAX_SUBS
  /\ subs' = Append(subs, Sub(f, token))
  /\ IF Wild(f)
     THEN subs_wild' = Append(subs_wild, Indexed(Len(subs) + 1, f)) /\ UNCHANGED subs_exact
     ELSE subs_exact' = Append(subs_exact, Indexed(Len(subs) + 1, f)) /\ UNCHANGED subs_wild

RebuildIndex(table) ==
  LET all == [i \in DOMAIN table |-> Indexed(i, table[i].filter)]
      wild == {e \in ToSet(all) : Wild(table[e.idx].filter)}
  IN  /\ subs_exact' = Only(all, ToSet(all) \ wild)
      /\ subs_wild' = Only(all, wild)

Becomes(table) == subs' = table /\ RebuildIndex(table)

\* UNSUBSCRIBE, and remove_client.
Unsubscribe(token, f) == Becomes(Only(subs, ToSet(subs) \ {Sub(f, token)}))
RemoveClient(token) == Becomes(Only(subs, {s \in ToSet(subs) : s.token # token}))

\* publish: the candidates of both tiers that match, each as often as it was
\* found.
Hits(topic, i) ==
  LET matches(e) == e.idx = i /\ TopicMatches(subs[i].filter, topic)
      exact == {p \in DOMAIN subs_exact :
                  subs_exact[p].node.path = topic /\ matches(subs_exact[p])}
      wild == {p \in DOMAIN subs_wild :
                  Collected(topic, subs_wild[p].node) /\ matches(subs_wild[p])}
  IN  Cardinality(exact) + Cardinality(wild)

Candidates(topic) ==
  {subs_exact[p].idx : p \in {p \in DOMAIN subs_exact : subs_exact[p].node.path = topic}}
  \cup {subs_wild[p].idx : p \in {p \in DOMAIN subs_wild : Collected(topic, subs_wild[p].node)}}

\* Slip: the lowest position first.
PruneUpward(topic, gone) ==
  LET idxs == {i \in Candidates(topic) : Hits(topic, i) > 0}
      failed == {i \in idxs : subs[i].token \in gone}
  IN  /\ failed # {}
      /\ Becomes(FoldLeft(LAMBDA s, i : IF i \in DOMAIN s THEN SwapRemove(s, i) ELSE s,
                          subs, SetToSortSeq(failed, <)))

\* Slip: the index is left as it was after a swap_remove.
PruneUnindexed(topic, gone) ==
  LET idxs == {i \in Candidates(topic) : Hits(topic, i) > 0}
      failed == {i \in idxs : subs[i].token \in gone}
  IN  /\ failed # {}
      /\ subs' = FoldLeft(SwapRemove, subs, SetToSortSeq(failed, >))
      /\ UNCHANGED <<subs_exact, subs_wild>>

\* publish found subscriptions whose delivery fails: they are swap_removed,
\* the highest position first, and the index is rebuilt.
Prune(topic, gone) ==
  LET idxs == {i \in Candidates(topic) : Hits(topic, i) > 0}
      failed == {i \in idxs : subs[i].token \in gone}
  IN  /\ failed # {}
      /\ Becomes(SwapRemoveAll(subs, failed))

Init == subs = <<>> /\ subs_exact = <<>> /\ subs_wild = <<>>

Next ==
  \/ \E token \in Token, f \in Filter : AddSub(token, f) \/ Unsubscribe(token, f)
  \/ \E token \in Token : RemoveClient(token)
  \/ \E topic \in Topic, gone \in SUBSET Token : Prune(topic, gone)

Spec == Init /\ [][Next]_vars

----------------------------------------------------------------------------
(* Properties.                                                             *)

\* No node stands for a "#" level: the trie has none.
Level == UNION {ToSet(f) : f \in Filter}
TypeOK ==
  /\ subs \in Seq([filter : Filter, token : Token])
  /\ \A e \in ToSet(subs_exact) \cup ToSet(subs_wild) :
       /\ e.idx \in 1 .. MAX_SUBS
       /\ e.node.path \in Seq(Level \ {Hash}) /\ e.node.hash \in BOOLEAN

\* The index finds for every topic exactly the subscriptions that the flat
\* scan with topic_matches would find, each once (so that nobody gets a second
\* copy), and never a position outside the table (which would panic).
IndexAgreesWithScan ==
  \A topic \in Topic :
    /\ Candidates(topic) \subseteq DOMAIN subs
    /\ \A i \in DOMAIN subs :
         Hits(topic, i) = IF TopicMatches(subs[i].filter, topic) THEN 1 ELSE 0

\* Pruning takes out the failed subscriptions and no other, whatever the
\* positions swapped into their places held.
PruneExact ==
  [][\A topic \in Topic, gone \in SUBSET Token :
       Prune(topic, gone) =>
         LET stays(s) == ~(s.token \in gone /\ TopicMatches(s.filter, topic))
             count(table, s) == Cardinality({i \in DOMAIN table : table[i] = s})
         IN  \A s \in ToSet(subs) \cup ToSet(subs') :
               count(subs', s) = IF stays(s) THEN count(subs, s) ELSE 0]_vars
=============================================================================
