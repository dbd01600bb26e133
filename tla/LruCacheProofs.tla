---------------------------- MODULE LruCacheProofs ----------------------------
(***************************************************************************)
(* The list and the map of LRUCache always agree, and the cache implements *)
(* the promise of BoundedCache: for any keys, values and sizes.            *)
(***************************************************************************)
EXTENDS LruCache, SequenceTheorems, TLAPS

IInv == TypeOK /\ MapMatchesList

-----------------------------------------------------------------------------
(* Sequences made by the list operations.                                  *)

\* Where a node of the map is, and that no other place has it.
LEMMA PlaceOfFound ==
  ASSUME IInv, NEW key \in DOMAIN map
  PROVE  /\ PlaceIn(list, map[key]) \in 1 .. Len(list)
         /\ list[PlaceIn(list, map[key])] = map[key]
  <1>1. \E i \in DOMAIN list : list[i] = map[key]
    BY DEF IInv, MapMatchesList
  <1>2. DOMAIN list = 1 .. Len(list)
    BY DEF IInv, TypeOK
  <1>3. PlaceIn(list, map[key]) \in DOMAIN list /\ list[PlaceIn(list, map[key])] = map[key]
    BY <1>1 DEF PlaceIn
  <1> QED
    BY <1>2, <1>3

LEMMA PlaceOfListed ==
  ASSUME IInv, NEW i \in 1 .. Len(list)
  PROVE  PlaceIn(list, list[i]) = i
  <1>1. DOMAIN list = 1 .. Len(list)
    BY DEF IInv, TypeOK
  <1>2. PlaceIn(list, list[i]) \in DOMAIN list /\ list[PlaceIn(list, list[i])] = list[i]
    BY <1>1 DEF PlaceIn
  <1> QED
    BY <1>1, <1>2 DEF IInv, MapMatchesList

\* l has the nodes of the list, each once
Rearranged(l) ==
  /\ l \in Seq(Nodes)
  /\ Len(l) = Len(list)
  /\ \A j \in 1 .. Len(list) : \E h \in 1 .. Len(list) : l[j] = list[h]
  /\ \A j \in 1 .. Len(list) : \E h \in 1 .. Len(list) : l[h] = list[j]
  /\ \A j, h \in 1 .. Len(list) : l[j] = l[h] => j = h

\* What the five list operations return.
LEMMA ToFrontList ==
  ASSUME IInv, NEW i \in 1 .. Len(list), NEW l, l = ToFront(i)
  PROVE  Rearranged(l)
  <1>1. list \in Seq(Nodes) /\ DOMAIN list = 1 .. Len(list) /\ Len(list) \in Nat
    BY DEF IInv, TypeOK
  <1>2. \A j \in 1 .. Len(list) :
          l[j] = IF j = 1 THEN list[i] ELSE IF j <= i THEN list[j - 1] ELSE list[j]
    BY <1>1 DEF ToFront
  <1>3. \A j \in 1 .. Len(list) : list[j] \in Nodes
    BY <1>1
  <1>4. l \in [1 .. Len(list) -> Nodes]
    BY <1>1, <1>3 DEF ToFront
  <1>5. l \in Seq(Nodes) /\ Len(l) = Len(list)
    BY <1>1, <1>4
  <1>6. \A j \in 1 .. Len(list) : \E h \in 1 .. Len(list) : l[j] = list[h]
    BY <1>1, <1>2
  <1>7. ASSUME NEW j \in 1 .. Len(list)
        PROVE  \E h \in 1 .. Len(list) : l[h] = list[j]
    <2>1. CASE j = i
      BY <1>1, <1>2, <2>1
    <2>2. CASE j < i
      <3>1. j + 1 \in 1 .. Len(list) /\ l[j + 1] = list[j]
        BY <1>1, <1>2, <2>2
      <3> QED BY <3>1
    <2>3. CASE j > i
      BY <1>1, <1>2, <2>3
    <2> QED BY <1>1, <2>1, <2>2, <2>3
  <1>8. \A j, h \in 1 .. Len(list) : list[j] = list[h] => j = h
    BY <1>1 DEF IInv, MapMatchesList
  <1>9. \A j, h \in 1 .. Len(list) : l[j] = l[h] => j = h
    BY <1>1, <1>2, <1>8
  <1> QED
    BY <1>5, <1>6, <1>7, <1>9 DEF Rearranged

LEMMA ErasedList ==
  ASSUME IInv, NEW i \in 1 .. Len(list)
  PROVE  /\ Erased(i) \in Seq(Nodes)
         /\ Len(Erased(i)) = Len(list) - 1
         /\ \A j \in 1 .. Len(list) - 1 :
              Erased(i)[j] = IF j < i THEN list[j] ELSE list[j + 1]
  <1>1. list \in Seq(Nodes) /\ DOMAIN list = 1 .. Len(list) /\ Len(list) \in Nat \ {0}
    BY DEF IInv, TypeOK
  <1>2. \A j \in 1 .. Len(list) : list[j] \in Nodes
    BY <1>1
  <1>3. \A j \in 1 .. Len(list) - 1 :
          Erased(i)[j] = IF j < i THEN list[j] ELSE list[j + 1]
    BY <1>1 DEF Erased
  <1> DEFINE m == Len(list) - 1
  <1>4. m \in Nat
    BY <1>1
  <1>5. Erased(i) \in [1 .. m -> Nodes]
    BY <1>1, <1>2 DEF Erased
  <1> HIDE DEF m
  <1>6. Erased(i) \in Seq(Nodes) /\ Len(Erased(i)) = m
    BY <1>4, <1>5
  <1> QED
    BY <1>3, <1>6 DEF m

LEMMA FirstOfList ==
  ASSUME IInv, NEW n \in Nat
  PROVE  /\ FirstOf(n) \in Seq(Nodes)
         /\ Len(FirstOf(n)) = IF Len(list) < n THEN Len(list) ELSE n
         /\ \A j \in 1 .. Len(FirstOf(n)) : FirstOf(n)[j] = list[j]
  <1> DEFINE m == IF Len(list) < n THEN Len(list) ELSE n
  <1>1. list \in Seq(Nodes) /\ DOMAIN list = 1 .. Len(list) /\ Len(list) \in Nat
    BY DEF IInv, TypeOK
  <1>2. m \in Nat /\ m <= Len(list)
    BY <1>1
  <1>3. FirstOf(n) = [j \in 1 .. m |-> list[j]]
    BY DEF FirstOf
  <1>4. \A j \in 1 .. m : list[j] \in Nodes
    BY <1>1, <1>2
  <1> HIDE DEF m
  <1>5. FirstOf(n) \in [1 .. m -> Nodes]
    BY <1>3, <1>4
  <1>6. FirstOf(n) \in Seq(Nodes) /\ Len(FirstOf(n)) = m
    BY <1>2, <1>5
  <1> QED
    BY <1>3, <1>6 DEF m

LEMMA AddedFirstList ==
  ASSUME NEW nodes \in Seq(Nodes), NEW n \in Nodes
  PROVE  /\ AddedFirst(n, nodes) \in Seq(Nodes)
         /\ Len(AddedFirst(n, nodes)) = Len(nodes) + 1
         /\ AddedFirst(n, nodes)[1] = n
         /\ \A j \in 2 .. Len(nodes) + 1 : AddedFirst(n, nodes)[j] = nodes[j - 1]
  <1>1. Len(nodes) \in Nat /\ \A j \in 1 .. Len(nodes) : nodes[j] \in Nodes
    OBVIOUS
  <1>2. AddedFirst(n, nodes) \in [1 .. Len(nodes) + 1 -> Nodes]
    BY <1>1 DEF AddedFirst
  <1>3. AddedFirst(n, nodes) \in Seq(Nodes) /\ Len(AddedFirst(n, nodes)) = Len(nodes) + 1
    BY <1>1, <1>2
  <1> QED
    BY <1>1, <1>3 DEF AddedFirst

-----------------------------------------------------------------------------
(* The invariant.                                                          *)

\* What the map has left once only the first n nodes of the list stay: the
\* keys of these nodes.
LEMMA MapOfFirst ==
  ASSUME IInv, NEW n \in Nat
  PROVE  /\ \A k \in DOMAIN MapWithout(n) :
              /\ k \in DOMAIN map
              /\ MapWithout(n)[k] = map[k]
              /\ PlaceIn(list, map[k]) \in 1 .. n
         /\ \A k \in DOMAIN map : PlaceIn(list, map[k]) \in 1 .. n => k \in DOMAIN MapWithout(n)
  <1>1. list \in Seq(Nodes) /\ DOMAIN list = 1 .. Len(list) /\ Len(list) \in Nat
    BY DEF IInv, TypeOK
  <1>2. \A k \in DOMAIN map :
          PlaceIn(list, map[k]) \in 1 .. Len(list) /\ list[PlaceIn(list, map[k])] = map[k]
    BY PlaceOfFound
  <1>3. \A k \in DOMAIN map : node[map[k]].key = k
    BY DEF IInv, MapMatchesList
  <1>4. \A i \in 1 .. Len(list) :
          node[list[i]].key \in DOMAIN map /\ map[node[list[i]].key] = list[i]
    BY <1>1 DEF IInv, MapMatchesList
  <1>5. \A i \in 1 .. Len(list) : PlaceIn(list, list[i]) = i
    BY PlaceOfListed
  <1>6. ASSUME NEW k \in DOMAIN MapWithout(n)
        PROVE  /\ k \in DOMAIN map
               /\ MapWithout(n)[k] = map[k]
               /\ PlaceIn(list, map[k]) \in 1 .. n
    <2>1. /\ k \in DOMAIN map /\ MapWithout(n)[k] = map[k]
          /\ \A i \in n + 1 .. Len(list) : k # node[list[i]].key
      BY <1>6 DEF MapWithout
    <2> QED
      BY <1>1, <1>2, <1>3, <2>1
  <1>7. ASSUME NEW k \in DOMAIN map, PlaceIn(list, map[k]) \in 1 .. n
        PROVE  k \in DOMAIN MapWithout(n)
    <2>1. ASSUME NEW i \in n + 1 .. Len(list), k = node[list[i]].key
          PROVE  FALSE
      <3>1. i \in 1 .. Len(list) /\ i > n
        BY <1>1
      <3>2. PlaceIn(list, map[k]) = i
        BY <1>4, <1>5, <2>1, <3>1
      <3> QED
        BY <1>7, <3>1, <3>2
    <2> QED
      BY <1>7, <2>1 DEF MapWithout
  <1> QED
    BY <1>6, <1>7

THEOREM InitIInv == Init => IInv
  <1> SUFFICES ASSUME Init PROVE IInv
    OBVIOUS
  <1>1. list \in Seq(Nodes) /\ Len(list) = 0 /\ DOMAIN list = {}
    BY DEF Init
  <1>2. DOMAIN map = {} /\ map \in [DOMAIN map -> Nodes]
    BY DEF Init
  <1>3. maxSize \in Nat \ {0}
    BY CacheAssumption DEF Init, AtLeastOne
  <1>4. node \in [Nodes -> [key : Keys, value : Values]]
    BY DEF Init
  <1> QED
    BY <1>1, <1>2, <1>3, <1>4 DEF IInv, TypeOK, MapMatchesList, Init

\* A hit: the node of the key moves, and at most its value changes.
LEMMA HitIInv ==
  ASSUME IInv, NEW key \in DOMAIN map,
         NEW p \in 1 .. Len(list), list' = ToFront(p),
         node' \in [Nodes -> [key : Keys, value : Values]],
         \A n \in Nodes : node'[n].key = node[n].key,
         UNCHANGED <<map, maxSize>>, answer' \in Values \cup {Miss}
  PROVE  IInv'
  <1>1. list \in Seq(Nodes) /\ DOMAIN list = 1 .. Len(list) /\ Len(list) \in Nat
    BY DEF IInv, TypeOK
  <1>3. /\ list' \in Seq(Nodes) /\ Len(list') = Len(list)
        /\ \A j \in 1 .. Len(list) : \E h \in 1 .. Len(list) : list'[j] = list[h]
        /\ \A j \in 1 .. Len(list) : \E h \in 1 .. Len(list) : list'[h] = list[j]
        /\ \A j, h \in 1 .. Len(list) : list'[j] = list'[h] => j = h
    <2>1. Rearranged(list')
      BY ToFrontList
    <2> QED
      BY <2>1 DEF Rearranged
  <1>4. DOMAIN list' = 1 .. Len(list)
    BY <1>3
  <1>5. TypeOK'
    BY <1>3 DEF IInv, TypeOK
  <1>6. \A i \in 1 .. Len(list) :
          /\ list[i] \in Nodes
          /\ node[list[i]].key \in DOMAIN map /\ map[node[list[i]].key] = list[i]
    BY <1>1 DEF IInv, MapMatchesList
  <1>7. \A k \in DOMAIN map :
          /\ \E i \in 1 .. Len(list) : list[i] = map[k]
          /\ map[k] \in Nodes /\ node[map[k]].key = k
    BY <1>1 DEF IInv, MapMatchesList, TypeOK
  <1>8. \A i \in DOMAIN list' :
          node'[list'[i]].key \in DOMAIN map' /\ map'[node'[list'[i]].key] = list'[i]
    <2> TAKE i \in DOMAIN list'
    <2>1. PICK h \in 1 .. Len(list) : list'[i] = list[h]
      BY <1>3, <1>4
    <2> QED
      BY <1>6, <2>1
  <1>9. \A k \in DOMAIN map' :
          (\E i \in DOMAIN list' : list'[i] = map'[k]) /\ node'[map'[k]].key = k
    <2> TAKE k \in DOMAIN map'
    <2>1. PICK i \in 1 .. Len(list) : list[i] = map[k]
      BY <1>7
    <2>2. PICK h \in 1 .. Len(list) : list'[h] = list[i]
      BY <1>3
    <2> QED
      BY <1>4, <1>7, <2>1, <2>2
  <1>10. Len(list') <= maxSize'
    BY <1>3 DEF IInv, MapMatchesList
  <1> QED
    BY <1>3, <1>4, <1>5, <1>8, <1>9, <1>10 DEF IInv, MapMatchesList

\* Popping nodes from the back, with the keys they hold.
LEMMA PopIInv ==
  ASSUME IInv, NEW n \in Nat \ {0},
         list' = FirstOf(n), map' = MapWithout(n), maxSize' = n,
         UNCHANGED <<node, answer>>
  PROVE  IInv'
  <1>1. list \in Seq(Nodes) /\ DOMAIN list = 1 .. Len(list) /\ Len(list) \in Nat
    BY DEF IInv, TypeOK
  <1>2. /\ list' \in Seq(Nodes) /\ DOMAIN list' = 1 .. Len(list')
        /\ Len(list') \in Nat /\ Len(list') <= n /\ Len(list') <= Len(list)
        /\ \A j \in 1 .. Len(list') : list'[j] = list[j]
        /\ \A j \in 1 .. Len(list) : j <= n => j \in 1 .. Len(list')
    <2>1. /\ list' \in Seq(Nodes)
          /\ Len(list') = IF Len(list) < n THEN Len(list) ELSE n
          /\ \A j \in 1 .. Len(list') : list'[j] = list[j]
      <3>1. n \in Nat
        OBVIOUS
      <3> QED
        BY <3>1, FirstOfList
    <2> QED
      BY <1>1, <2>1
  <1>3. \A k \in DOMAIN map' :
          k \in DOMAIN map /\ map'[k] = map[k] /\ PlaceIn(list, map[k]) \in 1 .. n
    BY MapOfFirst
  <1>4. \A k \in DOMAIN map : PlaceIn(list, map[k]) \in 1 .. n => k \in DOMAIN map'
    BY MapOfFirst
  <1>5. \A k \in DOMAIN map :
          PlaceIn(list, map[k]) \in 1 .. Len(list) /\ list[PlaceIn(list, map[k])] = map[k]
    BY PlaceOfFound
  <1>6. \A i \in 1 .. Len(list) : PlaceIn(list, list[i]) = i
    BY PlaceOfListed
  <1>7. map' \in [DOMAIN map' -> Nodes]
    BY <1>3 DEF MapWithout, IInv, TypeOK
  <1>8. TypeOK'
    BY <1>2, <1>3, <1>7 DEF IInv, TypeOK
  <1>9. ASSUME NEW i \in DOMAIN list'
        PROVE  node'[list'[i]].key \in DOMAIN map' /\ map'[node'[list'[i]].key] = list'[i]
    <2>1. i \in 1 .. Len(list) /\ i \in 1 .. n /\ list'[i] = list[i]
      BY <1>1, <1>2
    <2>2. node[list[i]].key \in DOMAIN map /\ map[node[list[i]].key] = list[i]
      BY <1>1, <2>1 DEF IInv, MapMatchesList
    <2>3. node[list[i]].key \in DOMAIN map'
      BY <1>4, <1>6, <2>1, <2>2
    <2> QED
      BY <1>3, <2>1, <2>2, <2>3
  <1>10. \A i, j \in DOMAIN list' : list'[i] = list'[j] => i = j
    BY <1>1, <1>2 DEF IInv, MapMatchesList
  <1>11. ASSUME NEW k \in DOMAIN map'
         PROVE  (\E i \in DOMAIN list' : list'[i] = map'[k]) /\ node'[map'[k]].key = k
    <2>1. k \in DOMAIN map /\ map'[k] = map[k] /\ PlaceIn(list, map[k]) \in 1 .. Len(list')
      BY <1>2, <1>3, <1>5
    <2>2. list'[PlaceIn(list, map[k])] = map[k]
      BY <1>2, <1>5, <2>1
    <2>3. node[map[k]].key = k
      BY <2>1 DEF IInv, MapMatchesList
    <2> QED
      BY <1>2, <2>1, <2>2, <2>3
  <1> QED
    BY <1>2, <1>8, <1>9, <1>10, <1>11 DEF IInv, MapMatchesList

\* A miss that is filled: a fresh node comes first, after the last node was
\* popped if the list was full.
LEMMA InsertIInv ==
  ASSUME IInv, NEW key \in Keys, NEW v \in Values, ~Found(key), Insert(key, v),
         UNCHANGED maxSize, answer' \in Values \cup {Miss}
  PROVE  IInv'
  <1> DEFINE kept == IF Len(list) >= maxSize THEN Len(list) - 1 ELSE Len(list)
  <1>1. /\ list \in Seq(Nodes) /\ DOMAIN list = 1 .. Len(list) /\ Len(list) \in Nat
        /\ maxSize \in Nat \ {0} /\ Len(list) <= maxSize
    BY DEF IInv, TypeOK, MapMatchesList
  <1>2. kept \in Nat /\ kept <= Len(list) /\ kept + 1 <= maxSize
    BY <1>1
  <1>3. PICK n \in Nodes \ {list[i] : i \in 1 .. kept} :
          /\ list' = AddedFirst(n, FirstOf(kept))
          /\ node' = [node EXCEPT ![n] = [key |-> key, value |-> v]]
          /\ map' = [k \in DOMAIN MapWithout(kept) \cup {key} |->
                       IF k = key THEN n ELSE map[k]]
    BY DEF Insert
  <1> HIDE DEF kept
  <1>4. /\ FirstOf(kept) \in Seq(Nodes) /\ Len(FirstOf(kept)) = kept
        /\ \A j \in 1 .. kept : FirstOf(kept)[j] = list[j]
    <2>1. /\ FirstOf(kept) \in Seq(Nodes)
          /\ Len(FirstOf(kept)) = IF Len(list) < kept THEN Len(list) ELSE kept
          /\ \A j \in 1 .. Len(FirstOf(kept)) : FirstOf(kept)[j] = list[j]
      BY <1>2, FirstOfList
    <2>2. Len(FirstOf(kept)) = kept
      <3>1. Len(FirstOf(kept)) = IF Len(list) < kept THEN Len(list) ELSE kept
        BY <2>1
      <3>2. Len(list) \in Nat /\ kept \in Nat /\ ~(Len(list) < kept)
        BY <1>1, <1>2
      <3> QED
        BY <3>1, <3>2
    <2> QED
      BY <2>1, <2>2
  <1>5. /\ list' \in Seq(Nodes) /\ Len(list') = kept + 1 /\ DOMAIN list' = 1 .. kept + 1
        /\ list'[1] = n
        /\ \A j \in 2 .. kept + 1 : list'[j] = list[j - 1]
    <2>1. /\ list' \in Seq(Nodes) /\ Len(list') = kept + 1 /\ list'[1] = n
          /\ \A j \in 2 .. kept + 1 : list'[j] = FirstOf(kept)[j - 1]
      <3> DEFINE rest == FirstOf(kept)
      <3>1. rest \in Seq(Nodes) /\ Len(rest) = kept /\ n \in Nodes
        BY <1>4
      <3>2. list' = AddedFirst(n, rest)
        BY <1>3
      <3> HIDE DEF rest
      <3>3. /\ AddedFirst(n, rest) \in Seq(Nodes)
            /\ Len(AddedFirst(n, rest)) = Len(rest) + 1
            /\ AddedFirst(n, rest)[1] = n
            /\ \A j \in 2 .. Len(rest) + 1 : AddedFirst(n, rest)[j] = rest[j - 1]
        BY <3>1, AddedFirstList
      <3> QED
        BY <3>1, <3>2, <3>3 DEF rest
    <2> QED
      BY <1>2, <1>4, <2>1
  <1>6. \A k \in DOMAIN MapWithout(kept) : k \in DOMAIN map /\ PlaceIn(list, map[k]) \in 1 .. kept
    BY <1>2, MapOfFirst
  <1>7. \A k \in DOMAIN map : PlaceIn(list, map[k]) \in 1 .. kept => k \in DOMAIN MapWithout(kept)
    BY <1>2, MapOfFirst
  <1>8. \A k \in DOMAIN map :
          /\ k \in Keys /\ k # key /\ map[k] \in Nodes /\ node[map[k]].key = k
          /\ PlaceIn(list, map[k]) \in 1 .. Len(list) /\ list[PlaceIn(list, map[k])] = map[k]
    BY PlaceOfFound DEF Found, IInv, TypeOK, MapMatchesList
  <1>9. \A i \in 1 .. Len(list) : PlaceIn(list, list[i]) = i /\ list[i] \in Nodes
    BY <1>1, PlaceOfListed
  <1>10. \A i \in 1 .. kept : list[i] # n
    BY <1>3
  <1>11. /\ DOMAIN map' = DOMAIN MapWithout(kept) \cup {key}
         /\ map'[key] = n
         /\ \A k \in DOMAIN MapWithout(kept) : map'[k] = map[k]
    BY <1>3, <1>6, <1>8
  <1>12. map' \in [DOMAIN map' -> Nodes] /\ DOMAIN map' \subseteq Keys
    BY <1>3, <1>6, <1>8
  <1>13. /\ node' \in [Nodes -> [key : Keys, value : Values]]
         /\ node'[n].key = key
         /\ \A i \in 1 .. kept : node'[list[i]] = node[list[i]]
    BY <1>1, <1>2, <1>3, <1>9, <1>10 DEF IInv, TypeOK
  <1>14. TypeOK'
    BY <1>5, <1>12, <1>13 DEF IInv, TypeOK
  <1>15. ASSUME NEW i \in DOMAIN list'
         PROVE  node'[list'[i]].key \in DOMAIN map' /\ map'[node'[list'[i]].key] = list'[i]
    <2>1. CASE i = 1
      BY <1>5, <1>11, <1>13, <2>1
    <2>2. CASE i # 1
      <3>1. i - 1 \in 1 .. kept /\ i - 1 \in 1 .. Len(list) /\ list'[i] = list[i - 1]
        BY <1>1, <1>2, <1>5, <2>2
      <3> DEFINE k == node[list[i - 1]].key
      <3>2. k \in DOMAIN map /\ map[k] = list[i - 1]
        BY <1>1, <3>1 DEF IInv, MapMatchesList
      <3>3. k \in DOMAIN MapWithout(kept)
        BY <1>7, <1>9, <3>1, <3>2
      <3> QED
        BY <1>11, <1>13, <3>1, <3>2, <3>3
    <2> QED
      BY <2>1, <2>2
  <1>16. ASSUME NEW i \in DOMAIN list', NEW j \in DOMAIN list', list'[i] = list'[j]
         PROVE  i = j
    <2>1. \A h \in 2 .. kept + 1 : h - 1 \in 1 .. kept /\ h - 1 \in 1 .. Len(list) /\ list'[h] = list[h - 1]
      BY <1>1, <1>2, <1>5
    <2>2. CASE i = 1 \/ j = 1
      <3>1. \A h \in 2 .. kept + 1 : list'[h] # n
        BY <1>10, <2>1
      <3>2. i \in 1 .. kept + 1 /\ j \in 1 .. kept + 1
        BY <1>5
      <3>3. list'[1] = n /\ kept \in Nat
        BY <1>2, <1>5
      <3>4. i = 1 \/ i \in 2 .. kept + 1
        BY <3>2, <3>3
      <3>5. j = 1 \/ j \in 2 .. kept + 1
        BY <3>2, <3>3
      <3> QED
        BY <1>16, <2>2, <3>1, <3>3, <3>4, <3>5
    <2>3. CASE i # 1 /\ j # 1
      <3>1. i \in 2 .. kept + 1 /\ j \in 2 .. kept + 1
        BY <1>2, <1>5, <2>3
      <3>2. i - 1 = j - 1
        BY <1>9, <1>16, <2>1, <3>1
      <3> QED
        BY <1>2, <3>1, <3>2
    <2> QED
      BY <2>2, <2>3
  <1>17. ASSUME NEW k \in DOMAIN map'
         PROVE  (\E i \in DOMAIN list' : list'[i] = map'[k]) /\ node'[map'[k]].key = k
    <2>1. CASE k = key
      BY <1>2, <1>5, <1>11, <1>13, <2>1
    <2>2. CASE k # key
      <3> DEFINE p == PlaceIn(list, map[k])
      <3>1. k \in DOMAIN map /\ map'[k] = map[k] /\ p \in 1 .. kept /\ list[p] = map[k]
        BY <1>6, <1>8, <1>11, <2>2
      <3>2. p + 1 \in 2 .. kept + 1 /\ list'[p + 1] = list[p]
        <4>1. p + 1 \in 2 .. kept + 1 /\ (p + 1) - 1 = p
          BY <1>2, <3>1
        <4> QED
          BY <1>5, <4>1
      <3>3. p + 1 \in DOMAIN list'
        BY <1>2, <1>5, <3>2
      <3>4. node'[map[k]].key = k
        BY <1>8, <1>13, <3>1
      <3> QED
        BY <3>1, <3>2, <3>3, <3>4
    <2> QED
      BY <2>1, <2>2
  <1>18. Len(list') <= maxSize'
    BY <1>2, <1>5
  <1> QED
    BY <1>14, <1>15, <1>16, <1>17, <1>18 DEF IInv, MapMatchesList

\* Erasing one node and its key.
LEMMA EraseIInv ==
  ASSUME IInv, NEW key \in Keys, Erase(key)
  PROVE  IInv'
  <1> DEFINE p == PlaceIn(list, map[key])
  <1>1. list \in Seq(Nodes) /\ DOMAIN list = 1 .. Len(list) /\ Len(list) \in Nat
    BY DEF IInv, TypeOK
  <1>2. key \in DOMAIN map /\ list' = Erased(p)
    BY DEF Erase, Found
  <1>3. p \in 1 .. Len(list) /\ list[p] = map[key]
    BY <1>2, PlaceOfFound
  <1> HIDE DEF p
  <1>4. /\ list' \in Seq(Nodes)
        /\ Len(list') = Len(list) - 1
        /\ \A j \in 1 .. Len(list) - 1 :
             list'[j] = IF j < p THEN list[j] ELSE list[j + 1]
    <2>1. /\ Erased(p) \in Seq(Nodes)
          /\ Len(Erased(p)) = Len(list) - 1
          /\ \A j \in 1 .. Len(list) - 1 :
               Erased(p)[j] = IF j < p THEN list[j] ELSE list[j + 1]
      BY <1>3, ErasedList
    <2> QED
      BY <1>2, <2>1
  <1>5. DOMAIN list' = 1 .. Len(list) - 1
    BY <1>4
  <1>6. /\ DOMAIN map' = DOMAIN map \ {key}
        /\ \A k \in DOMAIN map' : map'[k] = map[k]
        /\ map' \in [DOMAIN map' -> Nodes]
        /\ node' = node /\ maxSize' = maxSize /\ answer' = answer
    BY DEF Erase, IInv, TypeOK
  <1>7. \A i, j \in 1 .. Len(list) : list[i] = list[j] => i = j
    BY <1>1 DEF IInv, MapMatchesList
  <1>8. TypeOK'
    BY <1>4, <1>6 DEF IInv, TypeOK
  <1>9. ASSUME NEW i \in DOMAIN list'
        PROVE  node'[list'[i]].key \in DOMAIN map' /\ map'[node'[list'[i]].key] = list'[i]
    <2>1. PICK h \in 1 .. Len(list) : list'[i] = list[h] /\ h # p
      <3>1. i \in 1 .. Len(list) - 1 /\ Len(list) \in Nat
        BY <1>1, <1>5
      <3>2. CASE i < p
        <4>1. list'[i] = list[i] /\ i # p /\ i \in 1 .. Len(list)
          BY <1>4, <3>1, <3>2
        <4> QED
          BY <4>1
      <3>3. CASE ~(i < p)
        <4>1. list'[i] = list[i + 1]
          BY <1>4, <3>1, <3>3
        <4>2. i + 1 # p /\ i + 1 \in 1 .. Len(list)
          BY <1>3, <3>1, <3>3
        <4> QED
          BY <4>1, <4>2
      <3> QED
        BY <3>2, <3>3
    <2>2. node[list[h]].key \in DOMAIN map /\ map[node[list[h]].key] = list[h]
      BY <1>1 DEF IInv, MapMatchesList
    <2>3. list[h] # list[p]
      BY <1>3, <1>7, <2>1
    <2> QED
      BY <1>3, <1>6, <2>1, <2>2, <2>3
  <1>10. \A i, j \in DOMAIN list' : list'[i] = list'[j] => i = j
    BY <1>1, <1>3, <1>4, <1>5, <1>7
  <1>11. ASSUME NEW k \in DOMAIN map'
         PROVE  (\E i \in DOMAIN list' : list'[i] = map'[k]) /\ node'[map'[k]].key = k
    <2>1. k \in DOMAIN map /\ k # key /\ map'[k] = map[k]
      BY <1>6
    <2>2. PICK h \in 1 .. Len(list) : list[h] = map[k]
      BY <1>1, <2>1 DEF IInv, MapMatchesList
    <2>3. node[map[k]].key = k /\ node[map[key]].key = key
      BY <1>2, <2>1 DEF IInv, MapMatchesList
    <2>4. h # p
      BY <1>3, <2>1, <2>2, <2>3
    <2>5. CASE h < p
      <3>1. h \in DOMAIN list' /\ list'[h] = list[h]
        BY <1>1, <1>3, <1>4, <1>5, <2>5
      <3> QED
        BY <1>6, <2>1, <2>2, <2>3, <3>1
    <2>6. CASE h > p
      <3>1. h - 1 \in DOMAIN list' /\ list'[h - 1] = list[h]
        BY <1>1, <1>3, <1>4, <1>5, <2>6
      <3> QED
        BY <1>6, <2>1, <2>2, <2>3, <3>1
    <2> QED
      BY <1>1, <1>3, <2>4, <2>5, <2>6
  <1>12. Len(list') <= maxSize'
    BY <1>1, <1>4, <1>6 DEF IInv, MapMatchesList, TypeOK
  <1> QED
    BY <1>8, <1>9, <1>10, <1>11, <1>12 DEF IInv, MapMatchesList

THEOREM NextIInv == IInv /\ [Next]_vars => IInv'
  <1> SUFFICES ASSUME IInv, [Next]_vars PROVE IInv'
    OBVIOUS
  <1>1. ASSUME NEW key \in Keys, Get(key)
        PROVE  IInv'
    <2>1. CASE Found(key) /\ list' = ToFront(PlaceIn(list, map[key])) /\ answer' = node[map[key]].value
                          /\ UNCHANGED <<node, map, maxSize>>
      <3>1. map[key] \in Nodes /\ node \in [Nodes -> [key : Keys, value : Values]]
        BY <2>1 DEF Found, IInv, TypeOK
      <3>2. answer' \in Values \cup {Miss}
        BY <2>1, <3>1
      <3> QED
        BY <2>1, <3>1, <3>2, HitIInv, PlaceOfFound DEF Found
    <2>2. CASE answer' = Miss /\ UNCHANGED <<list, node, map, maxSize>>
      BY <2>2 DEF IInv, TypeOK, MapMatchesList
    <2> QED
      BY <1>1, <2>1, <2>2 DEF Get
  <1>2. ASSUME NEW key \in Keys, Erase(key)
        PROVE  IInv'
    BY <1>2, EraseIInv
  <1>3. ASSUME NEW key \in Keys, NEW v \in Values, Put(key, v)
        PROVE  IInv'
    <2>1. answer' \in Values \cup {Miss} /\ maxSize' = maxSize
      BY <1>3 DEF Put, IInv, TypeOK
    <2>2. CASE ~Found(key) /\ Insert(key, v)
      BY <2>1, <2>2, InsertIInv
    <2>3. CASE /\ Found(key)
               /\ node' = [node EXCEPT ![map[key]].value = v]
               /\ list' = ToFront(PlaceIn(list, map[key]))
               /\ UNCHANGED map
      <3>1. map[key] \in Nodes /\ node \in [Nodes -> [key : Keys, value : Values]]
        BY <2>3 DEF Found, IInv, TypeOK
      <3>2. /\ node' \in [Nodes -> [key : Keys, value : Values]]
            /\ \A n \in Nodes : node'[n].key = node[n].key
        BY <2>3, <3>1
      <3> QED
        BY <2>1, <2>3, <3>2, HitIInv, PlaceOfFound DEF Found
    <2> QED
      BY <1>3, <2>2, <2>3 DEF Put
  <1>4. ASSUME NEW key \in Keys, NEW v \in Values, Compute(key, v)
        PROVE  IInv'
    <2>1. answer' \in Values \cup {Miss} /\ maxSize' = maxSize /\ ~Found(key) /\ Insert(key, v)
      BY <1>4 DEF Compute
    <2> QED
      BY <2>1, InsertIInv
  <1>5. CASE Clear
    <2>1. list' \in Seq(Nodes) /\ Len(list') = 0 /\ DOMAIN list' = {}
      BY <1>5 DEF Clear
    <2>2. DOMAIN map' = {} /\ map' \in [DOMAIN map' -> Nodes]
      BY <1>5 DEF Clear
    <2> QED
      BY <1>5, <2>1, <2>2 DEF Clear, IInv, TypeOK, MapMatchesList
  <1>6. ASSUME NEW n \in Sizes, SetMaxSize(n)
        PROVE  IInv'
    <2> DEFINE m == AtLeastOne(n)
    <2>1. m \in Nat \ {0}
      BY CacheAssumption DEF AtLeastOne
    <2>2. /\ list' = FirstOf(m) /\ map' = MapWithout(m) /\ maxSize' = m
          /\ UNCHANGED <<node, answer>>
      BY <1>6 DEF SetMaxSize
    <2> HIDE DEF m
    <2> QED
      BY <2>1, <2>2, PopIInv
  <1>7. CASE UNCHANGED vars
    BY <1>7 DEF vars, IInv, TypeOK, MapMatchesList
  <1> QED
    BY <1>1, <1>2, <1>3, <1>4, <1>5, <1>6, <1>7 DEF Next

\* In every reachable state the list and the map match.
THEOREM Inductive == Spec => []IInv
  BY InitIInv, NextIInv, PTL DEF Spec

\* The types, and the bounds of the capacity, for any sizes callers ask for.
THEOREM TypeCorrect == Spec => []TypeOK
  BY Inductive, PTL DEF IInv

\* No iterator of the map outlives its node, and no node its key.
THEOREM MapAndListAgree == Spec => []MapMatchesList
  BY Inductive, PTL DEF IInv

-----------------------------------------------------------------------------
(* The refinement: the place of a key's node in the list is the number of  *)
(* keys used since, so every step of the list and the map is a step of     *)
(* BoundedCache.                                                           *)

LEMMA PlaceIs ==
  ASSUME NEW l, NEW n, NEW i \in DOMAIN l, l[i] = n, \A j \in DOMAIN l : l[j] = n => j = i
  PROVE  PlaceIn(l, n) = i
  BY DEF PlaceIn

LEMMA AgeOf ==
  ASSUME IInv
  PROVE  /\ DOMAIN Age = DOMAIN map
         /\ \A k \in DOMAIN map :
              /\ Age[k] \in Nat /\ Age[k] + 1 \in 1 .. Len(list)
              /\ list[Age[k] + 1] = map[k]
         /\ \A k, h \in DOMAIN map : Age[k] = Age[h] => k = h
  <1>1. \A k \in DOMAIN map :
          PlaceIn(list, map[k]) \in 1 .. Len(list) /\ list[PlaceIn(list, map[k])] = map[k]
    BY PlaceOfFound
  <1>2. Len(list) \in Nat
    BY DEF IInv, TypeOK
  <1>3. \A k \in DOMAIN map : Age[k] \in Nat /\ Age[k] + 1 = PlaceIn(list, map[k])
    BY <1>1, <1>2 DEF Age
  <1>4. \A k \in DOMAIN map : node[map[k]].key = k
    BY DEF IInv, MapMatchesList
  <1>5. DOMAIN Age = DOMAIN map
    BY DEF Age
  <1>6. ASSUME NEW k \in DOMAIN map, NEW h \in DOMAIN map, Age[k] = Age[h]
        PROVE  k = h
    <2>1. map[k] = map[h]
      BY <1>1, <1>3, <1>6
    <2> QED
      BY <1>4, <2>1
  <1> QED
    BY <1>1, <1>3, <1>5, <1>6

LEMMA AgeNext ==
  ASSUME IInv', NEW k \in DOMAIN map', NEW i \in DOMAIN list', list'[i] = map'[k]
  PROVE  Age'[k] = i - 1
  <1>1. \A j \in DOMAIN list' : list'[j] = map'[k] => j = i
    BY DEF IInv, MapMatchesList
  <1>2. PlaceIn(list', map'[k]) = i
    BY <1>1, PlaceIs
  <1> QED
    BY <1>2 DEF Age

\* Moving the node of a key to the front makes it the key used last.
LEMMA HitUses ==
  ASSUME IInv, IInv', NEW key \in DOMAIN map,
         list' = ToFront(PlaceIn(list, map[key])), map' = map
  PROVE  /\ Age' = Promise!Used(key)
         /\ \A k \in DOMAIN map : Promise!Used(key)[k] < maxSize
  <1>1. list \in Seq(Nodes) /\ DOMAIN list = 1 .. Len(list) /\ Len(list) \in Nat
        /\ maxSize \in Nat /\ Len(list) <= maxSize
    BY DEF IInv, TypeOK, MapMatchesList
  <1>2. PICK p \in 1 .. Len(list) :
          /\ list' = ToFront(p) /\ list[p] = map[key] /\ p = Age[key] + 1
    <2>1. PlaceIn(list, map[key]) \in 1 .. Len(list) /\ list[PlaceIn(list, map[key])] = map[key]
      BY PlaceOfFound
    <2>2. Age[key] = PlaceIn(list, map[key]) - 1
      BY DEF Age
    <2> QED
      BY <1>1, <2>1, <2>2
  <1>3. /\ DOMAIN list' = 1 .. Len(list)
        /\ \A j \in 1 .. Len(list) :
             list'[j] = IF j = 1 THEN list[p] ELSE IF j <= p THEN list[j - 1] ELSE list[j]
    BY <1>1, <1>2 DEF ToFront
  <1>4. ASSUME NEW k \in DOMAIN map
        PROVE  Age'[k] = Promise!Used(key)[k] /\ Promise!Used(key)[k] < maxSize
    <2>1. Age[k] + 1 \in 1 .. Len(list) /\ list[Age[k] + 1] = map[k]
      BY AgeOf
    <2>2. Promise!Used(key)[k] = IF k = key THEN 0
                                 ELSE IF Age[key] < Age[k] THEN Age[k] ELSE Age[k] + 1
      BY AgeOf DEF Promise!Used, Promise!Held
    <2>3. Age[k] = Age[key] => k = key
      BY AgeOf
    <2>4. Age[k] \in Int /\ Age[key] \in Int
      BY AgeOf
    <2>5. CASE k = key
      <3>1. 1 \in DOMAIN list' /\ list'[1] = map'[k]
        BY <1>1, <1>2, <1>3, <2>5
      <3> QED
        BY <1>1, <2>2, <2>5, <3>1, AgeNext
    <2>6. CASE k # key /\ Age[key] < Age[k]
      <3>1. Age[k] + 1 \in DOMAIN list' /\ list'[Age[k] + 1] = map'[k]
        BY <1>1, <1>2, <1>3, <2>1, <2>4, <2>6
      <3> QED
        BY <1>1, <2>1, <2>2, <2>4, <2>6, <3>1, AgeNext
    <2>7. CASE k # key /\ Age[k] < Age[key]
      <3>1. Age[k] + 2 \in DOMAIN list' /\ list'[Age[k] + 2] = map'[k]
        <4>1. Age[k] + 2 \in 1 .. Len(list) /\ Age[k] + 2 # 1 /\ Age[k] + 2 <= p
              /\ (Age[k] + 2) - 1 = Age[k] + 1
          BY <1>1, <1>2, <2>1, <2>4, <2>7
        <4> QED
          BY <1>3, <2>1, <4>1
      <3>2. Age'[k] = (Age[k] + 2) - 1
        BY <3>1, AgeNext
      <3>3. Age[k] + 1 < maxSize
        BY <1>1, <1>2, <2>1, <2>4, <2>7
      <3> QED
        BY <2>2, <2>4, <2>7, <3>2, <3>3
    <2> QED
      BY <2>3, <2>4, <2>5, <2>6, <2>7
  <1>5. DOMAIN Promise!Used(key) = DOMAIN map
    BY AgeOf DEF Promise!Used, Promise!Held
  <1>6. Age' = [k \in DOMAIN map |-> Age'[k]] /\ Promise!Used(key) = [k \in DOMAIN map |-> Promise!Used(key)[k]]
    BY <1>5 DEF Age, Promise!Used
  <1> QED
    BY <1>4, <1>6

\* Keeping the front of the list keeps the keys fewer than n others were
\* used after.
LEMMA FirstKept ==
  ASSUME IInv, NEW n \in Nat
  PROVE  DOMAIN MapWithout(n) = {k \in DOMAIN map : Age[k] < n}
  <1>1. \A k \in DOMAIN map : Age[k] \in Nat /\ Age[k] = PlaceIn(list, map[k]) - 1
    BY AgeOf DEF Age
  <1>2. \A k \in DOMAIN map : PlaceIn(list, map[k]) \in Int
    BY PlaceOfFound
  <1>3. \A k \in DOMAIN map : k \in DOMAIN MapWithout(n) <=> PlaceIn(list, map[k]) \in 1 .. n
    BY MapOfFirst
  <1>4. DOMAIN MapWithout(n) \subseteq DOMAIN map
    BY DEF MapWithout
  <1> QED
    BY <1>1, <1>2, <1>3, <1>4

\* Popping nodes makes the cache forget the keys used least lately.
LEMMA PopKeeps ==
  ASSUME IInv, IInv', NEW n \in Nat \ {0},
         list' = FirstOf(n), map' = MapWithout(n), UNCHANGED node
  PROVE  Promise!Keep(Age, Value, n)
  <1>1. DOMAIN map' = {k \in DOMAIN Age : Age[k] < n}
    BY FirstKept, AgeOf
  <1>2. /\ list \in Seq(Nodes) /\ DOMAIN list = 1 .. Len(list) /\ Len(list) \in Nat
        /\ \A j \in 1 .. Len(list) : j <= n => j \in DOMAIN list' /\ list'[j] = list[j]
    BY DEF FirstOf, IInv, TypeOK
  <1>3. ASSUME NEW k \in DOMAIN map'
        PROVE  Age'[k] = Age[k] /\ Value'[k] = Value[k]
    <2>1. k \in DOMAIN map /\ map'[k] = map[k] /\ Age[k] < n
      BY <1>1, AgeOf DEF MapWithout
    <2>2. Age[k] \in Nat /\ Age[k] + 1 \in 1 .. Len(list) /\ list[Age[k] + 1] = map[k]
      BY <2>1, AgeOf
    <2>3. Age[k] + 1 \in DOMAIN list' /\ list'[Age[k] + 1] = map'[k]
      BY <1>2, <2>1, <2>2
    <2>4. Age'[k] = Age[k]
      BY <2>2, <2>3, AgeNext
    <2> QED
      BY <2>1, <2>4 DEF Value
  <1>4. Age' = [k \in DOMAIN map' |-> Age'[k]] /\ Value' = [k \in DOMAIN map' |-> Value'[k]]
    BY DEF Age, Value
  <1> QED
    BY <1>1, <1>3, <1>4 DEF Promise!Keep

\* A fresh node is that of the key used last; if the list was full, the key
\* used least lately is forgotten.
LEMMA InsertKeeps ==
  ASSUME IInv, IInv', NEW key \in Keys, NEW v \in Values, ~Found(key), Insert(key, v)
  PROVE  Promise!Keep(Promise!Used(key), Promise!With(key, v), maxSize)
  <1> DEFINE kept == IF Len(list) >= maxSize THEN Len(list) - 1 ELSE Len(list)
  <1>1. /\ list \in Seq(Nodes) /\ DOMAIN list = 1 .. Len(list) /\ Len(list) \in Nat
        /\ maxSize \in Nat \ {0} /\ Len(list) <= maxSize
    BY DEF IInv, TypeOK, MapMatchesList
  <1>2. kept \in Nat /\ kept <= Len(list) /\ kept + 1 <= maxSize /\ (kept < Len(list) => kept + 1 = maxSize)
    <2>1. CASE Len(list) >= maxSize
      <3>1. Len(list) \in Nat /\ maxSize \in Nat /\ maxSize # 0 /\ Len(list) = maxSize
        <4>1. \A a, b \in Nat : a >= b /\ a <= b => a = b
          OBVIOUS
        <4>2. Len(list) \in Nat /\ maxSize \in Nat /\ maxSize # 0 /\ Len(list) <= maxSize
          BY <1>1
        <4> QED
          BY <2>1, <4>1, <4>2
      <3>2. kept = Len(list) - 1
        BY <2>1
      <3> HIDE DEF kept
      <3> QED
        BY <3>1, <3>2
    <2>2. CASE ~(Len(list) >= maxSize)
      <3>1. kept = Len(list)
        BY <2>2
      <3> QED
        BY <1>1, <2>2, <3>1
    <2> QED
      BY <2>1, <2>2
  <1>3. PICK n \in Nodes \ {list[i] : i \in 1 .. kept} :
          /\ list' = AddedFirst(n, FirstOf(kept))
          /\ node' = [node EXCEPT ![n] = [key |-> key, value |-> v]]
          /\ map' = [k \in DOMAIN MapWithout(kept) \cup {key} |->
                       IF k = key THEN n ELSE map[k]]
    BY DEF Insert
  <1> HIDE DEF kept
  <1>4. DOMAIN MapWithout(kept) = {k \in DOMAIN map : Age[k] < kept}
    BY <1>2, FirstKept
  <1>5. /\ DOMAIN list' = 1 .. kept + 1 /\ list'[1] = n
        /\ \A j \in 1 .. kept : list'[j + 1] = list[j]
    <2>1. FirstOf(kept) = [j \in 1 .. kept |-> list[j]]
      <3>1. Len(list) \in Nat /\ kept \in Nat /\ ~(Len(list) < kept)
        BY <1>1, <1>2
      <3> QED
        BY <3>1 DEF FirstOf
    <2>2. Len(FirstOf(kept)) = kept
      BY <1>2, <2>1
    <2>3. list' = [j \in 1 .. kept + 1 |-> IF j = 1 THEN n ELSE FirstOf(kept)[j - 1]]
      BY <1>3, <2>2 DEF AddedFirst
    <2> QED
      BY <1>2, <2>1, <2>3
  <1>6. key \notin DOMAIN map /\ key \notin DOMAIN Age
    BY AgeOf DEF Found
  <1>7. /\ DOMAIN Promise!Used(key) = DOMAIN map \cup {key}
        /\ Promise!Used(key)[key] = 0
        /\ \A k \in DOMAIN map : Promise!Used(key)[k] = Age[k] + 1
    BY <1>6, AgeOf DEF Promise!Used, Promise!Held
  <1>8. /\ Promise!With(key, v)[key] = v
        /\ \A k \in DOMAIN map : Promise!With(key, v)[k] = Value[k]
    BY <1>6, AgeOf DEF Promise!With, Promise!Held
  <1>9. DOMAIN map' = {k \in DOMAIN Promise!Used(key) : Promise!Used(key)[k] < maxSize}
    <2>1. \A k \in DOMAIN map : Age[k] < kept <=> Age[k] + 1 < maxSize
      BY <1>1, <1>2, AgeOf
    <2> QED
      BY <1>1, <1>3, <1>4, <1>6, <1>7, <2>1
  <1>10. ASSUME NEW k \in DOMAIN map'
         PROVE  Age'[k] = Promise!Used(key)[k] /\ Value'[k] = Promise!With(key, v)[k]
    <2>1. CASE k = key
      <3>1. 1 \in DOMAIN list' /\ list'[1] = map'[k]
        BY <1>2, <1>3, <1>5, <2>1
      <3>2. Age'[k] = 0
        BY <3>1, AgeNext
      <3>3. Value'[k] = v
        BY <1>3, <2>1 DEF Value, IInv, TypeOK
      <3> QED
        BY <1>7, <1>8, <2>1, <3>2, <3>3
    <2>2. CASE k # key
      <3>1. k \in DOMAIN map /\ map'[k] = map[k] /\ Age[k] < kept
        BY <1>3, <1>4, <2>2
      <3>2. Age[k] \in Nat /\ Age[k] + 1 \in 1 .. kept /\ list[Age[k] + 1] = map[k]
        BY <1>2, <3>1, AgeOf
      <3>3. Age[k] + 2 \in DOMAIN list' /\ list'[Age[k] + 2] = map'[k]
        <4>1. (Age[k] + 1) + 1 \in DOMAIN list' /\ list'[(Age[k] + 1) + 1] = list[Age[k] + 1]
          BY <1>2, <1>5, <3>2
        <4>2. (Age[k] + 1) + 1 = Age[k] + 2
          BY <3>2
        <4> QED
          BY <3>1, <3>2, <4>1, <4>2
      <3>4. Age'[k] = (Age[k] + 2) - 1
        BY <3>3, AgeNext
      <3>5. map[k] # n
        BY <1>2, <1>3, <3>2
      <3>6. Value'[k] = Value[k]
        BY <1>3, <3>1, <3>5 DEF Value, IInv, TypeOK
      <3> QED
        BY <1>7, <1>8, <3>1, <3>2, <3>4, <3>6
    <2> QED
      BY <2>1, <2>2
  <1>11. Age' = [k \in DOMAIN map' |-> Age'[k]] /\ Value' = [k \in DOMAIN map' |-> Value'[k]]
    BY DEF Age, Value
  <1> QED
    BY <1>9, <1>10, <1>11 DEF Promise!Keep

\* Erasing a key makes those used before it one younger.
LEMMA EraseForgets ==
  ASSUME IInv, IInv', NEW key \in Keys, Erase(key)
  PROVE  Promise!Erase(key)
  <1>1. list \in Seq(Nodes) /\ DOMAIN list = 1 .. Len(list) /\ Len(list) \in Nat
    BY DEF IInv, TypeOK
  <1>2. /\ key \in DOMAIN map
        /\ list' = Erased(PlaceIn(list, map[key]))
        /\ map' = [k \in DOMAIN map \ {key} |-> map[k]]
        /\ UNCHANGED <<node, maxSize, answer>>
    BY DEF Erase, Found
  <1>3. PICK p \in 1 .. Len(list) :
          list' = Erased(p) /\ list[p] = map[key] /\ p = Age[key] + 1
    <2>1. PlaceIn(list, map[key]) \in 1 .. Len(list) /\ list[PlaceIn(list, map[key])] = map[key]
      BY <1>2, PlaceOfFound
    <2>2. Age[key] = PlaceIn(list, map[key]) - 1
      BY <1>2 DEF Age
    <2> QED
      BY <1>1, <1>2, <2>1, <2>2
  <1>4. /\ DOMAIN list' = 1 .. Len(list) - 1
        /\ \A j \in 1 .. Len(list) - 1 : list'[j] = IF j < p THEN list[j] ELSE list[j + 1]
    BY <1>1, <1>3 DEF Erased
  <1>5. ASSUME NEW k \in DOMAIN map \ {key}
        PROVE  /\ Age'[k] = IF Age[key] < Age[k] THEN Age[k] - 1 ELSE Age[k]
               /\ Value'[k] = Value[k]
    <2>1. Age[k] \in Nat /\ Age[k] + 1 \in 1 .. Len(list) /\ list[Age[k] + 1] = map[k]
      BY AgeOf
    <2>2. Age[key] \in Nat /\ Age[k] # Age[key]
      BY <1>2, AgeOf
    <2>3. k \in DOMAIN map' /\ map'[k] = map[k]
      BY <1>2
    <2>4. CASE Age[key] < Age[k]
      <3>1. Age[k] \in 1 .. Len(list) - 1 /\ ~(Age[k] < p)
        BY <1>1, <1>3, <2>1, <2>2, <2>4
      <3>2. Age[k] \in DOMAIN list' /\ list'[Age[k]] = map'[k]
        BY <1>4, <2>1, <2>3, <3>1
      <3>3. Age'[k] = Age[k] - 1
        BY <2>3, <3>2, AgeNext
      <3> QED
        BY <1>2, <2>3, <2>4, <3>3 DEF Value
    <2>5. CASE Age[k] < Age[key]
      <3>1. Age[k] + 1 \in 1 .. Len(list) - 1 /\ Age[k] + 1 < p
        BY <1>1, <1>3, <2>1, <2>2, <2>5
      <3>2. Age[k] + 1 \in DOMAIN list' /\ list'[Age[k] + 1] = map'[k]
        BY <1>4, <2>1, <2>3, <3>1
      <3>3. Age'[k] = (Age[k] + 1) - 1
        BY <2>3, <3>2, AgeNext
      <3>4. Age'[k] = Age[k] /\ ~(Age[key] < Age[k])
        BY <2>1, <2>2, <2>5, <3>3
      <3> QED
        BY <1>2, <2>3, <3>4 DEF Value
    <2> QED
      BY <2>1, <2>2, <2>4, <2>5
  <1>6. /\ DOMAIN map' = DOMAIN Age \ {key}
        /\ Age' = [k \in DOMAIN map' |-> Age'[k]]
        /\ Value' = [k \in DOMAIN map' |-> Value'[k]]
    BY <1>2, AgeOf DEF Age, Value
  <1> QED
    BY <1>2, <1>5, <1>6, AgeOf DEF Promise!Erase, Promise!Held

\* Every step of the cache is a step of the promise, or changes nothing of it.
LEMMA StepKept ==
  ASSUME IInv, IInv', [Next]_vars
  PROVE  [Promise!Next]_Promise!vars
  <1>1. maxSize \in Nat \ {0} /\ maxSize' \in Nat \ {0}
    BY DEF IInv, TypeOK
  <1>2. ASSUME NEW key \in Keys, Get(key)
        PROVE  Promise!Hit(key) \/ Promise!Missed(key)
    <2>1. CASE /\ Found(key) /\ list' = ToFront(PlaceIn(list, map[key]))
               /\ answer' = node[map[key]].value /\ UNCHANGED <<node, map, maxSize>>
      <3>1. key \in DOMAIN map
        BY <2>1 DEF Found
      <3>2. Age' = Promise!Used(key)
        BY <2>1, <3>1, HitUses
      <3>3. Value' = Value /\ answer' = Value[key]
        BY <2>1, <3>1 DEF Value
      <3> QED
        BY <2>1, <3>1, <3>2, <3>3, AgeOf DEF Promise!Hit, Promise!Held
    <2>2. CASE ~Found(key) /\ answer' = Miss /\ UNCHANGED <<list, node, map, maxSize>>
      BY <2>2, AgeOf DEF Found, Age, Value, Promise!Missed, Promise!Held
    <2> QED
      BY <1>2, <2>1, <2>2 DEF Get
  <1>3. ASSUME NEW key \in Keys, NEW v \in Values, Put(key, v)
        PROVE  Promise!Put(key, v)
    <2>1. UNCHANGED <<maxSize, answer>>
      BY <1>3 DEF Put
    <2>2. CASE ~Found(key) /\ Insert(key, v)
      BY <2>1, <2>2, InsertKeeps DEF Promise!Put
    <2>3. CASE /\ Found(key) /\ node' = [node EXCEPT ![map[key]].value = v]
               /\ list' = ToFront(PlaceIn(list, map[key])) /\ UNCHANGED map
      <3>1. key \in DOMAIN map /\ map' = map
        BY <2>3 DEF Found
      <3>2. Age' = Promise!Used(key) /\ \A k \in DOMAIN map : Promise!Used(key)[k] < maxSize
        BY <2>3, <3>1, HitUses
      <3>3. DOMAIN Promise!Used(key) = DOMAIN map /\ DOMAIN Promise!With(key, v) = DOMAIN map
        BY <3>1, AgeOf DEF Promise!Used, Promise!With, Promise!Held
      <3>4. \A k \in DOMAIN map : node'[map[k]].value = IF k = key THEN v ELSE node[map[k]].value
        <4>1. \A k \in DOMAIN map : node[map[k]].key = k /\ map[k] \in Nodes
          BY DEF IInv, MapMatchesList, TypeOK
        <4>2. node \in [Nodes -> [key : Keys, value : Values]]
          BY DEF IInv, TypeOK
        <4>3. \A k \in DOMAIN map : map[k] = map[key] => k = key
          BY <3>1, <4>1
        <4> QED
          BY <2>3, <3>1, <4>1, <4>2, <4>3
      <3>5. Value' = Promise!With(key, v)
        <4>1. Value' = [k \in DOMAIN map |-> node'[map[k]].value]
          BY <3>1 DEF Value
        <4>2. \A k \in DOMAIN map : Value[k] = node[map[k]].value
          BY DEF Value
        <4>3. Promise!With(key, v) = [k \in DOMAIN map |-> IF k = key THEN v ELSE Value[k]]
          <5>1. Promise!Held \cup {key} = DOMAIN map
            BY <3>1, AgeOf DEF Promise!Held
          <5> QED
            BY <5>1 DEF Promise!With
        <4> QED
          BY <3>4, <4>1, <4>2, <4>3
      <3>6. Age' = [k \in DOMAIN map |-> Age'[k]] /\ Value' = [k \in DOMAIN map |-> Value'[k]]
        BY <3>1 DEF Age, Value
      <3>7. {k \in DOMAIN Promise!Used(key) : Promise!Used(key)[k] < maxSize} = DOMAIN map
        BY <3>2, <3>3
      <3> QED
        BY <2>1, <3>2, <3>5, <3>6, <3>7 DEF Promise!Put, Promise!Keep
    <2> QED
      BY <1>3, <2>2, <2>3 DEF Put
  <1>4. ASSUME NEW key \in Keys, NEW v \in Values, Compute(key, v)
        PROVE  Promise!Compute(key, v)
    BY <1>4, InsertKeeps, AgeOf DEF Compute, Found, Promise!Compute, Promise!Held
  <1>5. ASSUME NEW key \in Keys, Erase(key)
        PROVE  Promise!Erase(key)
    BY <1>5, EraseForgets
  <1>6. ASSUME Clear
        PROVE  Promise!Clear
    BY <1>6 DEF Clear, Age, Value, Promise!Clear
  <1>7. ASSUME NEW n \in Sizes, SetMaxSize(n)
        PROVE  Promise!Resize
    <2>1. AtLeastOne(n) \in Nat \ {0}
      BY CacheAssumption DEF AtLeastOne
    <2>2. /\ maxSize' = AtLeastOne(n) /\ list' = FirstOf(AtLeastOne(n))
          /\ map' = MapWithout(AtLeastOne(n)) /\ UNCHANGED <<node, answer>>
      BY <1>7 DEF SetMaxSize
    <2>3. Promise!Keep(Age, Value, AtLeastOne(n))
      BY <2>1, <2>2, PopKeeps
    <2> QED
      BY <1>1, <2>2, <2>3 DEF Promise!Resize
  <1>8. CASE UNCHANGED vars
    BY <1>8 DEF vars, Age, Value, Promise!vars
  <1> QED
    BY <1>2, <1>3, <1>4, <1>5, <1>6, <1>7, <1>8 DEF Next, Promise!Next

\* The cache, its list and its map implement BoundedCache: an entry is lost
\* only to erase, clear or to as many other keys used since its last use as
\* the cache may hold, and what is held has the value that was put last.
THEOREM KeepsThePromise == Spec => Implements
  <1>1. Init => Promise!Init
    BY CacheAssumption DEF Init, AtLeastOne, Age, Value, Promise!Init
  <1>2. IInv /\ IInv' /\ [Next]_vars => [Promise!Next]_Promise!vars
    BY StepKept
  <1> QED
    BY <1>1, <1>2, Inductive, PTL DEF Spec, Implements

===============================================================================
