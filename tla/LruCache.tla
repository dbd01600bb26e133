------------------------------- MODULE LruCache -------------------------------
(***************************************************************************)
(* LRUCache (lru_cache.h): a list of nodes with the one used last at the   *)
(* front, and a map from keys to nodes of the list, which the nodes' own   *)
(* copies of the keys must match.  Every call holds mutex_ to its end, so  *)
(* it is one step; get_or_compute holds it while it calls back, and a      *)
(* callback that used the cache would never return.  The counters of hits  *)
(* and misses are left out: nothing depends on them.                       *)
(***************************************************************************)
EXTENDS Naturals, Sequences

CONSTANTS
  Keys, Values,
  Nodes,         \* the memory for list nodes
  Sizes,         \* sizes callers ask for
  Miss           \* the answer that is no value

ASSUME CacheAssumption ==
  /\ Sizes \subseteq Nat
  /\ Miss \notin Values

VARIABLES
  list,          \* list_: sequence of nodes
  node,          \* [Nodes -> the key and the value there]
  map,           \* map_: [keys -> node]
  maxSize,       \* max_size_
  answer         \* what the last get or get_or_compute returned

vars == <<list, node, map, maxSize, answer>>

-----------------------------------------------------------------------------
(* The list operations. An iterator of the map stays with its node.        *)

Found(key) == key \in DOMAIN map

PlaceIn(nodes, n) == CHOOSE i \in DOMAIN nodes : nodes[i] = n

\* bug: the node trades places with the first
SwappedToFront(i) == [list EXCEPT ![1] = list[i], ![i] = list[1]]

\* list_.splice(list_.begin(), list_, it)
ToFront(i) ==
  [j \in DOMAIN list |->
     IF j = 1 THEN list[i] ELSE IF j <= i THEN list[j - 1] ELSE list[j]]

\* list_.erase(it)
Erased(i) == [j \in 1 .. Len(list) - 1 |-> IF j < i THEN list[j] ELSE list[j + 1]]

\* list_.emplace_front
AddedFirst(n, nodes) == [j \in 1 .. Len(nodes) + 1 |-> IF j = 1 THEN n ELSE nodes[j - 1]]

\* The list and the map once all nodes after the first n were popped
FirstOf(n) == [j \in 1 .. (IF Len(list) < n THEN Len(list) ELSE n) |-> list[j]]

\* bug: the keys of the popped nodes stay in the map
WholeMap(n) == map

MapWithout(n) == [k \in DOMAIN map \ {node[list[i]].key : i \in n + 1 .. Len(list)} |-> map[k]]

\* bug: a cache of no entries is allowed
Asked(n) == n

AtLeastOne(n) == IF n > 0 THEN n ELSE 1

-----------------------------------------------------------------------------
Get(key) ==
  \/ /\ Found(key)
     /\ list' = ToFront(PlaceIn(list, map[key]))
     /\ answer' = node[map[key]].value
     /\ UNCHANGED <<node, map, maxSize>>
  \/ /\ ~Found(key)
     /\ answer' = Miss
     /\ UNCHANGED <<list, node, map, maxSize>>

\* When the list is full its last node is popped, then a new one comes first
Insert(key, v) ==
  LET kept == IF Len(list) >= maxSize THEN Len(list) - 1 ELSE Len(list)
  IN  \E n \in Nodes \ {list[i] : i \in 1 .. kept} :
        /\ list' = AddedFirst(n, FirstOf(kept))
        /\ node' = [node EXCEPT ![n] = [key |-> key, value |-> v]]
        /\ map' = [k \in DOMAIN MapWithout(kept) \cup {key} |->
                     IF k = key THEN n ELSE map[k]]

Put(key, v) ==
  /\ \/ /\ Found(key)
        /\ node' = [node EXCEPT ![map[key]].value = v]
        /\ list' = ToFront(PlaceIn(list, map[key]))
        /\ UNCHANGED map
     \/ ~Found(key) /\ Insert(key, v)
  /\ UNCHANGED <<maxSize, answer>>

\* The callback returns v
Compute(key, v) ==
  /\ ~Found(key)
  /\ Insert(key, v)
  /\ answer' = v
  /\ UNCHANGED maxSize

Erase(key) ==
  /\ Found(key)
  /\ list' = Erased(PlaceIn(list, map[key]))
  /\ map' = [k \in DOMAIN map \ {key} |-> map[k]]
  /\ UNCHANGED <<node, maxSize, answer>>

Clear ==
  /\ list' = <<>>
  /\ map' = <<>>
  /\ UNCHANGED <<node, maxSize, answer>>

SetMaxSize(n) ==
  /\ maxSize' = AtLeastOne(n)
  /\ list' = FirstOf(AtLeastOne(n))
  /\ map' = MapWithout(AtLeastOne(n))
  /\ UNCHANGED <<node, answer>>

\* What is in the memory of a node before its first use is never read
Init ==
  /\ list = <<>>
  /\ \E k \in Keys, v \in Values : node = [n \in Nodes |-> [key |-> k, value |-> v]]
  /\ map = <<>>
  /\ maxSize \in {AtLeastOne(n) : n \in Sizes}
  /\ answer = Miss

\* get_or_compute finds the key, as get does, or computes the value; a
\* callback that throws, like a key that erase does not find, changes nothing
Next ==
  \/ \E key \in Keys :
       \/ Get(key) \/ Erase(key)
       \/ \E v \in Values : Put(key, v) \/ Compute(key, v)
  \/ Clear
  \/ \E n \in Sizes : SetMaxSize(n)

Spec == Init /\ [][Next]_vars

-----------------------------------------------------------------------------
(* Properties.                                                             *)

\* Types; and there is always room for one entry, and never more than asked
\* for: at capacity one an insertion evicts before it adds.
TypeOK ==
  /\ list \in Seq(Nodes)
  /\ node \in [Nodes -> [key : Keys, value : Values]]
  /\ DOMAIN map \subseteq Keys
  /\ map \in [DOMAIN map -> Nodes]
  /\ maxSize \in Nat \ {0}
  /\ answer \in Values \cup {Miss}

\* The map and the list tell the same: every node in the list is there once
\* and is where the map has its key, and every iterator of the map is at a
\* node of the list, so no find, splice or eviction (which erases by the key
\* of the last node) ever uses an iterator of a node that was freed.
MapMatchesList ==
  /\ Len(list) <= maxSize
  /\ \A i \in DOMAIN list :
       node[list[i]].key \in DOMAIN map /\ map[node[list[i]].key] = list[i]
  /\ \A i, j \in DOMAIN list : list[i] = list[j] => i = j
  /\ \A k \in DOMAIN map :
       /\ \E i \in DOMAIN list : list[i] = map[k]
       /\ node[map[k]].key = k

\* The cache keeps the promise of BoundedCache: an entry is lost only to
\* erase, clear, or to as many other keys used since as the cache may hold.
Age == [k \in DOMAIN map |-> PlaceIn(list, map[k]) - 1]
Value == [k \in DOMAIN map |-> node[map[k]].value]

Promise == INSTANCE BoundedCache WITH age <- Age, value <- Value, capacity <- maxSize

Implements == Promise!Init /\ [][Promise!Next]_Promise!vars
===============================================================================
