----------------------------- MODULE BoundedCache -----------------------------
(***************************************************************************)
(* What lru_cache.h promises: the cache holds the values of the keys used  *)
(* last, `capacity` of them at most.  A key is used when it is put, and    *)
(* when it is got and there; asking whether it is there is no use of it.   *)
(* The age of a key that is held is the number of keys, of those held,     *)
(* that have been used since: no order of storage is implied.              *)
(***************************************************************************)
EXTENDS Naturals

CONSTANTS Keys, Values, Miss

VARIABLES
  age,         \* [keys held -> how many of them were used since]
  value,       \* [keys held -> value]
  capacity,
  answer       \* what the last call returned

vars == <<age, value, capacity, answer>>

Held == DOMAIN age

\* The ages once key has been used: the keys used since its last use, or
\* all if it was not held, are one older
Used(key) ==
  [k \in Held \cup {key} |->
     IF k = key THEN 0
     ELSE IF key \in Held /\ age[key] < age[k] THEN age[k]
     ELSE age[k] + 1]

With(key, v) == [k \in Held \cup {key} |-> IF k = key THEN v ELSE value[k]]

\* Of these keys, those stay that fewer than n others were used after
Keep(ages, values, n) ==
  LET young == {k \in DOMAIN ages : ages[k] < n}
  IN  /\ age' = [k \in young |-> ages[k]]
      /\ value' = [k \in young |-> values[k]]

Put(key, v) ==
  /\ Keep(Used(key), With(key, v), capacity)
  /\ UNCHANGED <<capacity, answer>>

Hit(key) ==
  /\ key \in Held
  /\ age' = Used(key)
  /\ answer' = value[key]
  /\ UNCHANGED <<value, capacity>>

Missed(key) ==
  /\ key \notin Held
  /\ answer' = Miss
  /\ UNCHANGED <<age, value, capacity>>

Compute(key, v) ==
  /\ key \notin Held
  /\ Keep(Used(key), With(key, v), capacity)
  /\ answer' = v
  /\ UNCHANGED capacity

Erase(key) ==
  /\ key \in Held
  /\ age' = [k \in Held \ {key} |-> IF age[key] < age[k] THEN age[k] - 1 ELSE age[k]]
  /\ value' = [k \in Held \ {key} |-> value[k]]
  /\ UNCHANGED <<capacity, answer>>

Clear ==
  /\ age' = <<>>
  /\ value' = <<>>
  /\ UNCHANGED <<capacity, answer>>

Resize ==
  /\ capacity' \in Nat \ {0}
  /\ Keep(age, value, capacity')
  /\ UNCHANGED answer

Init ==
  /\ age = <<>>
  /\ value = <<>>
  /\ capacity \in Nat \ {0}
  /\ answer = Miss

Next ==
  \/ \E key \in Keys :
       \/ Hit(key) \/ Missed(key) \/ Erase(key)
       \/ \E v \in Values : Put(key, v) \/ Compute(key, v)
  \/ Clear \/ Resize

Spec == Init /\ [][Next]_vars
===============================================================================
