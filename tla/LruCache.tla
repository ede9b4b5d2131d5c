------------------------------- MODULE LruCache -------------------------------
(***************************************************************************)
(* The LRUCache class, which caches/l1_cache.py and caches/l2_cache.py     *)
(* define alike.  An OrderedDict is the sequence of its entries, the least *)
(* recently used first.                                                    *)
(***************************************************************************)
EXTENDS Integers, Sequences

CONSTANTS Key, Value, Capacity

ASSUME CapacityAssumption == Capacity \in Nat \ {0}

\* The sequence s without its i-th element.
Cut(s, i) == [j \in 1 .. Len(s) - 1 |-> IF j < i THEN s[j] ELSE s[j + 1]]

Has(cache, k) == \E i \in DOMAIN cache : cache[i].key = k

\* Where in the order k is.
Place(cache, k) == CHOOSE i \in DOMAIN cache : cache[i].key = k

\* cache[k].
At(cache, k) == cache[Place(cache, k)].value

Without(cache, k) == IF Has(cache, k) THEN Cut(cache, Place(cache, k)) ELSE cache

\* move_to_end(k) and cache[k] = v.
AtEnd(cache, k, v) == Append(Without(cache, k), [key |-> k, value |-> v])

\* The cache after get(k).
get(cache, k) == IF Has(cache, k) THEN AtEnd(cache, k, At(cache, k)) ELSE cache

\* popitem(last=False) of a cache over its capacity.
Pop(cache) == IF Len(cache) > Capacity THEN Tail(cache) ELSE cache

\* The cache after set(k, v).
set(cache, k, v) == Pop(AtEnd(cache, k, v))

-------------------------------------------------------------------------------
(* Reference.  uses lists the names ever stored, the one stored or hit last *)
(* at the end, and stored the value each was given last.                    *)

Used(uses, k) ==
  IF \E i \in DOMAIN uses : uses[i] = k
  THEN Append(Cut(uses, CHOOSE i \in DOMAIN uses : uses[i] = k), k)
  ELSE Append(uses, k)

\* cache holds the names used last, as many as fit, in the order of their use
\* and with the values they were given last.
MostRecent(cache, uses, stored) ==
  LET n == IF Len(uses) < Capacity THEN Len(uses) ELSE Capacity
      Kth(i) == uses[Len(uses) - n + i]
  IN  cache = [i \in 1 .. n |-> [key |-> Kth(i), value |-> stored[Kth(i)]]]
===============================================================================
