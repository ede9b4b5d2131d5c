-------------------------------- MODULE L1Cache --------------------------------
(***************************************************************************)
(* The L1 cache server (caches/l1_cache.py): an LRU cache without leases.  *)
(* One event loop runs process_command without a break, so a command is a  *)
(* step; a GET that misses, and what is answered ERROR, change nothing.    *)
(***************************************************************************)
EXTENDS LruCache

VARIABLES
  cache,          \* CACHE
  uses, stored    \* history, see LruCache

vars == <<cache, uses, stored>>

\* Mutant: a hit is not marked as recently used.
GetPeeks(k) == Has(cache, k) /\ uses' = Used(uses, k) /\ UNCHANGED <<cache, stored>>

\* GET;<key> of a cached name.
GetHit(k) ==
  /\ Has(cache, k)
  /\ cache' = get(cache, k)
  /\ uses' = Used(uses, k)
  /\ UNCHANGED stored

\* SET;<key>;<value>
SET(k, v) ==
  /\ cache' = set(cache, k, v)
  /\ uses' = Used(uses, k)
  /\ stored' = [stored EXCEPT ![k] = v]

process_command == \E k \in Key : GetHit(k) \/ \E v \in Value : SET(k, v)
===============================================================================
