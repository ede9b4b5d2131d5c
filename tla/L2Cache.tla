-------------------------------- MODULE L2Cache --------------------------------
(***************************************************************************)
(* The L2 cache server (caches/l2_cache.py) over all names: the LRU cache  *)
(* and lease_map, which process_command changes together.  One event loop  *)
(* runs it without a break, so a command is a step.                        *)
(***************************************************************************)
EXTENDS LruCache

CONSTANTS
  LeaseTtl,       \* LEASE_TTL_SECONDS in units of the clock
  NA              \* no value

ASSUME L2Assumption == LeaseTtl \in Nat /\ NA \notin Value

VARIABLES
  cache,          \* CACHE
  lease,          \* lease_map: the age of each lease, up to LeaseTtl + 1
  uses, stored    \* history, see LruCache

vars == <<cache, lease, uses, stored>>

NoLease == -1

Init ==
  /\ cache = <<>> /\ lease = [k \in Key |-> NoLease]
  /\ uses = <<>> /\ stored = [k \in Key |-> NA]

\* lease_map.pop(key, None).
Released(k) == [lease EXCEPT ![k] = NoLease]

\* GET of a cached name.
GetHit(k) ==
  /\ Has(cache, k)
  /\ cache' = get(cache, k)
  /\ lease' = Released(k)
  /\ uses' = Used(uses, k)
  /\ UNCHANGED stored

\* GET of another name that has no lease or an expired one: LEASE;GRANTED.
GetGranted(k) ==
  /\ ~Has(cache, k)
  /\ lease[k] = NoLease \/ lease[k] > LeaseTtl
  /\ lease' = [lease EXCEPT ![k] = 0]
  /\ UNCHANGED <<cache, uses, stored>>

\* Mutant: a full cache is emptied along with its leases.
SetClears(k, v) ==
  /\ cache' = set(cache, k, v)
  /\ uses' = Used(uses, k)
  /\ stored' = [stored EXCEPT ![k] = v]
  /\ lease' = IF Len(cache) = Capacity THEN [x \in Key |-> NoLease] ELSE Released(k)

\* SET;<key>;<value>
SET(k, v) ==
  /\ cache' = set(cache, k, v)
  /\ uses' = Used(uses, k)
  /\ stored' = [stored EXCEPT ![k] = v]
  /\ lease' = Released(k)

\* GET with LEASE;WAITING, and what is answered ERROR, change nothing.
process_command ==
  \E k \in Key : GetHit(k) \/ GetGranted(k) \/ \E v \in Value : SET(k, v)

\* time.monotonic() goes on.
Tick ==
  /\ lease' = [k \in Key |-> IF lease[k] \in 0 .. LeaseTtl THEN lease[k] + 1 ELSE lease[k]]
  /\ UNCHANGED <<cache, uses, stored>>

Next == process_command \/ Tick

-------------------------------------------------------------------------------
Name(k) == INSTANCE CacheEntry WITH
  Values <- Value, None <- NA,
  entry <- IF Has(cache, k) THEN At(cache, k) ELSE NA,
  lease <- lease[k]

\* For each single name the server behaves as CacheEntry says.  The names share
\* the LRU and the lease map; all that commands about the others can do to a
\* name is to push its entry out: its lease ends with its own SET or with time.
EachNameAlone ==
  /\ \A k \in Key : Name(k)!Init
  /\ [][\A k \in Key : Name(k)!Serve]_vars
===============================================================================
