------------------------------ MODULE CacheEntry ------------------------------
(***************************************************************************)
(* What the L2 cache promises for a single name: the abstract              *)
(* specification behind CacheLease, whose threads ask for one name, and    *)
(* L2Cache, which serves them all.  A name has an entry or a lease or      *)
(* neither; other names bear on it only by pushing its entry out.          *)
(***************************************************************************)
EXTENDS Integers

CONSTANTS Values, None, LeaseTtl

VARIABLES
  entry,        \* the cached value, or None
  lease         \* age of the lease, up to LeaseTtl + 1, or NoLease

NoLease == -1

Init == entry = None /\ lease = NoLease

\* A miss is granted the lease if there is none or it has expired.
Grant ==
  /\ entry = None
  /\ lease = NoLease \/ lease > LeaseTtl
  /\ lease' = 0
  /\ UNCHANGED entry

\* A SET fills the entry and releases the lease.
Fill ==
  /\ entry' \in Values
  /\ lease' = NoLease

\* The entry is pushed out; nobody gets a lease by that.
Evict == entry' = None /\ UNCHANGED lease

\* The lease gets older.
Age ==
  /\ lease \in 0 .. LeaseTtl
  /\ lease' = lease + 1
  /\ UNCHANGED entry

\* The server is started again.
Restart == entry' = None /\ lease' = NoLease

\* The steps of a server that is up; the last leaves this name alone.
Serve == Grant \/ Fill \/ Evict \/ Age \/ UNCHANGED <<entry, lease>>

Next == Serve \/ Restart

Spec == Init /\ [][Next]_<<entry, lease>>
===============================================================================
