------------------------------ MODULE CacheLease ------------------------------
(***************************************************************************)
(* How the control plane resolves a name: CacheClient.java against the L1  *)
(* cache (caches/l1_cache.py), the L2 cache with its leases                *)
(* (caches/l2_cache.py) and the data plane.  One name is modelled; the     *)
(* caches share nothing between names but their capacity, whose effect     *)
(* (the entry is evicted) is an action.                                    *)
(*                                                                         *)
(* Each cache runs one event loop, so a command is atomic.  Each query is  *)
(* a thread of the control plane, and every exchange with a server is a    *)
(* step of it.  The unit of time is LEASE_WAIT_MS (100 ms).  Cache         *)
(* commands take none of it: the clock ticks when every thread sleeps or   *)
(* waits for the data plane, whose answer takes up to MaxFetch units.      *)
(***************************************************************************)
EXTENDS Integers, FiniteSets

CONSTANTS
  Client,       \* the query threads of the control plane
  LeaseTtl,     \* LEASE_TTL_SECONDS in units: 50
  MaxPolls,     \* LEASE_MAX_RETRIES: 30
  MaxFetch,     \* longest time the data plane takes; send gives up after 500
  FirstRecord,  \* the data plane's record at the start: 1, or 0 if it has none
  LastRecord,   \* bound: how often the record is changed
  FaultKinds,   \* which of "l1down", "l2down", "dpdown", "evict" and
                \* "l2restart" may happen
  MaxFaults     \* bound: how many of them, altogether

ASSUME CacheAssumption ==
  /\ IsFiniteSet(Client)
  /\ LeaseTtl \in Nat /\ MaxPolls \in Nat \ {0} /\ MaxFetch \in Nat
  /\ FirstRecord \in {0, 1} /\ LastRecord \in Nat /\ FirstRecord <= LastRecord
  /\ FaultKinds \subseteq {"l1down", "l2down", "dpdown", "evict", "l2restart"}
  /\ MaxFaults \in Nat

\* Values are the successive records of the name; None is a miss, "" or N/A.
None    == 0
NoLease == -1

VARIABLES
  l1, l2,       \* the entry of the name in each cache
  lease,        \* age of the entry of lease_map, up to LeaseTtl + 1
  record,       \* what the data plane answers
  pc,           \* where each thread is
  val,          \* the value it carries
  store,        \* will it SET what it fetches?
  polls,        \* polls of waitForLease so far
  slept,        \* time spent in the current sleep or fetch
  faults

clientVars == <<pc, val, store, polls, slept>>
vars == <<l1, l2, lease, record, clientVars, faults>>

TypeOK ==
  /\ l1 \in 0 .. LastRecord /\ l2 \in 0 .. LastRecord
  /\ lease \in {NoLease} \cup (0 .. LeaseTtl + 1)
  /\ record \in 0 .. LastRecord
  /\ pc \in [Client -> {"idle", "l1", "l2", "wait", "fetch", "set2", "set1"}]
  /\ val \in [Client -> 0 .. LastRecord]
  /\ store \in [Client -> BOOLEAN]
  /\ polls \in [Client -> 0 .. MaxPolls]
  /\ slept \in [Client -> 0 .. MaxFetch + 1]
  /\ faults \in 0 .. MaxFaults

Init ==
  /\ l1 = None /\ l2 = None /\ lease = NoLease
  /\ record = FirstRecord
  /\ pc = [c \in Client |-> "idle"]
  /\ val = [c \in Client |-> None]
  /\ store = [c \in Client |-> FALSE]
  /\ polls = [c \in Client |-> 0]
  /\ slept = [c \in Client |-> 0]
  /\ faults = 0

Goto(c, label) == pc' = [pc EXCEPT ![c] = label]

Fault(kind) ==
  /\ kind \in FaultKinds
  /\ faults < MaxFaults
  /\ faults' = faults + 1

-------------------------------------------------------------------------------
(* The L2 cache's GET.                                                     *)

\* "lease_issued_at is None or (now - lease_issued_at) > LEASE_TTL_SECONDS".
LeaseFree == lease = NoLease \/ lease > LeaseTtl

\* Mutant: the old time stays in lease_map.
GrantKeepsTime == lease' = IF lease = NoLease THEN 0 ELSE lease

\* lease_map[key] = now.
Grant == lease' = 0

\* The reply is the value, LEASE;GRANTED or LEASE;WAITING.
GetHit     == l2 # None /\ lease' = NoLease
GetGranted == l2 = None /\ LeaseFree /\ Grant
GetWaiting == l2 = None /\ ~LeaseFree /\ UNCHANGED lease

-------------------------------------------------------------------------------
(* resolve.                                                                *)

\* A query arrives and finds the name in L1 or not.
QueryL1(c) ==
  /\ pc[c] = "idle"
  /\ l1 = None
  /\ Goto(c, "l2")
  /\ UNCHANGED <<l1, l2, lease, record, val, store, polls, slept, faults>>

\* L1 has the name but cannot be reached: send returns null, which is no hit.
L1Down(c) ==
  /\ pc[c] = "idle"
  /\ l1 # None
  /\ Fault("l1down")
  /\ Goto(c, "l2")
  /\ UNCHANGED <<l1, l2, lease, record, val, store, polls, slept>>

\* Begin to fetch; keep says whether the answer will be stored.
Fetch(c, keep) ==
  /\ Goto(c, "fetch")
  /\ store' = [store EXCEPT ![c] = keep]
  /\ slept' = [slept EXCEPT ![c] = 0]

QueryL2(c) ==
  /\ pc[c] = "l2"
  /\ \/ /\ GetHit
        /\ Goto(c, "set1")
        /\ val' = [val EXCEPT ![c] = l2]
        /\ UNCHANGED <<store, polls, slept>>
     \/ /\ GetGranted
        /\ Fetch(c, TRUE)
        /\ UNCHANGED <<val, polls>>
     \/ /\ GetWaiting
        /\ Goto(c, "wait")
        /\ polls' = [polls EXCEPT ![c] = 0]
        /\ slept' = [slept EXCEPT ![c] = 0]
        /\ UNCHANGED <<val, store>>
  /\ UNCHANGED <<l1, l2, record, faults>>

\* L2 cannot be reached: "Full cache miss", fetched and stored.
L2Down(c) ==
  /\ pc[c] = "l2"
  /\ Fault("l2down")
  /\ Fetch(c, TRUE)
  /\ UNCHANGED <<l1, l2, lease, record, val, polls>>

\* Mutant: the loop ends one poll early.
GivesUpEarly(n) == n + 1 >= MaxPolls

\* Is the loop of waitForLease over after n polls?
GivesUp(n) == n >= MaxPolls

\* One round of waitForLease after its sleep.  The thread that gives up fetches
\* for itself and stores nothing.
Poll(c) ==
  /\ pc[c] = "wait" /\ slept[c] >= 1
  /\ \/ /\ GetHit
        /\ Goto(c, "set1")
        /\ val' = [val EXCEPT ![c] = l2]
        /\ UNCHANGED <<store, polls, slept>>
     \/ /\ GetGranted
        /\ Fetch(c, TRUE)
        /\ UNCHANGED <<val, polls>>
     \/ /\ GetWaiting
        /\ polls' = [polls EXCEPT ![c] = @ + 1]
        /\ UNCHANGED val
        /\ IF GivesUp(polls[c] + 1)
           THEN Fetch(c, FALSE)
           ELSE slept' = [slept EXCEPT ![c] = 0] /\ UNCHANGED <<pc, store>>
  /\ UNCHANGED <<l1, l2, record, faults>>

\* L2 cannot be reached any more: the loop is left at once.
PollDown(c) ==
  /\ pc[c] = "wait" /\ slept[c] >= 1
  /\ Fault("l2down")
  /\ Fetch(c, FALSE)
  /\ UNCHANGED <<l1, l2, lease, record, val, polls>>

\* Mutant: a blank answer is asked for again.
RetryBlank(v, keep) == IF v = None THEN "l2" ELSE IF keep THEN "set2" ELSE "idle"

\* Mutant: a blank answer is stored like any other.
StoreBlank(v, keep) == IF keep THEN "set2" ELSE "idle"

\* What follows a fetch: an answer that is not blank is stored if it was fetched
\* to be; a blank one goes to the client, and the lease stays.
AfterFetch(v, keep) == IF v # None /\ keep THEN "set2" ELSE "idle"

\* The data plane answers.
FetchReturns(c) ==
  /\ pc[c] = "fetch"
  /\ val' = [val EXCEPT ![c] = record]
  /\ Goto(c, AfterFetch(record, store[c]))
  /\ UNCHANGED <<l1, l2, lease, record, store, polls, slept, faults>>

\* It does not, or send times out: "" is what fetchFromDataPlane returns.
FetchFails(c) ==
  /\ pc[c] = "fetch"
  /\ Fault("dpdown")
  /\ val' = [val EXCEPT ![c] = None]
  /\ Goto(c, AfterFetch(None, store[c]))
  /\ UNCHANGED <<l1, l2, lease, record, store, polls, slept>>

\* SET on L2, which releases the lease, whoever holds it.
SetL2(c) ==
  /\ pc[c] = "set2"
  /\ l2' = val[c]
  /\ lease' = NoLease
  /\ Goto(c, "set1")
  /\ UNCHANGED <<l1, record, val, store, polls, slept, faults>>

\* Mutant: the value is written back to both caches.
SetBoth(c) ==
  /\ pc[c] = "set1"
  /\ l1' = val[c]
  /\ l2' = val[c]
  /\ Goto(c, "idle")
  /\ UNCHANGED <<lease, record, val, store, polls, slept, faults>>

\* SET on L1, then the client gets its answer.
SetL1(c) ==
  /\ pc[c] = "set1"
  /\ l1' = val[c]
  /\ Goto(c, "idle")
  /\ UNCHANGED <<l2, lease, record, val, store, polls, slept, faults>>

\* A SET whose server cannot be reached changes nothing there.
SetLost(c) ==
  /\ \/ pc[c] = "set2" /\ Fault("l2down") /\ Goto(c, "set1")
     \/ pc[c] = "set1" /\ Fault("l1down") /\ Goto(c, "idle")
  /\ UNCHANGED <<l1, l2, lease, record, val, store, polls, slept>>

-------------------------------------------------------------------------------
(* Around the threads.                                                     *)

\* Nobody has anything to do that takes no time, and no answer is overdue.
Waiting(c) ==
  \/ pc[c] = "idle"
  \/ pc[c] = "wait" /\ slept[c] = 0
  \/ pc[c] = "fetch" /\ slept[c] < MaxFetch

Tick ==
  /\ \A c \in Client : Waiting(c)
  /\ slept' = [c \in Client |-> IF pc[c] \in {"wait", "fetch"} THEN slept[c] + 1
                                ELSE slept[c]]
  /\ lease' = IF lease \in 0 .. LeaseTtl THEN lease + 1 ELSE lease
  /\ UNCHANGED <<l1, l2, record, pc, val, store, polls, faults>>

\* The record changes in the data plane, which tells no cache.
Change ==
  /\ record < LastRecord
  /\ record' = record + 1
  /\ UNCHANGED <<l1, l2, lease, clientVars, faults>>

\* SETs of other names push the entry out; lease_map is not a part of the LRU.
Evict ==
  /\ Fault("evict")
  /\ \/ l1' = None /\ UNCHANGED l2
     \/ l2' = None /\ UNCHANGED l1
  /\ UNCHANGED <<lease, record, clientVars>>

\* The L2 process is restarted.
L2Restart ==
  /\ Fault("l2restart")
  /\ l2' = None /\ lease' = NoLease
  /\ UNCHANGED <<l1, record, clientVars>>

resolve(c) ==
  \/ QueryL2(c) \/ Poll(c) \/ FetchReturns(c) \/ SetL2(c) \/ SetL1(c)

Next ==
  \/ \E c \in Client : \/ QueryL1(c) \/ resolve(c)
                       \/ L1Down(c) \/ L2Down(c) \/ PollDown(c) \/ FetchFails(c) \/ SetLost(c)
  \/ Tick \/ Change \/ Evict \/ L2Restart

\* Threads run, time passes and the data plane answers or send times out;
\* nobody need ask, change a record or fail.
Fairness == WF_vars(Tick) /\ \A c \in Client : WF_vars(resolve(c))

Spec     == Init /\ [][Next]_vars
FairSpec == Spec /\ Fairness

-------------------------------------------------------------------------------
(* Properties.                                                             *)

\* The caches hold only records the data plane has had, and no thread is about
\* to store anything else: not a blank answer, not a reply about a lease -
\* whatever server fails in the middle of a query.
OnlyRecordsCached ==
  /\ l1 <= record /\ l2 <= record
  /\ \A c \in Client : pc[c] \in {"set1", "set2"} => val[c] \in 1 .. record

\* l2_cache.py: "only one is granted a lease and fetches from the data-plane
\* leader; the others wait and then read the populated value".
OneFetch == Cardinality({c \in Client : pc[c] = "fetch"}) <= 1

\* A SET never puts an older record over a newer one in L2: the lease orders
\* the fetches of a name.
NoStaleSet == [][l2' = None \/ l2 <= l2']_vars

\* However slow the data plane is, leases go out more than LeaseTtl apart, so
\* that only so many threads fetch under one at the same time.
GrantsSpaced ==
  faults = 0 =>
    Cardinality({c \in Client : pc[c] = "fetch" /\ store[c]})
      <= MaxFetch \div (LeaseTtl + 1) + 1

L2 == INSTANCE CacheEntry WITH Values <- 1 .. LastRecord, None <- None, entry <- l2

\* What the threads make of the name's entry and lease in L2 is what CacheEntry
\* allows, and L2Cache provides for each name: the protocol is not relying on
\* anything a cache that serves other names as well would not do.
L2Behaves == L2!Spec

\* Every query is answered: no one waits for a lease for ever, whether its
\* holder found nothing, was slow or its SET got lost.
EveryQueryEnds == \A c \in Client : pc[c] # "idle" ~> pc[c] = "idle"
===============================================================================
