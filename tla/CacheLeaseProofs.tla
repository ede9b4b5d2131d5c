--------------------------- MODULE CacheLeaseProofs ---------------------------
(***************************************************************************)
(* CacheLease for any number of query threads, any lease, polling and      *)
(* fetch times and any failures: its types, that the caches never hold     *)
(* anything but a record of the data plane, how many threads fetch under   *)
(* a lease, and when the lease orders and unites the fetches of a name.    *)
(***************************************************************************)
EXTENDS CacheLease, FiniteSetTheorems, TLAPS

\* A thread polls again only with polls left, and time in a fetch or a sleep is
\* counted only up to its limit; without this the counters outgrow their types.
CountersRoom ==
  \A c \in Client : /\ pc[c] = "wait" => polls[c] < MaxPolls /\ slept[c] <= 1
                    /\ pc[c] = "fetch" => slept[c] <= MaxFetch

Inv == TypeOK /\ OnlyRecordsCached /\ CountersRoom

LEMMA InitInv == Init => Inv
BY CacheAssumption
   DEF Init, Inv, TypeOK, OnlyRecordsCached, CountersRoom, None, NoLease

\* The three replies of a GET keep the lease in its type.
LEMMA GetType ==
  ASSUME TypeOK, GetHit \/ GetGranted \/ GetWaiting
  PROVE  lease' \in {NoLease} \cup (0 .. LeaseTtl + 1)
BY CacheAssumption DEF TypeOK, GetHit, GetGranted, GetWaiting, Grant, NoLease

LEMMA QueryL2Inv ==
  ASSUME Inv, NEW c \in Client, QueryL2(c)
  PROVE  Inv'
<1>0. TypeOK /\ lease' \in {NoLease} \cup (0 .. LeaseTtl + 1)
  BY GetType DEF Inv, QueryL2
<1>1. CASE GetHit /\ Goto(c, "set1") /\ val' = [val EXCEPT ![c] = l2]
           /\ UNCHANGED <<store, polls, slept>>
  <2>1. l2 \in 1 .. record
    BY <1>0, <1>1 DEF GetHit, Inv, TypeOK, OnlyRecordsCached, None
  <2>2. TypeOK'
    BY <1>0, <1>1 DEF TypeOK, QueryL2, Goto
  <2>3. OnlyRecordsCached' /\ CountersRoom'
    BY <1>0, <1>1, <2>1
       DEF Inv, TypeOK, OnlyRecordsCached, CountersRoom, QueryL2, Goto
  <2> QED BY <2>2, <2>3 DEF Inv
<1>2. CASE GetGranted /\ Fetch(c, TRUE) /\ UNCHANGED <<val, polls>>
  <2>1. TypeOK'
    BY <1>0, <1>2, CacheAssumption DEF TypeOK, QueryL2, Fetch, Goto
  <2>2. OnlyRecordsCached' /\ CountersRoom'
    BY <1>0, <1>2, CacheAssumption
       DEF Inv, TypeOK, OnlyRecordsCached, CountersRoom, QueryL2, Fetch, Goto
  <2> QED BY <2>1, <2>2 DEF Inv
<1>3. CASE /\ GetWaiting
           /\ Goto(c, "wait")
           /\ polls' = [polls EXCEPT ![c] = 0]
           /\ slept' = [slept EXCEPT ![c] = 0]
           /\ UNCHANGED <<val, store>>
  <2>1. TypeOK'
    BY <1>0, <1>3, CacheAssumption DEF TypeOK, QueryL2, Goto
  <2>2. OnlyRecordsCached' /\ CountersRoom'
    BY <1>0, <1>3, CacheAssumption
       DEF Inv, TypeOK, OnlyRecordsCached, CountersRoom, QueryL2, Goto
  <2> QED BY <2>1, <2>2 DEF Inv
<1> QED BY <1>1, <1>2, <1>3 DEF QueryL2

LEMMA PollInv ==
  ASSUME Inv, NEW c \in Client, Poll(c)
  PROVE  Inv'
<1>0. /\ TypeOK
      /\ lease' \in {NoLease} \cup (0 .. LeaseTtl + 1)
      /\ polls[c] < MaxPolls
      /\ UNCHANGED <<l1, l2, record, faults>>
  BY GetType DEF Inv, Poll, CountersRoom
<1>1. CASE GetHit /\ Goto(c, "set1") /\ val' = [val EXCEPT ![c] = l2]
           /\ UNCHANGED <<store, polls, slept>>
  <2>1. l2 \in 1 .. record
    BY <1>0, <1>1 DEF GetHit, Inv, TypeOK, OnlyRecordsCached, None
  <2>2. TypeOK'
    BY <1>0, <1>1 DEF TypeOK, Goto
  <2>3. OnlyRecordsCached' /\ CountersRoom'
    BY <1>0, <1>1, <2>1 DEF Inv, TypeOK, OnlyRecordsCached, CountersRoom, Goto
  <2> QED BY <2>2, <2>3 DEF Inv
<1>2. CASE GetGranted /\ Fetch(c, TRUE) /\ UNCHANGED <<val, polls>>
  <2>1. TypeOK'
    BY <1>0, <1>2, CacheAssumption DEF TypeOK, Fetch, Goto
  <2>2. OnlyRecordsCached' /\ CountersRoom'
    BY <1>0, <1>2, CacheAssumption
       DEF Inv, TypeOK, OnlyRecordsCached, CountersRoom, Fetch, Goto
  <2> QED BY <2>1, <2>2 DEF Inv
<1>3. CASE /\ polls' = [polls EXCEPT ![c] = @ + 1]
           /\ UNCHANGED val
           /\ GivesUp(polls[c] + 1)
           /\ Fetch(c, FALSE)
  <2>1. TypeOK'
    BY <1>0, <1>3, CacheAssumption DEF TypeOK, Fetch, Goto
  <2>2. OnlyRecordsCached' /\ CountersRoom'
    BY <1>0, <1>3, CacheAssumption
       DEF Inv, TypeOK, OnlyRecordsCached, CountersRoom, Fetch, Goto
  <2> QED BY <2>1, <2>2 DEF Inv
<1>4. CASE /\ polls' = [polls EXCEPT ![c] = @ + 1]
           /\ UNCHANGED val
           /\ ~GivesUp(polls[c] + 1)
           /\ slept' = [slept EXCEPT ![c] = 0]
           /\ UNCHANGED <<pc, store>>
  <2>1. TypeOK'
    BY <1>0, <1>4, CacheAssumption DEF TypeOK
  <2>2. OnlyRecordsCached' /\ CountersRoom'
    BY <1>0, <1>4, CacheAssumption
       DEF Inv, TypeOK, OnlyRecordsCached, CountersRoom, GivesUp
  <2> QED BY <2>1, <2>2 DEF Inv
<1> QED BY <1>1, <1>2, <1>3, <1>4 DEF Poll

\* The steps that begin a fetch because a server is down.
LEMMA DownInv ==
  ASSUME Inv, NEW c \in Client, L2Down(c) \/ PollDown(c)
  PROVE  Inv'
<1>1. \E keep \in BOOLEAN : /\ Fetch(c, keep)
                            /\ Fault("l2down")
                            /\ UNCHANGED <<l1, l2, lease, record, val, polls>>
  BY DEF L2Down, PollDown
<1> QED BY <1>1, CacheAssumption
        DEF Inv, TypeOK, OnlyRecordsCached, CountersRoom, Fetch, Goto, Fault

\* A record goes on to be stored, a blank answer does not.
LEMMA FetchEndsInv ==
  ASSUME Inv, NEW c \in Client, FetchReturns(c) \/ FetchFails(c)
  PROVE  Inv'
<1>1. PICK v \in {record, None} :
        /\ val' = [val EXCEPT ![c] = v]
        /\ pc' = [pc EXCEPT ![c] = AfterFetch(v, store[c])]
        /\ UNCHANGED <<l1, l2, lease, record, store, polls, slept>>
        /\ faults' = faults \/ Fault("dpdown")
  BY DEF FetchReturns, FetchFails, Goto
<1>2. AfterFetch(v, store[c]) \in {"set2", "idle"}
      /\ (AfterFetch(v, store[c]) = "set2" => v \in 1 .. record)
      /\ v \in 0 .. LastRecord /\ faults' \in 0 .. MaxFaults
  BY <1>1, CacheAssumption DEF AfterFetch, Inv, TypeOK, None, Fault
<1>3. TypeOK'
  BY <1>1, <1>2 DEF Inv, TypeOK
<1>4. OnlyRecordsCached' /\ CountersRoom'
  BY <1>1, <1>2 DEF Inv, TypeOK, OnlyRecordsCached, CountersRoom
<1> QED BY <1>3, <1>4 DEF Inv

LEMMA SetInv ==
  ASSUME Inv, NEW c \in Client, SetL2(c) \/ SetL1(c) \/ SetLost(c)
  PROVE  Inv'
<1>1. CASE SetL2(c)
  BY <1>1, CacheAssumption
     DEF Inv, TypeOK, OnlyRecordsCached, CountersRoom, SetL2, Goto, NoLease
<1>2. CASE SetL1(c)
  BY <1>2 DEF Inv, TypeOK, OnlyRecordsCached, CountersRoom, SetL1, Goto
<1>3. CASE SetLost(c)
  BY <1>3, CacheAssumption
     DEF Inv, TypeOK, OnlyRecordsCached, CountersRoom, SetLost, Goto, Fault
<1> QED BY <1>1, <1>2, <1>3

LEMMA QueryL1Inv ==
  ASSUME Inv, NEW c \in Client, QueryL1(c) \/ L1Down(c)
  PROVE  Inv'
BY CacheAssumption
   DEF Inv, TypeOK, OnlyRecordsCached, CountersRoom, QueryL1, L1Down, Goto, Fault

LEMMA TickInv ==
  ASSUME Inv, Tick
  PROVE  Inv'
<1>1. \A c \in Client : slept'[c] = IF pc[c] \in {"wait", "fetch"} THEN slept[c] + 1
                                    ELSE slept[c]
  BY DEF Tick
<1>2. \A c \in Client : slept'[c] \in 0 .. MaxFetch + 1
  BY <1>1, CacheAssumption DEF Inv, TypeOK, Tick, Waiting
<1>3. TypeOK'
  BY <1>2, CacheAssumption DEF Inv, TypeOK, Tick, NoLease
<1>4. OnlyRecordsCached'
  BY DEF Inv, OnlyRecordsCached, Tick
<1>5. CountersRoom'
  BY <1>1, CacheAssumption DEF Inv, TypeOK, CountersRoom, Tick, Waiting
<1> QED BY <1>3, <1>4, <1>5 DEF Inv

\* The record moves on, an entry is lost, L2 starts again.
LEMMA AroundInv ==
  ASSUME Inv, Change \/ Evict \/ L2Restart
  PROVE  Inv'
<1>1. CASE Change
  BY <1>1, CacheAssumption
     DEF Inv, TypeOK, OnlyRecordsCached, CountersRoom, Change, clientVars
<1>2. CASE Evict
  BY <1>2, CacheAssumption
     DEF Inv, TypeOK, OnlyRecordsCached, CountersRoom, Evict, Fault, clientVars, None
<1>3. CASE L2Restart
  BY <1>3, CacheAssumption
     DEF Inv, TypeOK, OnlyRecordsCached, CountersRoom, L2Restart, Fault, clientVars, None,
         NoLease
<1> QED BY <1>1, <1>2, <1>3

LEMMA StepInv == Inv /\ [Next]_vars => Inv'
<1> SUFFICES ASSUME Inv, [Next]_vars PROVE Inv'
  OBVIOUS
<1>1. CASE UNCHANGED vars
  BY <1>1 DEF Inv, TypeOK, OnlyRecordsCached, CountersRoom, vars, clientVars
<1>2. ASSUME NEW c \in Client,
             \/ QueryL1(c) \/ resolve(c)
             \/ L1Down(c) \/ L2Down(c) \/ PollDown(c) \/ FetchFails(c) \/ SetLost(c)
      PROVE  Inv'
  BY <1>2, QueryL1Inv, QueryL2Inv, PollInv, DownInv, FetchEndsInv, SetInv DEF resolve
<1>3. CASE Tick
  BY <1>3, TickInv
<1>4. CASE Change \/ Evict \/ L2Restart
  BY <1>4, AroundInv
<1> QED BY <1>1, <1>2, <1>3, <1>4 DEF Next

\* The strengthened invariant holds in every reachable state.
THEOREM Invariance == Spec => []Inv
BY InitInv, StepInv, PTL DEF Spec

\* waitForLease never polls more than LEASE_MAX_RETRIES times and no fetch is
\* awaited past its limit, in any interleaving.
THEOREM TypeCorrect == Spec => []TypeOK
<1>1. Inv => TypeOK
  BY DEF Inv
<1> QED BY <1>1, Invariance, PTL

\* Neither cache ever holds, and no thread is ever about to store, anything but
\* a record the data plane has had.
THEOREM CachesHoldRecords == Spec => []OnlyRecordsCached
<1>1. Inv => OnlyRecordsCached
  BY DEF Inv
<1> QED BY <1>1, Invariance, PTL

\* A GET of L2 leaves the entry and at most grants or releases the lease.
LEMMA GetRefines ==
  ASSUME Inv, UNCHANGED l2, GetHit \/ GetGranted \/ GetWaiting
  PROVE  L2!Next
<1> USE DEF L2!Next, L2!Serve
<1>1. CASE GetHit
  <2>1. l2' \in 1 .. LastRecord /\ lease' = L2!NoLease
    BY <1>1, CacheAssumption DEF GetHit, Inv, TypeOK, None, NoLease, L2!NoLease
  <2> QED BY <2>1 DEF L2!Fill
<1>2. CASE GetGranted
  BY <1>2 DEF GetGranted, LeaseFree, Grant, NoLease, L2!Grant, L2!NoLease
<1>3. CASE GetWaiting
  BY <1>3 DEF GetWaiting
<1> QED BY <1>1, <1>2, <1>3

\* Every step of the threads, the clock and the faults is a step of the name's
\* entry in L2.  A SET needs the invariant: what a thread stores is a record.
LEMMA StepRefines == Inv /\ [Next]_vars => [L2!Next]_<<l2, lease>>
<1> SUFFICES ASSUME Inv, Next PROVE L2!Next \/ UNCHANGED <<l2, lease>>
  BY DEF vars
<1>1. ASSUME NEW c \in Client, QueryL2(c) \/ Poll(c) PROVE L2!Next
  BY <1>1, GetRefines DEF QueryL2, Poll
<1>2. ASSUME NEW c \in Client, SetL2(c) PROVE L2!Next
  <2>1. l2' \in 1 .. LastRecord /\ lease' = L2!NoLease
    BY <1>2, CacheAssumption
       DEF SetL2, Inv, TypeOK, OnlyRecordsCached, NoLease, L2!NoLease
  <2> QED BY <2>1 DEF L2!Next, L2!Serve, L2!Fill
<1>3. ASSUME NEW c \in Client,
             QueryL1(c) \/ L1Down(c) \/ L2Down(c) \/ PollDown(c) \/ FetchReturns(c)
               \/ FetchFails(c) \/ SetL1(c) \/ SetLost(c)
      PROVE  UNCHANGED <<l2, lease>>
  BY <1>3 DEF QueryL1, L1Down, L2Down, PollDown, FetchReturns, FetchFails, SetL1, SetLost
<1>4. CASE Tick
  BY <1>4 DEF Tick, L2!Next, L2!Serve, L2!Age
<1>5. CASE Change
  BY <1>5 DEF Change
<1>6. CASE Evict
  BY <1>6 DEF Evict, L2!Next, L2!Serve, L2!Evict
<1>7. CASE L2Restart
  BY <1>7 DEF L2Restart, NoLease, L2!Next, L2!Restart, L2!NoLease
<1> QED
  BY <1>1, <1>2, <1>3, <1>4, <1>5, <1>6, <1>7 DEF Next, resolve

\* Query resolution implements the abstract entry: whatever the threads, the
\* clock and the faults do to the name in L2 is a step CacheEntry allows.
THEOREM EntryRefined == Spec => L2Behaves
<1>1. Init => L2!Init
  BY DEF Init, L2!Init, NoLease, L2!NoLease
<1> QED
  BY <1>1, StepRefines, Invariance, PTL DEF Spec, L2Behaves, L2!Spec

-------------------------------------------------------------------------------
(* How many threads fetch under a lease while nothing fails.               *)

Holders == {c \in Client : pc[c] = "fetch" /\ store[c]}

\* Before the entry is filled, a lease that is out is no older than the fetch of
\* any holder, and two holders began more than LeaseTtl apart.
Spaced ==
  /\ l2 = None /\ lease = NoLease => Holders = {}
  /\ l2 = None /\ lease # NoLease => \A c \in Holders : slept[c] >= lease
  /\ \A c, d \in Holders : c = d \/ slept[c] > slept[d] + LeaseTtl
                                 \/ slept[d] > slept[c] + LeaseTtl

SpacedWithoutFaults == faults = 0 => Spaced

\* The lease goes to one more thread.
LEMMA GrantSpaced ==
  ASSUME TypeOK, Spaced, NEW c \in Client, pc[c] # "fetch", GetGranted, Fetch(c, TRUE),
         UNCHANGED l2
  PROVE  Spaced'
<1>1. Holders' = Holders \cup {c} /\ slept'[c] = 0
      /\ \A d \in Holders : d # c /\ slept'[d] = slept[d] /\ slept[d] \in Nat
  BY DEF Holders, Fetch, Goto, TypeOK
<1>2. lease' = 0 /\ \A d \in Holders : slept[d] > LeaseTtl
  BY <1>1, CacheAssumption DEF GetGranted, Grant, LeaseFree, Spaced, TypeOK, NoLease
<1> QED BY <1>1, <1>2, CacheAssumption DEF Spaced, NoLease

\* Other replies, and steps that end a fetch or begin one without the lease.
LEMMA FewerSpaced ==
  ASSUME TypeOK, Spaced, Holders' \subseteq Holders, UNCHANGED l2,
         \A c \in Holders' : slept'[c] = slept[c],
         lease' = lease \/ l2 # None
  PROVE  Spaced'
BY DEF Spaced

LEMMA StepSpaced == Inv /\ SpacedWithoutFaults /\ [Next]_vars => SpacedWithoutFaults'
<1> SUFFICES ASSUME Inv, SpacedWithoutFaults, [Next]_vars, faults' = 0 PROVE Spaced'
  BY DEF SpacedWithoutFaults
<1>0. TypeOK /\ faults \in Nat
  BY DEF Inv, TypeOK
<1>1. ASSUME NEW kind, Fault(kind) PROVE FALSE
  BY <1>0, <1>1 DEF Fault
<1>2. Spaced
  <2>1. faults' = faults
    BY <1>1 DEF Next, resolve, QueryL1, QueryL2, Poll, FetchReturns, SetL2, SetL1, L1Down,
       L2Down, PollDown, FetchFails, SetLost, Tick, Change, Evict, L2Restart, vars
  <2> QED BY <2>1 DEF SpacedWithoutFaults
<1>3. ASSUME NEW c \in Client, QueryL2(c) \/ Poll(c) PROVE Spaced'
  <2>1. CASE GetGranted /\ Fetch(c, TRUE)
    BY <1>0, <1>2, <1>3, <2>1, GrantSpaced DEF QueryL2, Poll
  <2>2. CASE ~(GetGranted /\ Fetch(c, TRUE))
    <3>1. Holders' \subseteq Holders /\ \A d \in Holders' : slept'[d] = slept[d]
      BY <1>0, <1>3, <2>2 DEF QueryL2, Poll, Holders, Fetch, Goto, TypeOK
    <3> QED BY <1>0, <1>2, <1>3, <2>2, <3>1, FewerSpaced
            DEF QueryL2, Poll, GetHit, GetWaiting
  <2> QED BY <2>1, <2>2
<1>4. ASSUME NEW c \in Client, QueryL1(c) \/ FetchReturns(c) \/ SetL1(c) PROVE Spaced'
  <2>1. Holders' \subseteq Holders
    BY <1>0, <1>4 DEF QueryL1, FetchReturns, SetL1, Holders, Goto, TypeOK, AfterFetch
  <2> QED BY <1>0, <1>2, <1>4, <2>1, FewerSpaced DEF QueryL1, FetchReturns, SetL1
<1>5. ASSUME NEW c \in Client, SetL2(c) PROVE Spaced'
  <2>1. Holders' \subseteq Holders /\ slept' = slept
    BY <1>0, <1>5 DEF SetL2, Holders, Goto, TypeOK
  <2>2. l2' # None
    BY <1>0, <1>5 DEF SetL2, Inv, OnlyRecordsCached, TypeOK, None
  <2> QED BY <1>2, <2>1, <2>2 DEF Spaced
<1>6. CASE Tick
  <2>1. Holders' = Holders /\ \A c \in Holders : slept'[c] = slept[c] + 1 /\ slept[c] \in Nat
    BY <1>0, <1>6 DEF Tick, Holders, TypeOK
  <2>2. l2' = l2 /\ (lease = NoLease <=> lease' = NoLease) /\ lease' <= lease + 1
    BY <1>0, <1>6, CacheAssumption DEF Tick, NoLease, TypeOK
  <2>3. lease \in Int /\ lease' \in Int
    BY <1>0, <1>6, CacheAssumption DEF Tick, NoLease, TypeOK
  <2> QED BY <1>2, <2>1, <2>2, <2>3, CacheAssumption DEF Spaced
<1>7. CASE Change \/ UNCHANGED vars
  <2>1. UNCHANGED <<l2, lease, pc, store, slept>>
    BY <1>7 DEF Change, vars, clientVars
  <2> QED BY <1>0, <1>2, <2>1, FewerSpaced DEF Holders
<1> QED
  BY <1>1, <1>3, <1>4, <1>5, <1>6, <1>7
     DEF Next, resolve, L1Down, L2Down, PollDown, FetchFails, SetLost, Evict, L2Restart

\* What a quotient is.
LEMMA Quotient ==
  ASSUME NEW a \in Nat, NEW d \in Nat \ {0}
  PROVE  a \div d \in Nat /\ d * (a \div d) <= a /\ a < d * (a \div d) + d
OBVIOUS

\* Times more than LeaseTtl apart fall into different stretches of that length.
LEMMA Stretches ==
  ASSUME NEW a \in Nat, NEW b \in Nat, NEW d \in Nat \ {0}
  PROVE  /\ a <= b => a \div d <= b \div d
         /\ b >= a + d => a \div d # b \div d
<1> DEFINE p == a \div d
           q == b \div d
<1>1. /\ p \in Nat /\ d * p <= a /\ a < d * p + d
      /\ q \in Nat /\ d * q <= b /\ b < d * q + d
  BY Quotient
<1>2. d * p \in Nat /\ d * q \in Nat
  BY <1>1
<1> HIDE DEF p, q
<1>3. ASSUME a <= b, p >= q + 1 PROVE FALSE
  <2>1. d * p >= d * q + d
    BY <1>1, <1>3
  <2> QED BY <1>1, <1>2, <1>3, <2>1
<1>4. ASSUME b >= a + d, p = q PROVE FALSE
  BY <1>1, <1>2, <1>4
<1>5. (a <= b => p <= q) /\ (b >= a + d => p # q)
  BY <1>1, <1>3, <1>4
<1> QED BY <1>5 DEF p, q

\* Leases go out more than LeaseTtl apart, so that however slow the data plane
\* is, no more threads fetch under one at a time than fit into the longest
\* fetch.
THEOREM GrantsAreSpaced == Spec => []GrantsSpaced
<1>1. Init => SpacedWithoutFaults
  BY DEF Init, SpacedWithoutFaults, Spaced, Holders
<1>2. ASSUME Inv, SpacedWithoutFaults PROVE GrantsSpaced
  <2> SUFFICES ASSUME faults = 0
               PROVE  Cardinality(Holders) <= MaxFetch \div (LeaseTtl + 1) + 1
    BY DEF GrantsSpaced, Holders
  <2> DEFINE d == LeaseTtl + 1
             K == 0 .. MaxFetch \div d
             f == [c \in Holders |-> slept[c] \div d]
  <2>1. d \in Nat \ {0} /\ MaxFetch \in Nat /\ MaxFetch \div d \in Nat
    BY CacheAssumption, Quotient
  <2>2. \A c \in Holders : slept[c] \in Nat /\ slept[c] <= MaxFetch
    BY <1>2 DEF Inv, TypeOK, CountersRoom, Holders
  <2>3. \A c \in Holders : f[c] \in K
    BY <2>1, <2>2, Stretches, Quotient
  <2>4. ASSUME NEW c \in Holders, NEW e \in Holders, c # e PROVE f[c] # f[e]
    <3>1. slept[c] >= slept[e] + d \/ slept[e] >= slept[c] + d
      BY <1>2, <2>2, <2>4, CacheAssumption DEF SpacedWithoutFaults, Spaced
    <3> QED BY <2>1, <2>2, <3>1, Stretches
  <2>5. f \in Injection(Holders, K)
    BY <2>3, <2>4 DEF Injection, IsInjective
  <2>6. IsFiniteSet(K) /\ Cardinality(K) = MaxFetch \div d + 1
    BY <2>1, FS_Interval
  <2> HIDE DEF d, K, f
  <2>7. Cardinality(Holders) <= MaxFetch \div d + 1
    BY <2>5, <2>6, FS_Injection
  <2> QED BY <2>7 DEF d
<1>3. Inv /\ SpacedWithoutFaults => GrantsSpaced
  BY <1>2
<1> QED BY <1>1, <1>3, InitInv, StepInv, StepSpaced, PTL DEF Spec

-------------------------------------------------------------------------------
(* What the lease achieves while it outlives every fetch and L2 is up.     *)

\* The data plane answers within the lease and every command reaches L2.
LeaseSuffices == MaxFetch <= LeaseTtl /\ FaultKinds \cap {"l2down", "l2restart"} = {}

\* The threads that will SET what they have or get.
Storing == Holders \cup {c \in Client : pc[c] = "set2"}

\* There is one at most, its lease is in force, and the entry is empty.
Alone ==
  /\ \A c, d \in Storing : c = d
  /\ \A c \in Storing : l2 = None /\ lease \in 0 .. LeaseTtl
  /\ \A c \in Holders : lease = slept[c]

\* A reply of L2 to a thread that is not storing.
LEMMA ReplyAlone ==
  ASSUME Inv, Alone, LeaseSuffices, NEW c \in Client, QueryL2(c) \/ Poll(c)
  PROVE  Alone'
<1>0. TypeOK /\ c \notin Storing /\ l2' = l2
  BY DEF Inv, QueryL2, Poll, Storing, Holders
<1>1. CASE GetGranted /\ Fetch(c, TRUE)
  <2>1. Storing = {}
    BY <1>1, CacheAssumption DEF Alone, GetGranted, LeaseFree, NoLease
  <2>2. Storing' = {c} /\ Holders' = {c} /\ slept'[c] = 0 /\ lease' = 0
    BY <1>0, <1>1, <2>1 DEF Storing, Holders, Fetch, Goto, GetGranted, Grant, TypeOK
  <2> QED BY <1>0, <1>1, <2>2, CacheAssumption DEF Alone, GetGranted
<1>2. CASE ~(GetGranted /\ Fetch(c, TRUE))
  <2>1. Storing' = Storing /\ Holders' = Holders /\ \A d \in Holders : slept'[d] = slept[d]
    BY <1>0, <1>2 DEF QueryL2, Poll, Storing, Holders, Fetch, Goto, TypeOK
  <2>2. lease' = lease \/ Storing = {}
    BY <1>2 DEF QueryL2, Poll, GetHit, GetWaiting, Alone
  <2> QED BY <1>0, <2>1, <2>2 DEF Alone, Storing
<1> QED BY <1>1, <1>2

LEMMA StepAlone ==
  ASSUME LeaseSuffices
  PROVE  Inv /\ Alone /\ [Next]_vars => Alone'
<1> SUFFICES ASSUME Inv, Alone, [Next]_vars PROVE Alone'
  OBVIOUS
<1>0. TypeOK
  BY DEF Inv
<1>1. ~Fault("l2down") /\ ~Fault("l2restart")
  BY DEF LeaseSuffices, Fault
<1>2. ASSUME NEW c \in Client, QueryL2(c) \/ Poll(c) PROVE Alone'
  BY <1>2, ReplyAlone
<1>3. ASSUME NEW c \in Client, QueryL1(c) \/ L1Down(c) \/ SetL1(c) \/ SetLost(c) PROVE Alone'
  <2>1. /\ Storing' = Storing /\ Holders' = Holders
        /\ UNCHANGED <<l2, lease, slept>>
    BY <1>0, <1>1, <1>3 DEF QueryL1, L1Down, SetL1, SetLost, Storing, Holders, Goto, TypeOK
  <2> QED BY <2>1 DEF Alone
<1>4. ASSUME NEW c \in Client, FetchReturns(c) \/ FetchFails(c) PROVE Alone'
  <2>1. /\ Storing' \subseteq Storing /\ Holders' \subseteq Holders
        /\ UNCHANGED <<l2, lease, slept>>
    BY <1>0, <1>4 DEF FetchReturns, FetchFails, AfterFetch, Storing, Holders, Goto, TypeOK
  <2> QED BY <2>1 DEF Alone
<1>5. ASSUME NEW c \in Client, SetL2(c) PROVE Alone'
  <2>1. Storing = {c}
    BY <1>5 DEF SetL2, Storing, Alone
  <2>2. Storing' = {} /\ Holders' = {}
    BY <1>0, <1>5, <2>1 DEF SetL2, Storing, Holders, Goto, TypeOK
  <2> QED BY <2>2 DEF Alone
<1>6. CASE Tick
  <2>1. Storing' = Storing /\ Holders' = Holders /\ Storing = Holders /\ l2' = l2
    BY <1>6 DEF Tick, Waiting, Storing, Holders
  <2>2. ASSUME NEW c \in Holders
        PROVE  lease' \in 0 .. LeaseTtl /\ lease' = slept'[c]
    <3>1. lease = slept[c] /\ slept[c] < MaxFetch /\ slept[c] \in Nat
          /\ slept'[c] = slept[c] + 1
      BY <1>0, <1>6 DEF Alone, Holders, Tick, Waiting, TypeOK
    <3> QED BY <1>6, <3>1, CacheAssumption DEF LeaseSuffices, Tick
  <2> QED BY <2>1, <2>2 DEF Alone
<1>7. CASE Change \/ Evict \/ UNCHANGED vars
  <2>1. /\ UNCHANGED <<pc, store, slept, lease>>
        /\ l2' = l2 \/ l2' = None
    BY <1>7 DEF Change, Evict, vars, clientVars
  <2> QED BY <2>1 DEF Alone, Storing, Holders
<1> QED
  BY <1>1, <1>2, <1>3, <1>4, <1>5, <1>6, <1>7
     DEF Next, resolve, L2Down, PollDown, L2Restart

LEMMA InitAlone == Init => Alone
BY DEF Init, Alone, Storing, Holders

\* While the lease outlives every fetch and every command reaches L2, a SET never
\* puts an older record over a newer one: it finds the entry empty.
THEOREM SetsInOrder ==
  ASSUME LeaseSuffices
  PROVE  Spec => NoStaleSet
<1>1. ASSUME Inv, Alone, [Next]_vars PROVE l2' = None \/ l2 <= l2' \/ UNCHANGED vars
  <2>0. l2 \in Nat /\ \A c \in Client : val[c] \in Nat
    BY <1>1 DEF Inv, TypeOK
  <2>1. ASSUME NEW c \in Client, SetL2(c) PROVE l2 <= l2'
    BY <1>1, <2>0, <2>1 DEF SetL2, Alone, Storing, None
  <2>2. CASE \A c \in Client : ~SetL2(c)
    <3>1. l2' = l2 \/ l2' = None
      BY <1>1, <2>2 DEF Next, resolve, QueryL1, QueryL2, Poll, FetchReturns, SetL1, L1Down,
         L2Down, PollDown, FetchFails, SetLost, Tick, Change, Evict, L2Restart, vars
    <3> QED BY <2>0, <3>1
  <2> QED BY <2>1, <2>2
<1>2. Inv /\ Alone /\ [Next]_vars => [l2' = None \/ l2 <= l2']_vars
  BY <1>1
<1> QED
  BY <1>2, InitInv, StepInv, InitAlone, StepAlone, PTL DEF Spec, NoStaleSet

-------------------------------------------------------------------------------
(* When one thread at a time fetches.                                      *)

\* Besides, the data plane has the name and only caches fail, each time costing
\* the waiting threads one more fetch, and they have polls enough for all.
PollsSuffice ==
  /\ LeaseSuffices
  /\ FirstRecord = 1 /\ FaultKinds \subseteq {"evict", "l1down"}
  /\ MaxPolls >= MaxFaults * (MaxFetch + 1) + MaxFetch + 1

\* How many polls the faults so far may have cost.
Cost == faults * (MaxFetch + 1)

\* The lease is out exactly while a thread is storing, every fetch is one, and
\* a waiting thread has polled no longer than the fetches it waited for.
Patient ==
  /\ record >= 1
  /\ \A c \in Client : pc[c] = "fetch" => store[c]
  /\ \A c \in Storing : slept[c] <= MaxFetch
  /\ Storing = {} => lease = NoLease
  /\ \A c \in Client : pc[c] = "wait" =>
       /\ \A h \in Storing : polls[c] + slept[c] <= Cost + slept[h]
       /\ l2 # None => polls[c] <= Cost + MaxFetch
       /\ l2 = None /\ Storing = {} => polls[c] < Cost

\* A fault is worth one more fetch, and all of them together are bounded.
LEMMA CostGrows ==
  ASSUME TypeOK
  PROVE  /\ Cost \in Nat /\ Cost <= MaxFaults * (MaxFetch + 1)
         /\ MaxFaults * (MaxFetch + 1) \in Nat
         /\ faults' = faults + 1 => Cost' = Cost + MaxFetch + 1
<1> DEFINE W == MaxFetch + 1
<1>1. W \in Nat /\ faults \in Nat /\ MaxFaults \in Nat /\ faults <= MaxFaults
  BY CacheAssumption DEF TypeOK
<1> HIDE DEF W
<1>2. faults * W \in Nat /\ MaxFaults * W \in Nat /\ faults * W <= MaxFaults * W
  BY <1>1
<1>3. faults' = faults + 1 => faults' * W = faults * W + W
  BY <1>1
<1>4. W = MaxFetch + 1
  BY DEF W
<1> QED BY <1>1, <1>2, <1>3, <1>4, CacheAssumption DEF Cost

\* A thread that polls while another is storing has polls left.
LEMMA KeepsPolling ==
  ASSUME Inv, Alone, Patient, PollsSuffice, NEW c \in Client, Poll(c), GetWaiting
  PROVE  ~GivesUp(polls[c] + 1)
<1>1. PICK h \in Storing : TRUE
  BY DEF GetWaiting, LeaseFree, Patient
<1>2. /\ polls[c] + slept[c] <= Cost + slept[h] /\ slept[c] >= 1 /\ slept[h] <= MaxFetch
      /\ polls[c] \in Nat /\ slept[c] \in Nat /\ slept[h] \in Nat
  BY <1>1 DEF Poll, Patient, Inv, TypeOK, Storing, Holders
<1> QED
  BY <1>2, CostGrows, CacheAssumption DEF Inv, PollsSuffice, GivesUp

LEMMA ReplyPatient ==
  ASSUME Inv, Alone, Patient, PollsSuffice, NEW c \in Client, QueryL2(c) \/ Poll(c)
  PROVE  Patient'
<1>0. /\ TypeOK /\ c \notin Storing /\ l2' = l2 /\ Cost' = Cost /\ record' = record
      /\ \A d \in Client : d # c => /\ pc'[d] = pc[d] /\ polls'[d] = polls[d]
                                    /\ slept'[d] = slept[d] /\ store'[d] = store[d]
  BY DEF Inv, TypeOK, QueryL2, Poll, Storing, Holders, Cost, Fetch, Goto
<1>1. \A d \in Client : polls[d] \in Nat /\ slept[d] \in Nat /\ (pc[d] = "wait" => slept[d] <= 1)
  BY <1>0 DEF TypeOK, Inv, CountersRoom
<1>2. Cost \in Nat
  BY <1>0, CostGrows
<1>3. CASE GetHit /\ Goto(c, "set1")
  <2>1. Storing' = {} /\ lease' = NoLease /\ pc'[c] = "set1"
    BY <1>0, <1>3 DEF Alone, GetHit, Storing, Holders, Goto, TypeOK
  <2> QED BY <1>0, <1>3, <2>1 DEF Patient, GetHit
<1>4. CASE GetGranted /\ Fetch(c, TRUE)
  <2>1. Storing = {} /\ l2 = None
    BY <1>4, CacheAssumption DEF Alone, GetGranted, LeaseFree, NoLease
  <2>2. Storing' = {c} /\ slept'[c] = 0 /\ store'[c] /\ pc'[c] = "fetch"
    BY <1>0, <1>4, <2>1 DEF Storing, Holders, Fetch, Goto, TypeOK
  <2>3. \A d \in Client : pc'[d] = "wait" => polls'[d] + slept'[d] <= Cost
    BY <1>0, <1>1, <1>2, <2>1, <2>2 DEF Patient
  <2> QED BY <1>0, <1>2, <2>1, <2>2, <2>3, CacheAssumption DEF Patient
<1>5. CASE GetWaiting
  <2>1. Storing # {} /\ lease' = lease /\ l2 = None
    BY <1>5 DEF GetWaiting, LeaseFree, Patient
  <2>2. /\ pc'[c] = "wait" /\ slept'[c] = 0 /\ store' = store
        /\ polls'[c] = 0 \/ (pc[c] = "wait" /\ slept[c] >= 1 /\ polls'[c] = polls[c] + 1)
    <3>1. CASE QueryL2(c)
      BY <1>0, <1>5, <3>1 DEF QueryL2, GetHit, GetGranted, GetWaiting, Goto, TypeOK
    <3>2. CASE Poll(c)
      BY <1>0, <1>5, <3>2, KeepsPolling DEF Poll, GetHit, GetGranted, GetWaiting, TypeOK
    <3> QED BY <3>1, <3>2
  <2>3. Storing' = Storing /\ \A h \in Storing : slept'[h] = slept[h]
    BY <1>0, <2>2 DEF Storing, Holders
  <2>4. \A h \in Storing : polls'[c] + slept'[c] <= Cost + slept[h]
    BY <1>0, <1>1, <1>2, <2>2 DEF Patient, Storing, Holders
  <2> QED BY <1>0, <2>1, <2>2, <2>3, <2>4 DEF Patient
<1>6. (GetHit /\ Goto(c, "set1")) \/ (GetGranted /\ Fetch(c, TRUE)) \/ GetWaiting
  BY DEF QueryL2, Poll
<1> QED BY <1>3, <1>4, <1>5, <1>6

LEMMA StepPatient ==
  ASSUME PollsSuffice
  PROVE  Inv /\ Alone /\ Patient /\ [Next]_vars => Patient'
<1> SUFFICES ASSUME Inv, Alone, Patient, [Next]_vars PROVE Patient'
  OBVIOUS
<1>0. TypeOK /\ Cost \in Nat /\ \A c \in Client : polls[c] \in Nat /\ slept[c] \in Nat
  BY CostGrows DEF Inv, TypeOK
<1>1. ~Fault("l2down") /\ ~Fault("l2restart") /\ ~Fault("dpdown")
  BY DEF PollsSuffice, Fault
<1>2. ASSUME NEW c \in Client, QueryL2(c) \/ Poll(c) PROVE Patient'
  BY <1>2, ReplyPatient
<1>3. ASSUME NEW c \in Client, QueryL1(c) \/ L1Down(c) \/ SetL1(c) \/ SetLost(c) PROVE Patient'
  <2>1. /\ Storing' = Storing
        /\ UNCHANGED <<l2, lease, slept, polls, record, store>>
        /\ \A d \in Client : pc'[d] \in {"wait", "fetch"} => pc'[d] = pc[d]
    BY <1>0, <1>1, <1>3 DEF QueryL1, L1Down, SetL1, SetLost, Storing, Holders, Goto, TypeOK
  <2>2. Cost' = Cost \/ Cost' = Cost + MaxFetch + 1
    BY <1>0, <1>1, <1>3, CostGrows DEF QueryL1, L1Down, SetL1, SetLost, Fault, Cost
  <2> QED BY <1>0, <2>1, <2>2, CacheAssumption DEF Patient, Storing, Holders
<1>4. ASSUME NEW c \in Client, FetchReturns(c) \/ FetchFails(c) PROVE Patient'
  <2>1. FetchReturns(c)
    BY <1>1, <1>4 DEF FetchFails
  <2>2. AfterFetch(record, store[c]) = "set2"
    BY <1>0, <2>1 DEF AfterFetch, Patient, FetchReturns, None, TypeOK
  <2>3. Storing' = Storing
    BY <1>0, <2>1, <2>2 DEF FetchReturns, Patient, Storing, Holders, Goto, TypeOK
  <2>4. /\ UNCHANGED <<l2, lease, slept, polls, record, store, faults>>
        /\ \A d \in Client : pc'[d] \in {"wait", "fetch"} => pc'[d] = pc[d]
    BY <1>0, <2>1, <2>2 DEF FetchReturns, Goto, TypeOK
  <2> QED BY <2>3, <2>4 DEF Patient, Cost
<1>5. ASSUME NEW c \in Client, SetL2(c) PROVE Patient'
  <2>1. Storing = {c}
    BY <1>5 DEF SetL2, Storing, Alone
  <2>2. Storing' = {} /\ lease' = NoLease /\ Cost' = Cost /\ UNCHANGED <<record, store, polls>>
    BY <1>0, <1>5, <2>1 DEF SetL2, Storing, Holders, Goto, TypeOK, Cost
  <2>3. l2' # None /\ \A d \in Client : pc'[d] \in {"wait", "fetch"} => pc'[d] = pc[d]
    BY <1>0, <1>5 DEF SetL2, Inv, OnlyRecordsCached, TypeOK, None, Goto
  <2>4. \A d \in Client : pc'[d] = "wait" => polls[d] <= Cost + MaxFetch
    BY <1>0, <2>1, <2>3, CacheAssumption DEF Patient
  <2> QED BY <2>2, <2>3, <2>4 DEF Patient
<1>6. CASE Tick
  <2>1. Storing' = Storing /\ Storing = Holders
        /\ UNCHANGED <<l2, polls, record, store, pc>> /\ Cost' = Cost
    BY <1>6 DEF Tick, Waiting, Storing, Holders, Cost
  <2>2. \A d \in Client : pc[d] \in {"wait", "fetch"} => slept'[d] = slept[d] + 1
    BY <1>6 DEF Tick
  <2>3. \A h \in Storing : slept'[h] <= MaxFetch /\ pc[h] = "fetch"
    BY <1>0, <1>6, <2>1, <2>2, CacheAssumption DEF Tick, Waiting, Holders
  <2>4. lease = NoLease => lease' = NoLease
    BY <1>6, CacheAssumption DEF Tick, NoLease
  <2>5. ASSUME NEW d \in Client, pc[d] = "wait", NEW h \in Storing
        PROVE  polls[d] + slept'[d] <= Cost + slept'[h]
    <3>1. h \in Client /\ slept[h] \in Nat /\ slept'[h] = slept[h] + 1
      BY <1>0, <2>2, <2>3 DEF Storing, Holders
    <3>2. polls[d] + slept[d] <= Cost + slept[h] /\ slept'[d] = slept[d] + 1
      BY <2>2, <2>5 DEF Patient
    <3> QED BY <1>0, <3>1, <3>2
  <2> QED BY <2>1, <2>3, <2>4, <2>5 DEF Patient
<1>7. CASE Evict
  <2>1. /\ UNCHANGED <<pc, store, slept, lease, polls, record>>
        /\ l2' = l2 \/ l2' = None
        /\ Cost' = Cost + MaxFetch + 1
    BY <1>0, <1>7, CostGrows DEF Evict, clientVars, Fault
  <2>2. Storing' = Storing
    BY <2>1 DEF Storing, Holders
  <2>3. \A d \in Client : pc[d] = "wait" =>
          /\ \A h \in Storing : polls[d] + slept[d] <= Cost' + slept[h]
          /\ Storing = {} => polls[d] < Cost' /\ polls[d] <= Cost' + MaxFetch
    BY <1>0, <2>1, CacheAssumption DEF Patient, Storing, Holders
  <2>4. Storing # {} => l2' = None
    BY <2>1 DEF Alone
  <2> QED BY <2>1, <2>2, <2>3, <2>4 DEF Patient
<1>8. CASE Change \/ UNCHANGED vars
  <2>1. UNCHANGED <<l2, lease, pc, store, slept, polls, faults>>
        /\ (record' = record \/ record' = record + 1)
    BY <1>8 DEF Change, vars, clientVars
  <2> QED BY <1>0, <2>1 DEF Patient, Storing, Holders, Cost, TypeOK
<1> QED
  BY <1>1, <1>2, <1>3, <1>4, <1>5, <1>6, <1>7, <1>8
     DEF Next, resolve, L2Down, PollDown, L2Restart

\* l2_cache.py's promise: while the lease outlives every fetch, every command
\* reaches L2 and LEASE_MAX_RETRIES leaves a waiting thread a poll for every unit
\* of the fetches it may have to wait for, only one thread fetches a name.
THEOREM FetchesAlone ==
  ASSUME PollsSuffice
  PROVE  Spec => []OneFetch
<1>0. LeaseSuffices
  BY DEF PollsSuffice
<1>1. Init => Patient
  BY DEF Init, Patient, Storing, Holders, PollsSuffice
<1>2. ASSUME Alone, Patient PROVE OneFetch
  <2> DEFINE F == {c \in Client : pc[c] = "fetch"}
  <2>1. \A c, d \in F : c = d
    BY <1>2 DEF Alone, Patient, Storing, Holders
  <2>2. F = {} \/ \E c : F = {c}
    BY <2>1
  <2>3. Cardinality(F) = 0 \/ Cardinality(F) = 1
    BY <2>2, FS_EmptySet, FS_Singleton
  <2> QED BY <2>3 DEF OneFetch
<1>3. Alone /\ Patient => OneFetch
  BY <1>2
<1> QED
  BY <1>0, <1>1, <1>3, InitInv, StepInv, InitAlone, StepAlone, StepPatient, PTL DEF Spec

===============================================================================
