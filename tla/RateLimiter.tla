------------------------------ MODULE RateLimiter ------------------------------
(***************************************************************************)
(* RateLimiter.java: the sliding window of one client address, as the UDP  *)
(* and TCP workers of DnsServer use it.  Addresses share nothing but the   *)
(* map, which reset empties for all of them.                               *)
(*                                                                         *)
(* isRateLimited reads the clock, then looks the deque up, and only then   *)
(* enters the synchronized block.  So it takes three steps here,           *)
(*     Stamp  ->  Lookup  ->  Admit or Drop                                *)
(* and threads may enter the block in another order than they read the     *)
(* clock in, and with a deque that reset has taken out of the map.         *)
(***************************************************************************)
EXTENDS Integers, Sequences, FiniteSets

CONSTANTS
  Thread,           \* the worker threads
  MaxQueries,       \* maxQueries
  WindowSeconds,    \* windowSeconds
  MaxTime,          \* bound: the clock runs from 0 to MaxTime
  MaxResets         \* bound: calls of reset

ASSUME LimiterAssumption ==
  /\ IsFiniteSet(Thread) /\ Thread # {}
  /\ MaxQueries \in Nat /\ WindowSeconds \in Nat
  /\ MaxTime \in Nat /\ MaxResets \in Nat

VARIABLES
  clock,            \* Instant.now()
  deques,           \* every deque ever made for the address, oldest first
  mapped,           \* does windowMap hold the last of them?
  pc, now, held,    \* the threads: where they are, their now, their deque
  resets,           \* calls of reset so far
  admitted          \* history: the stamps each deque has let through

vars == <<clock, deques, mapped, pc, now, held, resets, admitted>>

Time == 0 .. MaxTime

TypeOK ==
  /\ clock \in Time
  /\ deques \in Seq(Seq(Time)) /\ Len(deques) <= MaxResets + 1
  /\ mapped \in BOOLEAN /\ (mapped => deques # <<>>)
  /\ pc \in [Thread -> {"idle", "stamped", "holding"}]
  /\ now \in [Thread -> Time]
  /\ held \in [Thread -> 0 .. Len(deques)]
  /\ resets \in 0 .. MaxResets
  /\ admitted \in Seq(Seq(Time)) /\ Len(admitted) = Len(deques)

Init ==
  /\ clock = 0
  /\ deques = <<>> /\ mapped = FALSE
  /\ pc = [t \in Thread |-> "idle"]
  /\ now = [t \in Thread |-> 0]
  /\ held = [t \in Thread |-> 0]
  /\ resets = 0
  /\ admitted = <<>>

\* Instant now = Instant.now().
Stamp(t) ==
  /\ pc[t] = "idle"
  /\ now' = [now EXCEPT ![t] = clock]
  /\ pc' = [pc EXCEPT ![t] = "stamped"]
  /\ UNCHANGED <<clock, deques, mapped, held, resets, admitted>>

\* Mutant: put for computeIfAbsent.
Fresh == TRUE

\* Does computeIfAbsent make a new deque?
Absent == ~mapped

\* windowMap.computeIfAbsent.
Lookup(t) ==
  /\ pc[t] = "stamped"
  /\ deques' = IF Absent THEN Append(deques, <<>>) ELSE deques
  /\ admitted' = IF Absent THEN Append(admitted, <<>>) ELSE admitted
  /\ mapped' = TRUE
  /\ held' = [held EXCEPT ![t] = Len(deques')]
  /\ pc' = [pc EXCEPT ![t] = "holding"]
  /\ UNCHANGED <<clock, now, resets>>

-------------------------------------------------------------------------------
(* The synchronized block.                                                 *)

Cutoff(t) == now[t] - WindowSeconds

\* Mutant: nothing is evicted.
EvictNone(q, cutoff) == q

\* pollFirst as long as peekFirst isBefore the cutoff: what is behind the first
\* stamp that is not stays, whatever it is.
Evict(q, cutoff) ==
  LET stale == {k \in 0 .. Len(q) : \A i \in 1 .. k : q[i] < cutoff}
      most  == CHOOSE k \in stale : \A j \in stale : j <= k
  IN  SubSeq(q, most + 1, Len(q))

\* Mutant: one query too many.
FullPlusOne(q) == Len(q) > MaxQueries

\* timestamps.size() >= maxQueries.
Full(q) == Len(q) >= MaxQueries

\* The call returns, its locals are gone.
Leave(t) ==
  /\ pc' = [pc EXCEPT ![t] = "idle"]
  /\ now' = [now EXCEPT ![t] = 0]
  /\ held' = [held EXCEPT ![t] = 0]
  /\ UNCHANGED <<clock, mapped, resets>>

\* The query is let through and its stamp added.
Admit(t) ==
  LET q == Evict(deques[held[t]], Cutoff(t))
  IN  /\ pc[t] = "holding"
      /\ ~Full(q)
      /\ deques' = [deques EXCEPT ![held[t]] = Append(q, now[t])]
      /\ admitted' = [admitted EXCEPT ![held[t]] = Append(@, now[t])]
      /\ Leave(t)

\* The query is dropped; what was stale is gone all the same.
Drop(t) ==
  LET q == Evict(deques[held[t]], Cutoff(t))
  IN  /\ pc[t] = "holding"
      /\ Full(q)
      /\ deques' = [deques EXCEPT ![held[t]] = q]
      /\ UNCHANGED admitted
      /\ Leave(t)

\* windowMap.clear().
reset ==
  /\ resets < MaxResets
  /\ resets' = resets + 1
  /\ mapped' = FALSE
  /\ UNCHANGED <<clock, deques, pc, now, held, admitted>>

Tick ==
  /\ clock < MaxTime
  /\ clock' = clock + 1
  /\ UNCHANGED <<deques, mapped, pc, now, held, resets, admitted>>

-------------------------------------------------------------------------------
(* Properties.                                                             *)

\* Queries deque g let through with a stamp in the window that ends at x.
InWindow(g, x) ==
  Cardinality({i \in DOMAIN admitted[g] : admitted[g][i] \in x - WindowSeconds .. x})

\* The threads that may hold an older stamp than the one in the block.
Others == Cardinality(Thread) - 1

\* Threads that enter the block out of order overrun the limit by less than
\* their number: in no window are more than maxQueries + Others queries let
\* through.  (A thread with a young stamp evicts what still counts for a
\* thread with an old one.)
WindowBounded ==
  \A g \in DOMAIN admitted : \A x \in Time : InWindow(g, x) <= MaxQueries + Others

\* A query is dropped only if all but Others of the maxQueries stamps that fill
\* the deque are inside its window or younger: stamps out of order hide no more
\* stale ones than that behind a fresh one.
DropsJustified ==
  [][\A t \in Thread : Drop(t) =>
       LET q == Evict(deques[held[t]], Cutoff(t))
       IN  Cardinality({i \in DOMAIN q : q[i] >= Cutoff(t)}) >= MaxQueries - Others]_vars
================================================================================
