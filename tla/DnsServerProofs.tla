---------------------------- MODULE DnsServerProofs ----------------------------
(***************************************************************************)
(* DnsServer and its RateLimiter for any number of workers, any limit and  *)
(* any window: the pools keep their types, and threads that pass through   *)
(* the limiter out of order overrun the limit, or are dropped too early,   *)
(* by less than their number.                                              *)
(***************************************************************************)
EXTENDS DnsServer, SequenceTheorems, FiniteSetTheorems, WellFoundedInduction, TLAPS

allVars == <<vars, poolVars>>

\* The deques are made by lookups that find none in the map; a thread in the
\* block has one; no stamp is from the future.
Made == Len(deques) <= resets + (IF mapped THEN 1 ELSE 0)

Holds == \A t \in Thread : pc[t] = "holding" => held[t] \in 1 .. Len(deques)

Past ==
  /\ \A t \in Thread : now[t] <= clock
  /\ \A g \in 1 .. Len(admitted) : \A i \in 1 .. Len(admitted[g]) : admitted[g][i] <= clock

\* How many stamps deque g has lost.
Gone(g) == Len(admitted[g]) - Len(deques[g])

\* A deque is what is left at the end of all that it has let through.
Suffix ==
  \A g \in 1 .. Len(deques) :
    /\ Len(deques[g]) <= MaxQueries
    /\ Len(deques[g]) <= Len(admitted[g])
    /\ \A i \in 1 .. Len(deques[g]) : deques[g][i] = admitted[g][Gone(g) + i]

Inv == TypeOK /\ Made /\ Holds /\ Past /\ Suffix

PoolInv ==
  /\ PoolTypeOK
  /\ udpQueue <= received[1] /\ tcpQueue <= received[2]

\* The threads that are on their way through the limiter with a stamp of at
\* most x.  (Constant operators: their arguments are the states before or after.)
Pending(p, n, x) == {t \in Thread : p[t] # "idle" /\ n[t] <= x}

Window(a, x) == {i \in DOMAIN a : a[i] \in x - WindowSeconds .. x}

\* As long as deque g holds everything of the window that ends at x the limit
\* itself bounds it.  A thread that evicts some of it is later than x, and so is
\* every stamp to come: only threads under way can still add to the window.
Counted ==
  \A g \in 1 .. Len(admitted) : \A x \in Time :
    \/ \A i \in 1 .. Gone(g) : admitted[g][i] \notin x - WindowSeconds .. x
    \/ /\ clock > x
       /\ Cardinality(Window(admitted[g], x)) + Cardinality(Pending(pc, now, x))
            <= MaxQueries + Others

\* The older stamps let through after the i-th.
Overtaken(a, i) == {j \in DOMAIN a : j > i /\ a[j] < a[i]}

\* Those, and the ones still to come, are fewer than the threads.
Inversions ==
  \A g \in 1 .. Len(admitted) : \A i \in 1 .. Len(admitted[g]) :
    Cardinality(Overtaken(admitted[g], i))
      + Cardinality(Pending(pc, now, admitted[g][i] - 1)) <= Others

-------------------------------------------------------------------------------
(* The deques.                                                             *)

LEMMA DequeTypes ==
  ASSUME TypeOK
  PROVE  /\ Len(deques) \in Nat /\ Len(admitted) = Len(deques)
         /\ DOMAIN deques = 1 .. Len(deques) /\ DOMAIN admitted = 1 .. Len(deques)
         /\ \A g \in 1 .. Len(deques) :
              /\ deques[g] \in Seq(Time) /\ admitted[g] \in Seq(Time)
              /\ Len(deques[g]) \in Nat /\ DOMAIN deques[g] = 1 .. Len(deques[g])
              /\ Len(admitted[g]) \in Nat /\ DOMAIN admitted[g] = 1 .. Len(admitted[g])
              /\ \A i \in 1 .. Len(deques[g]) : deques[g][i] \in Time
              /\ \A i \in 1 .. Len(admitted[g]) : admitted[g][i] \in Time
<1>1. /\ deques \in Seq(Seq(Time)) /\ admitted \in Seq(Seq(Time))
      /\ Len(admitted) = Len(deques)
  BY DEF TypeOK
<1>2. /\ Len(deques) \in Nat /\ DOMAIN deques = 1 .. Len(deques)
      /\ DOMAIN admitted = 1 .. Len(deques)
  BY <1>1, LenProperties
<1>3. ASSUME NEW g \in 1 .. Len(deques)
      PROVE  deques[g] \in Seq(Time) /\ admitted[g] \in Seq(Time)
  BY <1>1, ElementOfSeq
<1>4. ASSUME NEW q \in Seq(Time)
      PROVE  /\ Len(q) \in Nat /\ DOMAIN q = 1 .. Len(q)
             /\ \A i \in 1 .. Len(q) : q[i] \in Time
  BY LenProperties, ElementOfSeq
<1> HIDE DEF Time
<1> QED BY <1>1, <1>2, <1>3, <1>4

LessThan == {ss \in Nat \X Nat : ss[1] < ss[2]}

LEMMA LessThanWellFounded == IsWellFoundedOn(LessThan, Nat)
BY NatLessThanWellFounded DEF LessThan, OpToRel

LEMMA GreatestExists ==
  ASSUME NEW n \in Nat, NEW S \in SUBSET (0 .. n), S # {}
  PROVE  \E m \in S : \A j \in S : j <= m
<1> DEFINE left == {n - j : j \in S}
<1>1. \A j \in S : n - j \in Nat /\ j \in Nat
  OBVIOUS
<1>2. left \subseteq Nat /\ left # {}
  BY <1>1
<1> HIDE DEF left
<1>3. PICK x \in left : \A y \in left : ~(<<y, x>> \in LessThan)
  BY <1>2, WFMin, LessThanWellFounded
<1>4. ASSUME NEW y \in left PROVE x <= y
  <2>1. y \in Nat /\ x \in Nat
    BY <1>2
  <2>2. y < x => <<y, x>> \in LessThan
    BY <2>1 DEF LessThan
  <2> QED BY <1>3, <2>1, <2>2
<1> USE DEF left
<1>5. PICK m \in S : x = n - m
  BY <1>3
<1>6. \A j \in S : j <= m
  BY <1>1, <1>4, <1>5
<1> QED BY <1>5, <1>6

\* Evict takes k stale stamps off, and the next one, if there is one, is fresh.
LEMMA EvictTrims ==
  ASSUME NEW q \in Seq(Time), NEW c \in Int
  PROVE  \E k \in 0 .. Len(q) :
           /\ Evict(q, c) \in Seq(Time) /\ Len(Evict(q, c)) = Len(q) - k
           /\ \A i \in 1 .. Len(q) - k : Evict(q, c)[i] = q[k + i]
           /\ \A i \in 1 .. k : q[i] < c
           /\ k < Len(q) => q[k + 1] >= c
<1> DEFINE stale == {k \in 0 .. Len(q) : \A i \in 1 .. k : q[i] < c}
           most  == CHOOSE k \in stale : \A j \in stale : j <= k
<1>1. Len(q) \in Nat /\ \A i \in 1 .. Len(q) : q[i] \in Time
  BY LenProperties, ElementOfSeq
<1>2. 0 \in stale
  BY <1>1
<1>3. most \in stale /\ \A j \in stale : j <= most
  <2>1. stale \in SUBSET (0 .. Len(q)) /\ stale # {}
    BY <1>2
  <2> HIDE DEF stale
  <2> QED BY <1>1, <2>1, GreatestExists
<1>4. Evict(q, c) = SubSeq(q, most + 1, Len(q))
  BY DEF Evict
<1> HIDE DEF most
<1>5. most \in 0 .. Len(q) /\ \A i \in 1 .. most : q[i] < c
  BY <1>3
<1>6. most < Len(q) => q[most + 1] >= c
  <2> SUFFICES ASSUME most < Len(q), ~(q[most + 1] >= c) PROVE FALSE
    OBVIOUS
  <2>1. q[most + 1] < c
    BY <1>1, <1>5 DEF Time
  <2>2. most + 1 \in stale
    <3>1. \A i \in 1 .. most + 1 : i = most + 1 \/ i \in 1 .. most
      BY <1>5
    <3> QED BY <1>1, <1>5, <2>1, <3>1
  <2> HIDE DEF stale
  <2> QED BY <1>1, <1>3, <1>5, <2>2
<1>7. /\ SubSeq(q, most + 1, Len(q)) \in Seq(Time)
      /\ Len(SubSeq(q, most + 1, Len(q))) =
           IF most + 1 <= Len(q) THEN Len(q) - (most + 1) + 1 ELSE 0
      /\ \A i \in 1 .. Len(q) - (most + 1) + 1 :
           SubSeq(q, most + 1, Len(q))[i] = q[most + 1 + i - 1]
  <2>1. most + 1 \in Int /\ Len(q) \in Int /\ \A i \in most + 1 .. Len(q) : q[i] \in Time
    BY <1>1, <1>5
  <2> QED BY <2>1, SubSeqProperties
<1> HIDE DEF stale
<1>8. Len(Evict(q, c)) = Len(q) - most /\ Evict(q, c) \in Seq(Time)
  BY <1>1, <1>4, <1>5, <1>7
<1>9. \A i \in 1 .. Len(q) - most : Evict(q, c)[i] = q[most + i]
  <2> SUFFICES ASSUME NEW i \in 1 .. Len(q) - most PROVE Evict(q, c)[i] = q[most + i]
    OBVIOUS
  <2>1. i \in 1 .. Len(q) - (most + 1) + 1 /\ most + 1 + i - 1 = most + i
    BY <1>1, <1>5
  <2> QED BY <1>4, <1>7, <2>1
<1> QED BY <1>5, <1>6, <1>8, <1>9

\* Deque g loses its first k stamps, which are stale at c, to a call, and no
\* other deque changes.
Trims(g, k, c) ==
  /\ g \in 1 .. Len(deques) /\ k \in 0 .. Len(deques[g]) /\ c \in Int
  /\ \A i \in 1 .. k : deques[g][i] < c
  /\ k < Len(deques[g]) => deques[g][k + 1] >= c
  /\ deques' \in Seq(Seq(Time)) /\ Len(deques') = Len(deques)
  /\ admitted' \in Seq(Seq(Time)) /\ Len(admitted') = Len(deques)
  /\ \A h \in 1 .. Len(deques) : h # g => deques'[h] = deques[h] /\ admitted'[h] = admitted[h]
  /\ \A i \in 1 .. Len(deques[g]) - k : deques'[g][i] = deques[g][k + i]

\* A call of thread t that lets the query through.
LEMMA AdmitTrims ==
  ASSUME Inv, NEW t \in Thread, Admit(t)
  PROVE  /\ held[t] \in 1 .. Len(deques) /\ now[t] \in Time
         /\ \E k \in 0 .. Len(deques[held[t]]) :
              /\ Trims(held[t], k, now[t] - WindowSeconds)
              /\ Len(deques[held[t]]) - k < MaxQueries
              /\ Len(deques'[held[t]]) = Len(deques[held[t]]) - k + 1
              /\ deques'[held[t]][Len(deques[held[t]]) - k + 1] = now[t]
              /\ Len(admitted'[held[t]]) = Len(admitted[held[t]]) + 1
              /\ admitted'[held[t]][Len(admitted[held[t]]) + 1] = now[t]
              /\ \A i \in 1 .. Len(admitted[held[t]]) :
                   admitted'[held[t]][i] = admitted[held[t]][i]
<1> DEFINE g == held[t]
           q == Evict(deques[g], Cutoff(t))
           d == Append(q, now[t])
           a == Append(admitted[g], now[t])
<1>1. TypeOK /\ g \in 1 .. Len(deques) /\ now[t] \in Time /\ WindowSeconds \in Nat
  BY LimiterAssumption DEF Inv, Holds, Admit, TypeOK
<1>2. /\ deques[g] \in Seq(Time) /\ admitted[g] \in Seq(Time)
      /\ Len(deques[g]) \in Nat /\ Len(admitted[g]) \in Nat /\ Len(deques) \in Nat
      /\ Len(admitted) = Len(deques)
  BY <1>1, DequeTypes
<1>3. Cutoff(t) = now[t] - WindowSeconds /\ Cutoff(t) \in Int
  BY <1>1 DEF Cutoff, Time
<1>4. PICK k \in 0 .. Len(deques[g]) :
        /\ q \in Seq(Time) /\ Len(q) = Len(deques[g]) - k
        /\ \A i \in 1 .. Len(deques[g]) - k : q[i] = deques[g][k + i]
        /\ \A i \in 1 .. k : deques[g][i] < Cutoff(t)
        /\ k < Len(deques[g]) => deques[g][k + 1] >= Cutoff(t)
  BY <1>2, <1>3, EvictTrims
<1>5. /\ ~Full(q)
      /\ deques' = [deques EXCEPT ![g] = d]
      /\ admitted' = [admitted EXCEPT ![g] = a]
  BY DEF Admit
<1> HIDE DEF q
<1>6. /\ d \in Seq(Time) /\ Len(d) = Len(q) + 1 /\ d[Len(q) + 1] = now[t]
      /\ \A i \in 1 .. Len(q) : d[i] = q[i]
  BY <1>1, <1>4, AppendProperties
<1>7. /\ a \in Seq(Time) /\ Len(a) = Len(admitted[g]) + 1
      /\ a[Len(admitted[g]) + 1] = now[t]
      /\ \A i \in 1 .. Len(admitted[g]) : a[i] = admitted[g][i]
  BY <1>1, <1>2, AppendProperties
<1> HIDE DEF d, a, g
<1>8. /\ deques' \in Seq(Seq(Time)) /\ Len(deques') = Len(deques)
      /\ \A h \in 1 .. Len(deques) : deques'[h] = IF h = g THEN d ELSE deques[h]
  <2>1. deques \in Seq(Seq(Time)) /\ d \in Seq(Time)
    BY <1>1, <1>6 DEF TypeOK
  <2> QED BY <1>1, <1>5, <2>1, ExceptSeq
<1>9. /\ admitted' \in Seq(Seq(Time)) /\ Len(admitted') = Len(admitted)
      /\ \A h \in 1 .. Len(admitted) : admitted'[h] = IF h = g THEN a ELSE admitted[h]
  <2>1. admitted \in Seq(Seq(Time)) /\ a \in Seq(Time) /\ g \in 1 .. Len(admitted)
    BY <1>1, <1>2, <1>7 DEF TypeOK
  <2> QED BY <1>5, <2>1, ExceptSeq
<1>10. deques'[g] = d /\ admitted'[g] = a
  BY <1>1, <1>2, <1>8, <1>9
<1>11. Len(deques[g]) - k < MaxQueries
  <2>1. ~(Len(q) >= MaxQueries)
    BY <1>5 DEF Full
  <2> QED BY <1>2, <1>4, <2>1, LimiterAssumption
<1>12. Trims(g, k, Cutoff(t))
  BY <1>1, <1>2, <1>3, <1>4, <1>6, <1>8, <1>9, <1>10 DEF Trims
<1>13. /\ Trims(g, k, now[t] - WindowSeconds) /\ Len(deques[g]) - k < MaxQueries
       /\ Len(deques'[g]) = Len(deques[g]) - k + 1
       /\ deques'[g][Len(deques[g]) - k + 1] = now[t]
       /\ Len(admitted'[g]) = Len(admitted[g]) + 1
       /\ admitted'[g][Len(admitted[g]) + 1] = now[t]
       /\ \A i \in 1 .. Len(admitted[g]) : admitted'[g][i] = admitted[g][i]
  BY <1>3, <1>4, <1>6, <1>7, <1>10, <1>11, <1>12
<1> QED BY <1>1, <1>13 DEF g

\* A call of thread t that drops the query.
LEMMA DropTrims ==
  ASSUME Inv, NEW t \in Thread, Drop(t)
  PROVE  /\ held[t] \in 1 .. Len(deques) /\ now[t] \in Time
         /\ \E k \in 0 .. Len(deques[held[t]]) :
              /\ Trims(held[t], k, now[t] - WindowSeconds)
              /\ Len(deques[held[t]]) - k >= MaxQueries
              /\ deques'[held[t]] = Evict(deques[held[t]], Cutoff(t))
              /\ Len(deques'[held[t]]) = Len(deques[held[t]]) - k
              /\ admitted' = admitted
<1> DEFINE g == held[t]
           q == Evict(deques[g], Cutoff(t))
<1>1. TypeOK /\ g \in 1 .. Len(deques) /\ now[t] \in Time /\ WindowSeconds \in Nat
  BY LimiterAssumption DEF Inv, Holds, Drop, TypeOK
<1>2. /\ deques[g] \in Seq(Time)
      /\ Len(deques[g]) \in Nat /\ Len(deques) \in Nat
      /\ Len(admitted) = Len(deques)
  BY <1>1, DequeTypes
<1>3. Cutoff(t) = now[t] - WindowSeconds /\ Cutoff(t) \in Int
  BY <1>1 DEF Cutoff, Time
<1>4. PICK k \in 0 .. Len(deques[g]) :
        /\ q \in Seq(Time) /\ Len(q) = Len(deques[g]) - k
        /\ \A i \in 1 .. Len(deques[g]) - k : q[i] = deques[g][k + i]
        /\ \A i \in 1 .. k : deques[g][i] < Cutoff(t)
        /\ k < Len(deques[g]) => deques[g][k + 1] >= Cutoff(t)
  BY <1>2, <1>3, EvictTrims
<1>5. Full(q) /\ deques' = [deques EXCEPT ![g] = q] /\ admitted' = admitted
  BY DEF Drop
<1> HIDE DEF q, g
<1>6. /\ deques' \in Seq(Seq(Time)) /\ Len(deques') = Len(deques)
      /\ \A h \in 1 .. Len(deques) : deques'[h] = IF h = g THEN q ELSE deques[h]
  <2>1. deques \in Seq(Seq(Time)) /\ q \in Seq(Time)
    BY <1>1, <1>4 DEF TypeOK
  <2> QED BY <1>1, <1>5, <2>1, ExceptSeq
<1>7. deques'[g] = q /\ Len(deques[g]) - k >= MaxQueries
  BY <1>1, <1>4, <1>5, <1>6 DEF Full
<1>8. admitted' \in Seq(Seq(Time))
  BY <1>1, <1>5 DEF TypeOK
<1>9. Trims(g, k, Cutoff(t))
  BY <1>1, <1>2, <1>3, <1>4, <1>5, <1>6, <1>7, <1>8 DEF Trims
<1>10. Trims(g, k, now[t] - WindowSeconds) /\ Len(deques'[g]) = Len(deques[g]) - k
  BY <1>3, <1>4, <1>7, <1>9
<1> QED BY <1>1, <1>5, <1>7, <1>10 DEF g, q

-------------------------------------------------------------------------------
(* The steps of the limiter and what they keep.                            *)

LEMMA InitInv == Init => Inv
<1> SUFFICES ASSUME Init PROVE Inv
  OBVIOUS
<1>1. deques = <<>> /\ admitted = <<>> /\ Len(deques) = 0 /\ Len(admitted) = 0
  BY DEF Init
<1>2. deques \in Seq(Seq(Time)) /\ admitted \in Seq(Seq(Time))
  BY <1>1, EmptySeq
<1>3. TypeOK
  <2>1. 0 \in Time /\ 0 <= MaxResets + 1 /\ 0 \in 0 .. MaxResets /\ 0 \in 0 .. Len(deques)
    BY <1>1, LimiterAssumption DEF Time
  <2>2. mapped \in BOOLEAN /\ (mapped => deques # <<>>)
    BY DEF Init
  <2>3. Len(deques) <= MaxResets + 1 /\ Len(admitted) = Len(deques)
    BY <1>1, <2>1
  <2> QED BY <1>2, <2>1, <2>2, <2>3 DEF Init, TypeOK
<1>4. Made /\ Holds /\ Past /\ Suffix
  BY <1>1 DEF Init, Made, Holds, Past, Suffix
<1> QED BY <1>3, <1>4 DEF Inv

LEMMA SameDeques ==
  ASSUME Suffix, UNCHANGED <<deques, admitted>>
  PROVE  Suffix'
BY DEF Suffix, Gone

LEMMA StampInv == ASSUME Inv, NEW t \in Thread, Stamp(t) PROVE Inv'
<1>1. TypeOK'
  BY DEF Inv, Stamp, TypeOK
<1>2. Made'
  BY DEF Inv, Made, Stamp
<1>3. Holds'
  BY DEF Inv, Holds, Stamp, TypeOK
<1>4. Past'
  <2>1. clock \in Int /\ clock' = clock /\ admitted' = admitted
    BY DEF Inv, TypeOK, Time, Stamp
  <2>2. \A r \in Thread : now'[r] = clock \/ now'[r] = now[r]
    BY DEF Inv, TypeOK, Stamp
  <2> QED BY <2>1, <2>2 DEF Inv, Past
<1>5. Suffix'
  BY SameDeques DEF Inv, Stamp
<1> QED BY <1>1, <1>2, <1>3, <1>4, <1>5 DEF Inv

LEMMA resetInv == ASSUME Inv, reset PROVE Inv'
<1>1. TypeOK'
  <2>1. resets' \in 0 .. MaxResets
    BY LimiterAssumption DEF Inv, reset, TypeOK
  <2>2. mapped' \in BOOLEAN /\ (mapped' => deques' # <<>>)
    BY DEF reset
  <2> QED BY <2>1, <2>2 DEF Inv, reset, TypeOK
<1>2. Made'
  <2>1. Len(deques) \in Nat /\ resets \in Nat
    BY DequeTypes DEF Inv, TypeOK
  <2> QED BY <2>1 DEF Inv, Made, reset
<1>3. Holds' /\ Past'
  BY DEF Inv, Holds, Past, reset
<1>4. Suffix'
  BY SameDeques DEF Inv, reset
<1> QED BY <1>1, <1>2, <1>3, <1>4 DEF Inv

LEMMA TickInv == ASSUME Inv, Tick PROVE Inv'
<1>1. TypeOK'
  BY LimiterAssumption DEF Inv, Tick, TypeOK, Time
<1>2. Made' /\ Holds'
  BY DEF Inv, Made, Holds, Tick
<1>3. Past'
  <2>1. clock \in Int /\ clock' = clock + 1 /\ now' = now /\ admitted' = admitted
    BY DEF Inv, TypeOK, Time, Tick
  <2>2. \A r \in Thread : now[r] \in Int
    BY DEF Inv, TypeOK, Time
  <2>3. \A g \in 1 .. Len(admitted) : \A i \in 1 .. Len(admitted[g]) : admitted[g][i] \in Int
    BY DequeTypes DEF Inv, Time
  <2> QED BY <2>1, <2>2, <2>3 DEF Inv, Past
<1>4. Suffix'
  BY SameDeques DEF Inv, Tick
<1> QED BY <1>1, <1>2, <1>3, <1>4 DEF Inv

\* A lookup adds an empty deque, or none, and holds the last.
LEMMA LookupAdds ==
  ASSUME Inv, NEW t \in Thread, Lookup(t)
  PROVE  /\ deques' \in Seq(Seq(Time)) /\ admitted' \in Seq(Seq(Time))
         /\ Len(deques') = Len(deques) + (IF mapped THEN 0 ELSE 1)
         /\ Len(deques') \in Nat \ {0} /\ Len(admitted') = Len(deques')
         /\ \A g \in 1 .. Len(deques) : deques'[g] = deques[g] /\ admitted'[g] = admitted[g]
         /\ \A g \in 1 .. Len(deques') :
              g \in 1 .. Len(deques) \/ (deques'[g] = <<>> /\ admitted'[g] = <<>>)
<1>1. /\ deques \in Seq(Seq(Time)) /\ admitted \in Seq(Seq(Time))
      /\ Len(deques) \in Nat /\ Len(admitted) = Len(deques)
      /\ mapped \in BOOLEAN /\ (mapped => deques # <<>>)
  BY DequeTypes DEF Inv, TypeOK
<1>2. CASE mapped
  <2>1. deques' = deques /\ admitted' = admitted
    BY <1>2 DEF Lookup, Absent
  <2>2. Len(deques) \in Nat \ {0}
    BY <1>1, <1>2, EmptySeq
  <2> QED BY <1>1, <1>2, <2>1, <2>2
<1>3. CASE ~mapped
  <2>1. <<>> \in Seq(Time)
    BY EmptySeq
  <2>2. deques' = Append(deques, <<>>) /\ admitted' = Append(admitted, <<>>)
    BY <1>3 DEF Lookup, Absent
  <2>3. /\ deques' \in Seq(Seq(Time)) /\ Len(deques') = Len(deques) + 1
        /\ deques'[Len(deques) + 1] = <<>>
        /\ \A g \in 1 .. Len(deques) : deques'[g] = deques[g]
    BY <1>1, <2>1, <2>2, AppendProperties
  <2>4. /\ admitted' \in Seq(Seq(Time)) /\ Len(admitted') = Len(admitted) + 1
        /\ admitted'[Len(admitted) + 1] = <<>>
        /\ \A g \in 1 .. Len(admitted) : admitted'[g] = admitted[g]
    BY <1>1, <2>1, <2>2, AppendProperties
  <2>5. \A g \in 1 .. Len(deques) + 1 : g \in 1 .. Len(deques) \/ g = Len(deques) + 1
    BY <1>1
  <2> QED BY <1>1, <1>3, <2>3, <2>4, <2>5
<1> QED BY <1>1, <1>2, <1>3

LEMMA LookupInv == ASSUME Inv, NEW t \in Thread, Lookup(t) PROVE Inv'
<1>1. TypeOK /\ Made /\ Holds /\ Past /\ Suffix
  BY DEF Inv
<1>2. /\ Len(deques) \in Nat /\ resets \in 0 .. MaxResets /\ mapped \in BOOLEAN
      /\ Len(admitted) = Len(deques)
  BY <1>1, DequeTypes DEF TypeOK
<1>3. /\ mapped' = TRUE /\ held' = [held EXCEPT ![t] = Len(deques')]
      /\ pc' = [pc EXCEPT ![t] = "holding"]
      /\ clock' = clock /\ now' = now /\ resets' = resets
  BY DEF Lookup
<1>4. Len(deques') <= resets + 1
  BY <1>1, <1>2, LookupAdds DEF Made
<1>5. \A r \in Thread : held[r] \in 0 .. Len(deques)
  BY <1>1 DEF TypeOK
<1>6. Len(deques') \in Nat /\ Len(deques') >= Len(deques)
  <2>1. /\ Len(deques') = Len(deques) + (IF mapped THEN 0 ELSE 1)
        /\ Len(deques') \in Nat \ {0}
    BY LookupAdds
  <2>2. Len(deques') = Len(deques) \/ Len(deques') = Len(deques) + 1
    BY <1>2, <2>1
  <2> QED BY <1>2, <2>1, <2>2
<1>7. \A r \in Thread : held'[r] \in 0 .. Len(deques')
  <2>1. \A r \in Thread : held'[r] = held[r] \/ held'[r] = Len(deques')
    BY <1>1, <1>3 DEF TypeOK
  <2> QED BY <1>2, <1>5, <1>6, <2>1
<1>8. held' \in [Thread -> 0 .. Len(deques')]
  BY <1>1, <1>3, <1>7 DEF TypeOK
<1>9. deques' # <<>>
  <2>1. Len(<<>>) = 0
    OBVIOUS
  <2> QED BY <2>1, LookupAdds
<1>10. pc' \in [Thread -> {"idle", "stamped", "holding"}]
  BY <1>1, <1>3 DEF TypeOK
<1>11. TypeOK'
  <2>1. Len(deques') <= MaxResets + 1
    BY <1>2, <1>4, LookupAdds, LimiterAssumption
  <2> QED BY <1>1, <1>3, <1>8, <1>9, <1>10, <2>1, LookupAdds DEF TypeOK
<1>12. Made'
  BY <1>3, <1>4 DEF Made
<1>13. Holds'
  <2> SUFFICES ASSUME NEW r \in Thread, pc'[r] = "holding"
               PROVE  held'[r] \in 1 .. Len(deques')
    BY DEF Holds
  <2>1. Len(deques') \in Nat \ {0}
    BY LookupAdds
  <2>3. CASE r = t
    <3>1. held'[r] = Len(deques')
      BY <1>1, <1>3, <2>3 DEF TypeOK
    <3> QED BY <2>1, <3>1
  <2>4. CASE r # t
    <3>1. held'[r] = held[r] /\ pc[r] = "holding"
      BY <1>1, <1>3, <2>4 DEF TypeOK
    <3>2. held[r] \in 1 .. Len(deques)
      BY <1>1, <3>1 DEF Holds
    <3> QED BY <1>2, <1>6, <2>1, <3>1, <3>2
  <2> QED BY <2>3, <2>4
<1>14. Past'
  <2>1. \A g \in 1 .. Len(admitted') : \A i \in 1 .. Len(admitted'[g]) : admitted'[g][i] <= clock
    <3> SUFFICES ASSUME NEW g \in 1 .. Len(deques'), NEW i \in 1 .. Len(admitted'[g])
                 PROVE  admitted'[g][i] <= clock
      BY LookupAdds
    <3>1. CASE g \in 1 .. Len(deques)
      BY <1>1, <1>2, <3>1, LookupAdds DEF Past
    <3>2. CASE admitted'[g] = <<>>
      <4>1. Len(admitted'[g]) = 0
        BY <3>2
      <4> QED BY <4>1
    <3> QED BY <3>1, <3>2, LookupAdds
  <2> QED BY <1>1, <1>3, <2>1 DEF Past
<1>15. Suffix'
  <2> SUFFICES ASSUME NEW g \in 1 .. Len(deques')
               PROVE  /\ Len(deques'[g]) <= MaxQueries
                      /\ Len(deques'[g]) <= Len(admitted'[g])
                      /\ \A i \in 1 .. Len(deques'[g]) :
                           deques'[g][i] = admitted'[g][Len(admitted'[g]) - Len(deques'[g]) + i]
    BY DEF Suffix, Gone
  <2>1. CASE g \in 1 .. Len(deques)
    <3>1. deques'[g] = deques[g] /\ admitted'[g] = admitted[g]
      BY <2>1, LookupAdds
    <3> QED BY <1>1, <2>1, <3>1 DEF Suffix, Gone
  <2>2. CASE deques'[g] = <<>> /\ admitted'[g] = <<>>
    <3>1. Len(deques'[g]) = 0 /\ Len(admitted'[g]) = 0
      BY <2>2
    <3> QED BY <3>1, LimiterAssumption
  <2> QED BY <2>1, <2>2, LookupAdds
<1> QED BY <1>11, <1>12, <1>13, <1>14, <1>15 DEF Inv

\* What a call leaves behind when it returns.
LEMMA LeaveKeeps ==
  ASSUME Inv, NEW t \in Thread, Leave(t), Len(deques') = Len(deques),
         deques' \in Seq(Seq(Time)), admitted' \in Seq(Seq(Time)),
         Len(admitted') = Len(deques), Len(deques) >= 1
  PROVE  TypeOK' /\ Made' /\ Holds' /\ \A r \in Thread : now'[r] <= clock'
<1>1. TypeOK /\ Made /\ Holds /\ Past
  BY DEF Inv
<1>2. /\ pc' = [pc EXCEPT ![t] = "idle"] /\ now' = [now EXCEPT ![t] = 0]
      /\ held' = [held EXCEPT ![t] = 0]
      /\ clock' = clock /\ mapped' = mapped /\ resets' = resets
  BY DEF Leave
<1>3. Len(deques) \in Nat
  BY <1>1, DequeTypes
<1>4. deques' # <<>>
  <2>1. Len(<<>>) = 0
    OBVIOUS
  <2> QED BY <1>3, <2>1
<1>5. 0 \in Time /\ clock \in Nat
  BY <1>1, LimiterAssumption DEF Time, TypeOK
<1>6. held' \in [Thread -> 0 .. Len(deques')] /\ now' \in [Thread -> Time]
      /\ pc' \in [Thread -> {"idle", "stamped", "holding"}]
  BY <1>1, <1>2, <1>3, <1>5 DEF TypeOK
<1>7. TypeOK'
  BY <1>1, <1>2, <1>4, <1>6 DEF TypeOK
<1>8. Made'
  BY <1>1, <1>2 DEF Made
<1>9. Holds'
  <2>1. \A r \in Thread : pc'[r] = "holding" => pc[r] = "holding" /\ held'[r] = held[r]
    BY <1>1, <1>2 DEF TypeOK
  <2> QED BY <1>1, <2>1 DEF Holds
<1>10. \A r \in Thread : now'[r] <= clock'
  <2>1. \A r \in Thread : now'[r] = now[r] \/ now'[r] = 0
    BY <1>1, <1>2 DEF TypeOK
  <2> QED BY <1>1, <1>2, <1>5, <2>1 DEF Past
<1> QED BY <1>7, <1>8, <1>9, <1>10

LEMMA AdmitInv == ASSUME Inv, NEW t \in Thread, Admit(t) PROVE Inv'
<1> DEFINE g == held[t]
<1>1. TypeOK /\ Past /\ Suffix
  BY DEF Inv
<1>2. g \in 1 .. Len(deques) /\ now[t] \in Time
  BY AdmitTrims
<1>3. PICK k \in 0 .. Len(deques[g]) :
        /\ Trims(g, k, now[t] - WindowSeconds)
        /\ Len(deques[g]) - k < MaxQueries
        /\ Len(deques'[g]) = Len(deques[g]) - k + 1
        /\ deques'[g][Len(deques[g]) - k + 1] = now[t]
        /\ Len(admitted'[g]) = Len(admitted[g]) + 1
        /\ admitted'[g][Len(admitted[g]) + 1] = now[t]
        /\ \A i \in 1 .. Len(admitted[g]) : admitted'[g][i] = admitted[g][i]
  BY AdmitTrims
<1>4. Leave(t)
  BY DEF Admit
<1> HIDE DEF g
<1>5. /\ Len(deques) \in Nat /\ Len(admitted) = Len(deques)
      /\ Len(deques[g]) \in Nat /\ Len(admitted[g]) \in Nat
      /\ MaxQueries \in Nat
  BY <1>1, <1>2, DequeTypes, LimiterAssumption
<1>6. TypeOK' /\ Made' /\ Holds' /\ \A r \in Thread : now'[r] <= clock'
  BY <1>2, <1>3, <1>4, <1>5, LeaveKeeps DEF Trims
<1>7. clock' = clock /\ now[t] <= clock
  BY <1>1, <1>4 DEF Leave, Past
<1>8. /\ Len(deques') = Len(deques) /\ Len(admitted') = Len(deques)
      /\ \A h \in 1 .. Len(deques) : h # g => deques'[h] = deques[h] /\ admitted'[h] = admitted[h]
      /\ \A i \in 1 .. Len(deques[g]) - k : deques'[g][i] = deques[g][k + i]
  BY <1>3 DEF Trims
<1>9. Past'
  <2>1. ASSUME NEW h \in 1 .. Len(deques), NEW i \in 1 .. Len(admitted'[h])
        PROVE  admitted'[h][i] <= clock
    <3>1. CASE h # g
      <4>1. admitted'[h] = admitted[h]
        BY <1>8, <3>1
      <4> QED BY <1>1, <1>5, <4>1 DEF Past
    <3>2. CASE h = g
      <4>1. i \in 1 .. Len(admitted[g]) \/ i = Len(admitted[g]) + 1
        BY <1>3, <1>5, <3>2
      <4>2. \A j \in 1 .. Len(admitted[g]) : admitted[g][j] <= clock
        BY <1>1, <1>2, <1>5 DEF Past
      <4> QED BY <1>3, <1>7, <3>2, <4>1, <4>2
    <3> QED BY <3>1, <3>2
  <2> QED BY <1>6, <1>7, <1>8, <2>1 DEF Past
<1>10. ASSUME NEW h \in 1 .. Len(deques)
       PROVE  /\ Len(deques'[h]) <= MaxQueries
              /\ Len(deques'[h]) <= Len(admitted'[h])
              /\ \A i \in 1 .. Len(deques'[h]) :
                   deques'[h][i] = admitted'[h][Len(admitted'[h]) - Len(deques'[h]) + i]
  <2>1. CASE h # g
    <3>1. deques'[h] = deques[h] /\ admitted'[h] = admitted[h]
      BY <1>8, <2>1
    <3> QED BY <1>1, <3>1 DEF Suffix, Gone
  <2>2. CASE h = g
    <3> DEFINE m == Len(deques[g])
               n == Len(admitted[g])
    <3>1. m <= n /\ \A i \in 1 .. m : deques[g][i] = admitted[g][n - m + i]
      BY <1>1, <1>2 DEF Suffix, Gone
    <3>2. /\ Len(deques'[g]) = m - k + 1 /\ Len(admitted'[g]) = n + 1
          /\ deques'[g][m - k + 1] = now[t] /\ admitted'[g][n + 1] = now[t]
          /\ \A i \in 1 .. n : admitted'[g][i] = admitted[g][i]
          /\ \A i \in 1 .. m - k : deques'[g][i] = deques[g][k + i]
      BY <1>3, <1>8
    <3>3. m \in Nat /\ n \in Nat /\ k \in 0 .. m /\ m - k < MaxQueries
      BY <1>3, <1>5
    <3> HIDE DEF m, n
    <3>4. ASSUME NEW i \in 1 .. m - k + 1
          PROVE  deques'[g][i] = admitted'[g][(n + 1) - (m - k + 1) + i]
      <4>1. CASE i = m - k + 1
        <5>1. (n + 1) - (m - k + 1) + i = n + 1
          BY <3>3, <4>1
        <5> QED BY <3>2, <4>1, <5>1
      <4>2. CASE i \in 1 .. m - k
        <5>1. /\ (n + 1) - (m - k + 1) + i = n - m + (k + i)
              /\ k + i \in 1 .. m /\ n - m + (k + i) \in 1 .. n
          BY <3>1, <3>3, <4>2
        <5> QED BY <3>1, <3>2, <4>2, <5>1
      <4> QED BY <3>3, <4>1, <4>2
    <3>5. m - k + 1 <= MaxQueries /\ m - k + 1 <= n + 1
      BY <1>5, <3>1, <3>3
    <3> QED BY <2>2, <3>2, <3>4, <3>5
  <2> QED BY <2>1, <2>2
<1>11. Suffix'
  BY <1>8, <1>10 DEF Suffix, Gone
<1> QED BY <1>6, <1>9, <1>11 DEF Inv

LEMMA DropInv == ASSUME Inv, NEW t \in Thread, Drop(t) PROVE Inv'
<1> DEFINE g == held[t]
<1>1. TypeOK /\ Past /\ Suffix
  BY DEF Inv
<1>2. g \in 1 .. Len(deques) /\ now[t] \in Time
  BY DropTrims
<1>3. PICK k \in 0 .. Len(deques[g]) :
        /\ Trims(g, k, now[t] - WindowSeconds)
        /\ Len(deques'[g]) = Len(deques[g]) - k
        /\ admitted' = admitted
  BY DropTrims
<1>4. Leave(t)
  BY DEF Drop
<1> HIDE DEF g
<1>5. /\ Len(deques) \in Nat /\ Len(admitted) = Len(deques)
      /\ Len(deques[g]) \in Nat /\ Len(admitted[g]) \in Nat
      /\ MaxQueries \in Nat
  BY <1>1, <1>2, DequeTypes, LimiterAssumption
<1>6. TypeOK' /\ Made' /\ Holds' /\ \A r \in Thread : now'[r] <= clock'
  BY <1>2, <1>3, <1>4, <1>5, LeaveKeeps DEF Trims
<1>7. Past'
  BY <1>1, <1>3, <1>4, <1>6 DEF Leave, Past
<1>8. /\ Len(deques') = Len(deques)
      /\ \A h \in 1 .. Len(deques) : h # g => deques'[h] = deques[h]
      /\ \A i \in 1 .. Len(deques[g]) - k : deques'[g][i] = deques[g][k + i]
  BY <1>3 DEF Trims
<1>9. ASSUME NEW h \in 1 .. Len(deques)
      PROVE  /\ Len(deques'[h]) <= MaxQueries
             /\ Len(deques'[h]) <= Len(admitted[h])
             /\ \A i \in 1 .. Len(deques'[h]) :
                  deques'[h][i] = admitted[h][Len(admitted[h]) - Len(deques'[h]) + i]
  <2>1. CASE h # g
    <3>1. deques'[h] = deques[h]
      BY <1>8, <2>1
    <3> QED BY <1>1, <3>1 DEF Suffix, Gone
  <2>2. CASE h = g
    <3> DEFINE m == Len(deques[g])
               n == Len(admitted[g])
    <3>1. /\ m <= MaxQueries /\ m <= n
          /\ \A i \in 1 .. m : deques[g][i] = admitted[g][n - m + i]
      BY <1>1, <1>2 DEF Suffix, Gone
    <3>2. Len(deques'[g]) = m - k /\ m \in Nat /\ n \in Nat /\ k \in 0 .. m
      BY <1>3, <1>5
    <3>3. \A i \in 1 .. m - k : deques'[g][i] = deques[g][k + i]
      BY <1>8
    <3> HIDE DEF m, n
    <3>4. ASSUME NEW i \in 1 .. m - k
          PROVE  deques'[g][i] = admitted[g][n - (m - k) + i]
      <4>1. n - (m - k) + i = n - m + (k + i) /\ k + i \in 1 .. m
        BY <3>2
      <4> QED BY <3>1, <3>3, <4>1
    <3>5. m - k <= MaxQueries /\ m - k <= n
      BY <1>5, <3>1, <3>2
    <3>6. Len(admitted[g]) = n
      BY DEF n
    <3> QED BY <2>2, <3>2, <3>4, <3>5, <3>6
  <2> QED BY <2>1, <2>2
<1>10. Suffix'
  BY <1>3, <1>8, <1>9 DEF Suffix, Gone
<1> QED BY <1>6, <1>7, <1>10 DEF Inv

\* The steps of the limiter, taken alone.
LimiterStep ==
  \/ \E t \in Thread : Stamp(t) \/ Lookup(t) \/ Admit(t) \/ Drop(t)
  \/ reset \/ Tick
  \/ UNCHANGED vars

LEMMA StepLimits == [NextPools]_allVars => LimiterStep
BY DEF NextPools, allVars, LimiterStep, vars, runUdpServer, runTcpServer, Work, TakeDatagram,
       TakeConnection, handleRequest, Limit, Answer

LEMMA StepInv == Inv /\ LimiterStep => Inv'
<1>1. ASSUME Inv, UNCHANGED vars PROVE Inv'
  <2>1. TypeOK' /\ Made' /\ Holds' /\ Past'
    BY <1>1 DEF vars, Inv, TypeOK, Made, Holds, Past
  <2>2. Suffix'
    BY <1>1, SameDeques DEF vars, Inv
  <2> QED BY <2>1, <2>2 DEF Inv
<1> QED BY <1>1, StampInv, LookupInv, AdmitInv, DropInv, resetInv, TickInv DEF LimiterStep

-------------------------------------------------------------------------------
(* Threads under way and stamps let through, counted.                      *)

LEMMA ThreadCount ==
  /\ IsFiniteSet(Thread) /\ Others \in Nat /\ Cardinality(Thread) = Others + 1
<1>1. Cardinality(Thread) \in Nat /\ Cardinality(Thread) # 0
  BY LimiterAssumption, FS_CardinalityType, FS_EmptySet
<1> QED BY <1>1, LimiterAssumption DEF Others

LEMMA PendingFinite ==
  ASSUME NEW p, NEW n, NEW x
  PROVE  IsFiniteSet(Pending(p, n, x)) /\ Cardinality(Pending(p, n, x)) \in Nat
<1>1. Pending(p, n, x) \in SUBSET Thread
  BY DEF Pending
<1> QED BY <1>1, ThreadCount, FS_Subset, FS_CardinalityType

\* Nobody joins those with a stamp of before now.
LEMMA PendingShrinks ==
  ASSUME Inv, LimiterStep
  PROVE  \A x \in Int : clock > x =>
           /\ clock' > x
           /\ Cardinality(Pending(pc', now', x)) <= Cardinality(Pending(pc, now, x))
<1> SUFFICES ASSUME NEW x \in Int, clock > x
             PROVE  /\ clock' > x
                    /\ Cardinality(Pending(pc', now', x)) <= Cardinality(Pending(pc, now, x))
  OBVIOUS
<1>1. clock \in Int /\ (clock' = clock \/ clock' = clock + 1)
  BY DEF Inv, TypeOK, Time, LimiterStep, Stamp, Lookup, Admit, Drop, Leave, reset, Tick, vars
<1>2. ASSUME NEW r \in Thread, pc'[r] # "idle", now'[r] <= x
      PROVE  pc[r] # "idle" /\ now[r] <= x
  <2>1. CASE \E t \in Thread : Stamp(t)
    <3>1. PICK t \in Thread : Stamp(t)
      BY <2>1
    <3>2. CASE r = t
      <4>1. now'[r] = clock
        BY <3>1, <3>2 DEF Stamp, Inv, TypeOK
      <4> QED BY <1>1, <1>2, <4>1
    <3>3. CASE r # t
      BY <1>2, <3>1, <3>3 DEF Stamp, Inv, TypeOK
    <3> QED BY <3>2, <3>3
  <2>2. CASE \E t \in Thread : Lookup(t)
    BY <1>2, <2>2 DEF Lookup, Inv, TypeOK
  <2>3. CASE \E t \in Thread : Admit(t) \/ Drop(t)
    <3>1. PICK t \in Thread : Leave(t)
      BY <2>3 DEF Admit, Drop
    <3> QED BY <1>2, <3>1 DEF Leave, Inv, TypeOK
  <2>4. CASE reset \/ Tick \/ UNCHANGED vars
    BY <1>2, <2>4 DEF reset, Tick, vars
  <2> QED BY <2>1, <2>2, <2>3, <2>4 DEF LimiterStep
<1>3. Pending(pc', now', x) \in SUBSET Pending(pc, now, x)
  BY <1>2 DEF Pending
<1> QED BY <1>1, <1>3, PendingFinite, FS_Subset

\* A thread that returns is no longer among them.
LEMMA PendingLeaves ==
  ASSUME Inv, NEW t \in Thread, pc[t] = "holding", Leave(t)
  PROVE  \A x \in Int :
           /\ now[t] <= x => Cardinality(Pending(pc', now', x))
                               = Cardinality(Pending(pc, now, x)) - 1
           /\ Cardinality(Pending(pc', now', x)) <= Others
<1> SUFFICES ASSUME NEW x \in Int
             PROVE  /\ now[t] <= x => Cardinality(Pending(pc', now', x))
                                        = Cardinality(Pending(pc, now, x)) - 1
                    /\ Cardinality(Pending(pc', now', x)) <= Others
  OBVIOUS
<1>1. Pending(pc', now', x) = Pending(pc, now, x) \ {t}
  BY DEF Pending, Leave, Inv, TypeOK
<1>2. now[t] <= x => t \in Pending(pc, now, x)
  BY DEF Pending
<1>3. Pending(pc', now', x) \in SUBSET (Thread \ {t})
  BY <1>1 DEF Pending
<1>4. IsFiniteSet(Thread \ {t}) /\ Cardinality(Thread \ {t}) = Others
  BY ThreadCount, FS_RemoveElement
<1>5. Cardinality(Pending(pc', now', x)) <= Others
  BY <1>3, <1>4, FS_Subset
<1>6. now[t] <= x => Cardinality(Pending(pc', now', x)) = Cardinality(Pending(pc, now, x)) - 1
  <2>1. IsFiniteSet(Pending(pc, now, x))
    BY PendingFinite
  <2>2. t \in Pending(pc, now, x) =>
          Cardinality(Pending(pc, now, x) \ {t}) = Cardinality(Pending(pc, now, x)) - 1
    BY <2>1, FS_RemoveElement
  <2> QED BY <1>1, <1>2, <2>2
<1> QED BY <1>5, <1>6

\* Sequence b is a with n added.
Grows(a, b, n) ==
  /\ a \in Seq(Time) /\ b \in Seq(Time) /\ n \in Time
  /\ Len(b) = Len(a) + 1 /\ b[Len(a) + 1] = n
  /\ \A i \in 1 .. Len(a) : b[i] = a[i]

LEMMA WindowFinite ==
  ASSUME NEW a \in Seq(Time), NEW x \in Int
  PROVE  IsFiniteSet(Window(a, x)) /\ Cardinality(Window(a, x)) \in Nat
<1>1. Window(a, x) \in SUBSET (1 .. Len(a)) /\ Len(a) \in Nat
  BY LenProperties DEF Window
<1>2. IsFiniteSet(1 .. Len(a))
  BY <1>1, FS_Interval
<1> QED BY <1>1, <1>2, FS_Subset, FS_CardinalityType

LEMMA WindowGrows ==
  ASSUME NEW a, NEW b, NEW n, Grows(a, b, n), NEW x \in Int
  PROVE  /\ Cardinality(Window(b, x)) <= Cardinality(Window(a, x)) + 1
         /\ n > x => Cardinality(Window(b, x)) = Cardinality(Window(a, x))
<1>1. /\ Len(a) \in Nat /\ DOMAIN a = 1 .. Len(a) /\ DOMAIN b = 1 .. Len(a) + 1
      /\ \A i \in 1 .. Len(a) : b[i] = a[i]
      /\ b[Len(a) + 1] = n /\ n \in Int
  BY LenProperties DEF Grows, Time
<1>2. WindowSeconds \in Nat
  BY LimiterAssumption
<1>3. \A i \in 1 .. Len(a) + 1 : i \in 1 .. Len(a) \/ i = Len(a) + 1
  BY <1>1
<1>4. 1 .. Len(a) \subseteq 1 .. Len(a) + 1
  BY <1>1
<1>5. CASE n \in x - WindowSeconds .. x
  <2>1. Window(b, x) = Window(a, x) \cup {Len(a) + 1}
    <3>1. Len(a) + 1 \in 1 .. Len(a) + 1
      BY <1>1
    <3> QED BY <1>1, <1>3, <1>4, <1>5, <3>1 DEF Window
  <2>2. IsFiniteSet(Window(a, x)) /\ Cardinality(Window(a, x)) \in Nat
    BY WindowFinite DEF Grows
  <2>3. Cardinality(Window(b, x)) <= Cardinality(Window(a, x)) + 1
    BY <2>1, <2>2, FS_AddElement
  <2> QED BY <1>1, <1>2, <1>5, <2>3
<1>6. CASE n \notin x - WindowSeconds .. x
  <2>1. Window(b, x) = Window(a, x)
    BY <1>1, <1>3, <1>4, <1>6 DEF Window
  <2>2. Cardinality(Window(a, x)) \in Nat
    BY WindowFinite DEF Grows
  <2> QED BY <2>1, <2>2
<1> QED BY <1>5, <1>6

LEMMA OvertakenFinite ==
  ASSUME NEW a \in Seq(Time), NEW i \in Int
  PROVE  IsFiniteSet(Overtaken(a, i)) /\ Cardinality(Overtaken(a, i)) \in Nat
<1>1. Overtaken(a, i) \in SUBSET (1 .. Len(a)) /\ Len(a) \in Nat
  BY LenProperties DEF Overtaken
<1>2. IsFiniteSet(1 .. Len(a))
  BY <1>1, FS_Interval
<1> QED BY <1>1, <1>2, FS_Subset, FS_CardinalityType

LEMMA OvertakenGrows ==
  ASSUME NEW a, NEW b, NEW n, Grows(a, b, n)
  PROVE  /\ \A i \in 1 .. Len(a) :
              /\ Cardinality(Overtaken(b, i)) <= Cardinality(Overtaken(a, i)) + 1
              /\ ~(n < a[i]) => Cardinality(Overtaken(b, i)) = Cardinality(Overtaken(a, i))
         /\ Cardinality(Overtaken(b, Len(a) + 1)) = 0
<1>1. /\ Len(a) \in Nat /\ DOMAIN a = 1 .. Len(a) /\ DOMAIN b = 1 .. Len(a) + 1
      /\ \A i \in 1 .. Len(a) : b[i] = a[i]
      /\ b[Len(a) + 1] = n /\ n \in Int
  BY LenProperties DEF Grows, Time
<1>2. \A i \in 1 .. Len(a) + 1 : i \in 1 .. Len(a) \/ i = Len(a) + 1
  BY <1>1
<1>3. 1 .. Len(a) \subseteq 1 .. Len(a) + 1
  BY <1>1
<1>4. ASSUME NEW i \in 1 .. Len(a)
      PROVE  /\ Cardinality(Overtaken(b, i)) <= Cardinality(Overtaken(a, i)) + 1
             /\ ~(n < a[i]) => Cardinality(Overtaken(b, i)) = Cardinality(Overtaken(a, i))
  <2>1. IsFiniteSet(Overtaken(a, i)) /\ Cardinality(Overtaken(a, i)) \in Nat
    BY OvertakenFinite DEF Grows
  <2>2. i \in 1 .. Len(a) + 1 /\ Len(a) + 1 \in 1 .. Len(a) + 1 /\ Len(a) + 1 > i
    BY <1>1
  <2>3. CASE n < a[i]
    <3>1. Overtaken(b, i) = Overtaken(a, i) \cup {Len(a) + 1}
      <4>1. \A j \in 1 .. Len(a) : j \in Overtaken(b, i) <=> j \in Overtaken(a, i)
        BY <1>1, <1>3 DEF Overtaken
      <4>2. Len(a) + 1 \in Overtaken(b, i)
        BY <1>1, <2>2, <2>3 DEF Overtaken
      <4>3. Overtaken(b, i) \subseteq 1 .. Len(a) + 1 /\ Overtaken(a, i) \subseteq 1 .. Len(a)
        BY <1>1 DEF Overtaken
      <4> QED BY <1>2, <4>1, <4>2, <4>3
    <3>2. Cardinality(Overtaken(b, i)) = IF Len(a) + 1 \in Overtaken(a, i)
                                           THEN Cardinality(Overtaken(a, i))
                                           ELSE Cardinality(Overtaken(a, i)) + 1
      <4> DEFINE O == Overtaken(a, i)
                 e == Len(a) + 1
      <4>1. IsFiniteSet(O) /\ Overtaken(b, i) = O \cup {e}
        BY <2>1, <3>1
      <4> HIDE DEF O, e
      <4>2. Cardinality(O \cup {e}) = IF e \in O THEN Cardinality(O) ELSE Cardinality(O) + 1
        BY <4>1, FS_AddElement
      <4> QED BY <4>1, <4>2 DEF O, e
    <3> QED BY <2>1, <2>3, <3>2
  <2>4. CASE ~(n < a[i])
    <3>1. Overtaken(b, i) = Overtaken(a, i)
      BY <1>1, <1>2, <1>3, <2>2, <2>4 DEF Overtaken
    <3> QED BY <2>1, <3>1
  <2> QED BY <2>3, <2>4
<1>5. Overtaken(b, Len(a) + 1) = {}
  BY <1>1 DEF Overtaken
<1> QED BY <1>4, <1>5, FS_EmptySet

-------------------------------------------------------------------------------
(* The invariants of the limiter.                                          *)

\* What a call does to its deque when it returns, whether it admits or drops.
LEMMA CallTrims ==
  ASSUME Inv, NEW t \in Thread, Admit(t) \/ Drop(t)
  PROVE  /\ pc[t] = "holding" /\ Leave(t) /\ now[t] \in Time
         /\ \E k \in 0 .. Len(deques[held[t]]) :
              /\ Trims(held[t], k, now[t] - WindowSeconds)
              /\ Len(admitted'[held[t]]) - Len(deques'[held[t]]) = Gone(held[t]) + k
         /\ \/ admitted'[held[t]] = admitted[held[t]]
            \/ Grows(admitted[held[t]], admitted'[held[t]], now[t])
<1> DEFINE g == held[t]
<1>1. pc[t] = "holding" /\ Leave(t)
  BY DEF Admit, Drop
<1>2. TypeOK
  BY DEF Inv
<1>3. CASE Admit(t)
  <2>1. g \in 1 .. Len(deques) /\ now[t] \in Time
    BY <1>3, AdmitTrims
  <2>2. PICK k \in 0 .. Len(deques[g]) :
          /\ Trims(g, k, now[t] - WindowSeconds)
          /\ Len(deques'[g]) = Len(deques[g]) - k + 1
          /\ Len(admitted'[g]) = Len(admitted[g]) + 1
          /\ admitted'[g][Len(admitted[g]) + 1] = now[t]
          /\ \A i \in 1 .. Len(admitted[g]) : admitted'[g][i] = admitted[g][i]
    BY <1>3, AdmitTrims
  <2> HIDE DEF g
  <2>3. Len(deques[g]) \in Nat /\ Len(admitted[g]) \in Nat /\ admitted[g] \in Seq(Time)
    BY <1>2, <2>1, DequeTypes
  <2>4. Len(admitted'[g]) - Len(deques'[g]) = Gone(g) + k
    <3> DEFINE m == Len(deques[g])
               n == Len(admitted[g])
    <3>1. /\ m \in Nat /\ n \in Nat /\ k \in 0 .. m /\ Gone(g) = n - m
          /\ Len(deques'[g]) = m - k + 1 /\ Len(admitted'[g]) = n + 1
      BY <2>2, <2>3 DEF Gone
    <3> HIDE DEF m, n
    <3>2. (n + 1) - (m - k + 1) = n - m + k
      BY <3>1
    <3> QED BY <3>1, <3>2
  <2>5. admitted'[g] \in Seq(Time)
    BY <2>1, <2>2, ElementOfSeq DEF Trims
  <2>6. Grows(admitted[g], admitted'[g], now[t])
    BY <2>1, <2>2, <2>3, <2>5 DEF Grows
  <2> QED BY <1>1, <2>1, <2>2, <2>4, <2>6 DEF g
<1>4. CASE Drop(t)
  <2>1. g \in 1 .. Len(deques) /\ now[t] \in Time
    BY <1>4, DropTrims
  <2>2. PICK k \in 0 .. Len(deques[g]) :
          /\ Trims(g, k, now[t] - WindowSeconds)
          /\ Len(deques'[g]) = Len(deques[g]) - k
          /\ admitted' = admitted
    BY <1>4, DropTrims
  <2> HIDE DEF g
  <2>3. Len(deques[g]) \in Nat /\ Len(admitted[g]) \in Nat
    BY <1>2, <2>1, DequeTypes
  <2>4. Len(admitted'[g]) - Len(deques'[g]) = Gone(g) + k
    BY <2>2, <2>3 DEF Gone
  <2> QED BY <1>1, <2>1, <2>2, <2>4 DEF g
<1> QED BY <1>3, <1>4

\* Any other step leaves the deques as they are but for a new, empty one.
LEMMA OtherSteps ==
  ASSUME Inv, LimiterStep, ~(\E t \in Thread : Admit(t) \/ Drop(t)),
         NEW g \in 1 .. Len(admitted')
  PROVE  \/ /\ g \in 1 .. Len(deques)
            /\ deques'[g] = deques[g] /\ admitted'[g] = admitted[g]
         \/ deques'[g] = <<>> /\ admitted'[g] = <<>>
<1>1. CASE \E t \in Thread : Lookup(t)
  <2>1. PICK t \in Thread : Lookup(t)
    BY <1>1
  <2> QED BY <2>1, LookupAdds
<1>2. CASE (\E t \in Thread : Stamp(t)) \/ reset \/ Tick \/ UNCHANGED vars
  <2>1. deques' = deques /\ admitted' = admitted
    BY <1>2 DEF Stamp, reset, Tick, vars
  <2> QED BY <2>1, DequeTypes DEF Inv
<1> QED BY <1>1, <1>2 DEF LimiterStep

\* A deque that has lost nothing of a window bounds it.
LEMMA KeptBounds ==
  ASSUME Inv, NEW g \in 1 .. Len(deques), NEW x \in Time,
         \A i \in 1 .. Gone(g) : admitted[g][i] \notin x - WindowSeconds .. x
  PROVE  Cardinality(Window(admitted[g], x)) <= MaxQueries
<1> DEFINE m == Len(deques[g])
           n == Len(admitted[g])
           S == (n - m) + 1 .. n
<1>1. m \in Nat /\ n \in Nat /\ DOMAIN admitted[g] = 1 .. n /\ MaxQueries \in Nat
  BY DequeTypes, LimiterAssumption DEF Inv
<1>2. m <= MaxQueries /\ m <= n /\ Gone(g) = n - m
  BY DEF Inv, Suffix, Gone
<1> HIDE DEF m, n
<1>3. Window(admitted[g], x) \in SUBSET S
  <2> SUFFICES ASSUME NEW i \in 1 .. n, admitted[g][i] \in x - WindowSeconds .. x
               PROVE  i \in S
    BY <1>1 DEF Window
  <2>1. i \notin 1 .. n - m
    BY <1>2
  <2> QED BY <1>1, <1>2, <2>1
<1>4. IsFiniteSet(S) /\ Cardinality(S) = m
  <2>1. IsFiniteSet(S)
        /\ Cardinality(S) = IF (n - m) + 1 > n THEN 0 ELSE n - ((n - m) + 1) + 1
    BY <1>1, FS_Interval
  <2> QED BY <1>1, <1>2, <2>1
<1> HIDE DEF S
<1>5. Cardinality(Window(admitted[g], x)) <= m /\ IsFiniteSet(Window(admitted[g], x))
  BY <1>3, <1>4, FS_Subset
<1>6. Cardinality(Window(admitted[g], x)) \in Nat
  BY <1>5, FS_CardinalityType
<1> QED BY <1>1, <1>2, <1>5, <1>6

LEMMA InitCounted == Init => Counted /\ Inversions
<1> SUFFICES ASSUME Init PROVE Counted /\ Inversions
  OBVIOUS
<1>1. Len(admitted) = 0
  BY DEF Init
<1> QED BY <1>1 DEF Counted, Inversions

LEMMA StepCounted ==
  ASSUME Inv, Counted, LimiterStep
  PROVE  Counted'
<1> SUFFICES ASSUME NEW h \in 1 .. Len(admitted'), NEW x \in Time
             PROVE  \/ \A i \in 1 .. Len(admitted'[h]) - Len(deques'[h]) :
                         admitted'[h][i] \notin x - WindowSeconds .. x
                    \/ /\ clock' > x
                       /\ Cardinality(Window(admitted'[h], x))
                            + Cardinality(Pending(pc', now', x)) <= MaxQueries + Others
  BY DEF Counted, Gone
<1> DEFINE P == Cardinality(Pending(pc, now, x))
           Q == Cardinality(Pending(pc', now', x))
           Was == \A i \in 1 .. Gone(h) : admitted[h][i] \notin x - WindowSeconds .. x
<1>1. TypeOK /\ Len(admitted) = Len(deques) /\ Len(deques) \in Nat
  BY DequeTypes DEF Inv
<1>2. /\ x \in Int /\ clock \in Int /\ WindowSeconds \in Nat /\ MaxQueries \in Nat
      /\ Others \in Nat /\ P \in Nat /\ Q \in Nat
  BY <1>1, LimiterAssumption, ThreadCount, PendingFinite DEF TypeOK, Time
<1>3. clock > x => clock' > x /\ Q <= P
  BY <1>2, PendingShrinks
<1> HIDE DEF P, Q
<1>4. ASSUME h \in 1 .. Len(deques)
      PROVE  /\ Cardinality(Window(admitted[h], x)) \in Nat
             /\ Was \/ (clock > x /\ Cardinality(Window(admitted[h], x)) + P
                                       <= MaxQueries + Others)
  <2>1. admitted[h] \in Seq(Time)
    BY <1>1, <1>4, DequeTypes
  <2> QED BY <1>1, <1>2, <1>4, <2>1, WindowFinite DEF Counted, P
<1>5. ASSUME h \in 1 .. Len(deques), deques'[h] = deques[h], admitted'[h] = admitted[h]
      PROVE  \/ \A i \in 1 .. Len(admitted'[h]) - Len(deques'[h]) :
                  admitted'[h][i] \notin x - WindowSeconds .. x
             \/ clock' > x /\ Cardinality(Window(admitted'[h], x)) + Q <= MaxQueries + Others
  <2>1. CASE Was
    BY <1>5, <2>1 DEF Gone
  <2>2. CASE clock > x /\ Cardinality(Window(admitted[h], x)) + P <= MaxQueries + Others
    BY <1>2, <1>3, <1>4, <1>5, <2>2
  <2> QED BY <1>4, <1>5, <2>1, <2>2
<1>6. CASE ~(\E t \in Thread : Admit(t) \/ Drop(t))
  <2>1. CASE deques'[h] = <<>> /\ admitted'[h] = <<>>
    <3>1. Len(admitted'[h]) - Len(deques'[h]) = 0
      BY <2>1
    <3> QED BY <3>1
  <2> QED BY <1>5, <1>6, <2>1, OtherSteps DEF Q
<1>7. CASE \E t \in Thread : Admit(t) \/ Drop(t)
  <2>1. PICK t \in Thread : Admit(t) \/ Drop(t)
    BY <1>7
  <2> DEFINE g == held[t]
  <2>2. pc[t] = "holding" /\ Leave(t) /\ now[t] \in Time
    BY <2>1, CallTrims
  <2>3. PICK k \in 0 .. Len(deques[g]) :
          /\ Trims(g, k, now[t] - WindowSeconds)
          /\ Len(admitted'[g]) - Len(deques'[g]) = Gone(g) + k
    BY <2>1, CallTrims
  <2>4. admitted'[g] = admitted[g] \/ Grows(admitted[g], admitted'[g], now[t])
    BY <2>1, CallTrims
  <2> HIDE DEF g
  <2>5. h \in 1 .. Len(deques) /\ g \in 1 .. Len(deques)
    BY <2>3 DEF Trims
  <2>6. CASE h # g
    <3>1. deques'[h] = deques[h] /\ admitted'[h] = admitted[h]
      BY <2>3, <2>5, <2>6 DEF Trims
    <3> QED BY <1>5, <2>5, <3>1 DEF Q
  <2>7. CASE h = g
    <3> DEFINE m == Len(deques[h])
               n == Len(admitted[h])
               W == Cardinality(Window(admitted[h], x))
               V == Cardinality(Window(admitted'[h], x))
    <3>1. /\ m \in Nat /\ n \in Nat /\ m <= n /\ Gone(h) = n - m
          /\ \A i \in 1 .. m : deques[h][i] = admitted[h][n - m + i]
          /\ \A i \in 1 .. m : deques[h][i] \in Int
      <4>1. /\ Len(deques[h]) \in Nat /\ Len(admitted[h]) \in Nat
            /\ \A i \in 1 .. Len(deques[h]) : deques[h][i] \in Time
        BY <1>1, <2>5, DequeTypes
      <4>2. /\ Len(deques[h]) <= Len(admitted[h])
            /\ \A i \in 1 .. Len(deques[h]) : deques[h][i] = admitted[h][Gone(h) + i]
        BY <2>5 DEF Inv, Suffix
      <4>3. \A s \in Time : s \in Int
        BY DEF Time
      <4> QED BY <4>1, <4>2, <4>3 DEF Gone
    <3>2. W \in Nat /\ V \in Nat /\ V <= W + 1 /\ (now[t] > x => V = W)
      <4>1. W \in Nat
        BY <1>4, <2>5
      <4>2. CASE admitted'[h] = admitted[h]
        BY <4>1, <4>2
      <4>3. CASE Grows(admitted[h], admitted'[h], now[t])
        <5>1. V \in Nat
          BY <1>2, <4>3, WindowFinite DEF Grows
        <5> QED BY <1>2, <4>1, <4>3, <5>1, WindowGrows
      <4> QED BY <2>4, <2>7, <4>2, <4>3
    <3>3. Q <= Others /\ (now[t] <= x => Q = P - 1)
      BY <1>2, <2>2, PendingLeaves DEF P, Q
    <3>4. now[t] \in Int /\ (now[t] > x => clock > x)
      BY <1>2, <2>2 DEF Inv, Past, Time
    <3>5. CASE clock > x /\ W + P <= MaxQueries + Others
      <4> HIDE DEF W, V
      <4>1. V + Q <= MaxQueries + Others
        BY <1>2, <1>3, <3>2, <3>3, <3>4, <3>5
      <4> QED BY <1>3, <3>5, <4>1 DEF V, Q
    <3>6. CASE Was /\ now[t] > x
      <4>1. W <= MaxQueries
        BY <2>5, <3>6, KeptBounds
      <4> HIDE DEF W, V
      <4>2. V + Q <= MaxQueries + Others
        BY <1>2, <3>2, <3>3, <3>6, <4>1
      <4> QED BY <1>3, <3>4, <3>6, <4>2 DEF V, Q
    <3>7. CASE Was /\ now[t] <= x
      <4> SUFFICES ASSUME NEW i \in 1 .. Gone(h) + k
                   PROVE  admitted'[h][i] \notin x - WindowSeconds .. x
        BY <2>3, <2>7
      <4>1. k \in 0 .. m /\ \A j \in 1 .. k : deques[h][j] < now[t] - WindowSeconds
        BY <2>3, <2>7 DEF Trims
      <4> HIDE DEF m, n, W, V
      <4>2. i \in 1 .. n
        BY <3>1, <4>1
      <4>3. admitted'[h][i] = admitted[h][i]
        BY <2>4, <2>7, <4>2 DEF Grows, n
      <4>4. CASE i \in 1 .. Gone(h)
        BY <3>7, <4>3, <4>4
      <4>5. CASE i \notin 1 .. Gone(h)
        <5>1. i - (n - m) \in 1 .. k /\ i - (n - m) \in 1 .. m /\ n - m + (i - (n - m)) = i
          BY <3>1, <4>1, <4>5
        <5>2. admitted[h][i] < now[t] - WindowSeconds /\ admitted[h][i] \in Int
          BY <3>1, <4>1, <5>1
        <5>3. admitted[h][i] < x - WindowSeconds
          BY <1>2, <3>4, <3>7, <5>2
        <5> DEFINE v == admitted[h][i]
        <5>4. v \in Int /\ v < x - WindowSeconds
          BY <5>2, <5>3
        <5> HIDE DEF v
        <5>5. v \notin x - WindowSeconds .. x
          BY <1>2, <5>4
        <5> QED BY <4>3, <5>5 DEF v
      <4> QED BY <4>4, <4>5
    <3> QED BY <1>2, <1>4, <2>5, <3>4, <3>5, <3>6, <3>7
  <2> QED BY <2>6, <2>7
<1> QED BY <1>6, <1>7

LEMMA StepInversions ==
  ASSUME Inv, Inversions, LimiterStep
  PROVE  Inversions'
<1> SUFFICES ASSUME NEW h \in 1 .. Len(admitted'), NEW i \in 1 .. Len(admitted'[h])
             PROVE  Cardinality(Overtaken(admitted'[h], i))
                      + Cardinality(Pending(pc', now', admitted'[h][i] - 1)) <= Others
  BY DEF Inversions
<1>1. TypeOK /\ Len(admitted) = Len(deques) /\ Len(deques) \in Nat
  BY DequeTypes DEF Inv
<1>2. Others \in Nat /\ clock \in Int
  BY <1>1, ThreadCount DEF TypeOK, Time
\* An old stamp, as long as no older one is let through.
<1>3. ASSUME h \in 1 .. Len(deques), NEW j \in 1 .. Len(admitted[h])
      PROVE  LET P == Cardinality(Pending(pc, now, admitted[h][j] - 1))
                 Q == Cardinality(Pending(pc', now', admitted[h][j] - 1))
                 O == Cardinality(Overtaken(admitted[h], j))
             IN  /\ P \in Nat /\ Q \in Nat /\ O \in Nat
                 /\ O + P <= Others /\ Q <= P
                 /\ admitted[h][j] - 1 \in Int /\ admitted[h][j] \in Int
  <2>1. admitted[h] \in Seq(Time) /\ admitted[h][j] \in Int /\ admitted[h][j] <= clock
    BY <1>1, <1>3, DequeTypes DEF Inv, Past, Time
  <2>2. clock > admitted[h][j] - 1 /\ admitted[h][j] - 1 \in Int
    BY <1>2, <2>1
  <2>3. Cardinality(Pending(pc', now', admitted[h][j] - 1))
          <= Cardinality(Pending(pc, now, admitted[h][j] - 1))
    BY <2>2, PendingShrinks
  <2>4. Cardinality(Overtaken(admitted[h], j)) \in Nat
    <3>1. j \in Int
      OBVIOUS
    <3> QED BY <2>1, <3>1, OvertakenFinite
  <2>5. Cardinality(Overtaken(admitted[h], j))
          + Cardinality(Pending(pc, now, admitted[h][j] - 1)) <= Others
    BY <1>1, <1>3 DEF Inversions
  <2> QED BY <2>1, <2>2, <2>3, <2>4, <2>5, PendingFinite
<1>4. ASSUME h \in 1 .. Len(deques), admitted'[h] = admitted[h]
      PROVE  Cardinality(Overtaken(admitted'[h], i))
               + Cardinality(Pending(pc', now', admitted'[h][i] - 1)) <= Others
  <2>1. i \in 1 .. Len(admitted[h])
    BY <1>4
  <2> DEFINE P == Cardinality(Pending(pc, now, admitted[h][i] - 1))
             Q == Cardinality(Pending(pc', now', admitted[h][i] - 1))
             O == Cardinality(Overtaken(admitted[h], i))
  <2>2. P \in Nat /\ Q \in Nat /\ O \in Nat /\ O + P <= Others /\ Q <= P
    BY <1>3, <1>4, <2>1
  <2> HIDE DEF P, Q, O
  <2>3. O + Q <= Others
    BY <1>2, <2>2
  <2> QED BY <1>4, <2>3 DEF Q, O
<1>5. CASE ~(\E t \in Thread : Admit(t) \/ Drop(t))
  <2>1. ~(admitted'[h] = <<>>)
    <3> SUFFICES ASSUME admitted'[h] = <<>> PROVE FALSE
      OBVIOUS
    <3>1. Len(admitted'[h]) = 0
      OBVIOUS
    <3> QED BY <3>1
  <2> QED BY <1>4, <1>5, <2>1, OtherSteps
<1>6. CASE \E t \in Thread : Admit(t) \/ Drop(t)
  <2>1. PICK t \in Thread : Admit(t) \/ Drop(t)
    BY <1>6
  <2> DEFINE g == held[t]
  <2>2. pc[t] = "holding" /\ Leave(t) /\ now[t] \in Time
    BY <2>1, CallTrims
  <2>3. PICK k \in 0 .. Len(deques[g]) : Trims(g, k, now[t] - WindowSeconds)
    BY <2>1, CallTrims
  <2>4. admitted'[g] = admitted[g] \/ Grows(admitted[g], admitted'[g], now[t])
    BY <2>1, CallTrims
  <2> HIDE DEF g
  <2>5. h \in 1 .. Len(deques) /\ g \in 1 .. Len(deques)
    BY <2>3 DEF Trims
  <2>6. CASE h # g
    <3>1. admitted'[h] = admitted[h]
      BY <2>3, <2>5, <2>6 DEF Trims
    <3> QED BY <1>4, <2>5, <3>1
  <2>7. CASE h = g /\ admitted'[h] = admitted[h]
    BY <1>4, <2>5, <2>7
  <2>8. CASE h = g /\ Grows(admitted[h], admitted'[h], now[t])
    <3>1. /\ Len(admitted[h]) \in Nat /\ now[t] \in Int
          /\ admitted'[h][Len(admitted[h]) + 1] = now[t]
          /\ Len(admitted'[h]) = Len(admitted[h]) + 1
          /\ \A j \in 1 .. Len(admitted[h]) : admitted'[h][j] = admitted[h][j]
      BY <1>1, <2>2, <2>5, <2>8, DequeTypes DEF Grows, Time
    <3>2. CASE i = Len(admitted[h]) + 1
      <4>1. Cardinality(Overtaken(admitted'[h], i)) = 0
        BY <2>8, <3>2, OvertakenGrows
      <4>2. now[t] - 1 \in Int
        BY <3>1
      <4>3. Cardinality(Pending(pc', now', now[t] - 1)) <= Others
        BY <2>2, <4>2, PendingLeaves
      <4>4. Cardinality(Pending(pc', now', now[t] - 1)) \in Nat
        BY PendingFinite
      <4>5. admitted'[h][i] = now[t]
        BY <3>1, <3>2
      <4> QED BY <1>2, <4>1, <4>3, <4>4, <4>5
    <3>3. CASE i \in 1 .. Len(admitted[h])
      <4> DEFINE s == admitted[h][i]
                 P == Cardinality(Pending(pc, now, s - 1))
                 Q == Cardinality(Pending(pc', now', s - 1))
                 O == Cardinality(Overtaken(admitted[h], i))
                 O2 == Cardinality(Overtaken(admitted'[h], i))
      <4>1. /\ P \in Nat /\ Q \in Nat /\ O \in Nat /\ O + P <= Others /\ Q <= P
            /\ s - 1 \in Int /\ s \in Int
        BY <1>3, <2>5, <3>3
      <4>2. admitted'[h][i] = s
        BY <3>1, <3>3
      <4>3. O2 <= O + 1 /\ (~(now[t] < s) => O2 = O)
        BY <2>8, <3>3, OvertakenGrows
      <4>4. O2 \in Nat
        <5>1. admitted'[h] \in Seq(Time) /\ i \in Int
          BY <2>8 DEF Grows
        <5> QED BY <5>1, OvertakenFinite
      <4>5. now[t] <= s - 1 => Q = P - 1
        BY <2>2, <4>1, PendingLeaves
      <4> HIDE DEF P, Q, O, O2
      <4>6. now[t] < s => now[t] <= s - 1
        <5> HIDE DEF s
        <5>1. \A v \in Int : v < s => v <= s - 1
          BY <4>1
        <5> QED BY <3>1, <5>1
      <4>7. O2 + Q <= Others
        BY <1>2, <4>1, <4>3, <4>4, <4>5, <4>6
      <4> QED BY <4>2, <4>7 DEF O2, Q
    <3> QED BY <3>1, <3>2, <3>3
  <2> QED BY <2>4, <2>6, <2>7, <2>8
<1> QED BY <1>5, <1>6

-------------------------------------------------------------------------------
(* The limiter's promises.                                                 *)

\* Whatever the threads do between reading the clock and entering the block,
\* no window sees more than maxQueries + Others queries let through by one
\* deque.
THEOREM WindowsAreBounded == Spec => []WindowBounded
<1>1. InitPools => Inv /\ Counted
  BY InitInv, InitCounted DEF InitPools
<1>2. Inv /\ Counted /\ [NextPools]_allVars => (Inv /\ Counted)'
  BY StepLimits, StepInv, StepCounted
<1>3. Inv /\ Counted => WindowBounded
  <2> SUFFICES ASSUME Inv, Counted, NEW g \in DOMAIN admitted, NEW x \in Time
               PROVE  InWindow(g, x) <= MaxQueries + Others
    BY DEF WindowBounded
  <2>1. InWindow(g, x) = Cardinality(Window(admitted[g], x))
    BY DEF InWindow, Window
  <2>2. g \in 1 .. Len(deques) /\ Len(admitted) = Len(deques) /\ admitted[g] \in Seq(Time)
    BY DequeTypes DEF Inv
  <2>3. x \in Int
    BY DEF Time
  <2>4. /\ Cardinality(Window(admitted[g], x)) \in Nat /\ Others \in Nat /\ MaxQueries \in Nat
        /\ Cardinality(Pending(pc, now, x)) \in Nat
    BY <2>2, <2>3, WindowFinite, PendingFinite, ThreadCount, LimiterAssumption
  <2>5. CASE \A i \in 1 .. Gone(g) : admitted[g][i] \notin x - WindowSeconds .. x
    <3>1. Cardinality(Window(admitted[g], x)) <= MaxQueries
      BY <2>2, <2>5, KeptBounds
    <3> QED BY <2>1, <2>4, <3>1
  <2>6. CASE Cardinality(Window(admitted[g], x)) + Cardinality(Pending(pc, now, x))
               <= MaxQueries + Others
    BY <2>1, <2>4, <2>6
  <2> QED BY <2>2, <2>5, <2>6 DEF Counted
<1> QED BY <1>1, <1>2, <1>3, PTL DEF Spec, allVars

\* If sequence q is the end of a, after its first o elements, and its head is
\* fresh, then what is stale in q was let through after that head.
LEMMA StaleOvertaken ==
  ASSUME NEW a \in Seq(Time), NEW q \in Seq(Time), NEW o \in Nat, NEW c \in Int,
         Len(a) = o + Len(q), \A i \in 1 .. Len(q) : q[i] = a[o + i],
         Len(q) >= 1, q[1] >= c
  PROVE  Cardinality({i \in DOMAIN q : ~(q[i] >= c)}) <= Cardinality(Overtaken(a, o + 1))
<1> DEFINE Stale == {i \in DOMAIN q : ~(q[i] >= c)}
           f == [i \in Stale |-> o + i]
           l == Len(q)
<1>1. /\ l \in Nat /\ DOMAIN q = 1 .. l /\ DOMAIN a = 1 .. o + l
      /\ \A i \in 1 .. l : q[i] \in Int
  <2>1. /\ Len(q) \in Nat /\ DOMAIN q = 1 .. Len(q) /\ DOMAIN a = 1 .. Len(a)
        /\ \A i \in 1 .. Len(q) : q[i] \in Time
    BY LenProperties, ElementOfSeq
  <2>2. \A x \in Time : x \in Int
    BY DEF Time
  <2> QED BY <2>1, <2>2
<1>2. l >= 1 /\ \A i \in 1 .. l : q[i] = a[o + i]
  OBVIOUS
<1> HIDE DEF l
<1>3. a[o + 1] = q[1] /\ q[1] \in Int
  BY <1>1, <1>2
<1>4. ASSUME NEW i \in Stale
      PROVE  o + i \in Overtaken(a, o + 1) /\ i \in Nat
  <2>1. i \in 1 .. l /\ ~(q[i] >= c) /\ q[i] \in Int /\ a[o + i] = q[i] /\ i # 1
    BY <1>1, <1>2
  <2>2. o + i \in 1 .. o + l /\ o + i > o + 1
    BY <1>1, <2>1
  <2>3. a[o + i] < a[o + 1]
    BY <1>3, <2>1
  <2> QED BY <1>1, <2>1, <2>2, <2>3 DEF Overtaken
<1>5. IsFiniteSet(Overtaken(a, o + 1))
  BY OvertakenFinite
<1>6. f \in Injection(Stale, Overtaken(a, o + 1))
  <2>1. f \in [Stale -> Overtaken(a, o + 1)]
    BY <1>4
  <2>2. \A i, j \in Stale : f[i] = f[j] => i = j
    BY <1>4
  <2> HIDE DEF f, Stale
  <2> QED BY <2>1, <2>2 DEF Injection, IsInjective
<1> HIDE DEF f, Stale
<1>7. Cardinality(Stale) <= Cardinality(Overtaken(a, o + 1))
  BY <1>5, <1>6, FS_Injection
<1> QED BY <1>7 DEF Stale

\* What is not stale is fresh.
LEMMA FreshCount ==
  ASSUME NEW q \in Seq(Time), NEW c \in Int
  PROVE  LET F == Cardinality({i \in DOMAIN q : q[i] >= c})
             S == Cardinality({i \in DOMAIN q : ~(q[i] >= c)})
         IN  F \in Nat /\ S \in Nat /\ F + S = Len(q)
<1> DEFINE F == {i \in DOMAIN q : q[i] >= c}
           S == {i \in DOMAIN q : ~(q[i] >= c)}
           l == Len(q)
<1>1. l \in Nat /\ DOMAIN q = 1 .. l
  BY LenProperties
<1>2. F \cup S = 1 .. l /\ F \cap S = {} /\ F \in SUBSET (1 .. l) /\ S \in SUBSET (1 .. l)
  BY <1>1
<1> HIDE DEF F, S, l
<1>3. IsFiniteSet(1 .. l) /\ Cardinality(1 .. l) = l
  BY <1>1, FS_Interval
<1>4. /\ IsFiniteSet(F) /\ Cardinality(F) \in Nat
      /\ IsFiniteSet(S) /\ Cardinality(S) \in Nat
  BY <1>2, <1>3, FS_Subset, FS_CardinalityType
<1>5. Cardinality(F \cup S) = Cardinality(F) + Cardinality(S) - Cardinality(F \cap S)
  BY <1>4, FS_Union
<1>6. Cardinality(F \cap S) = 0
  BY <1>2, FS_EmptySet
<1>7. Cardinality(F) + Cardinality(S) = l
  <2>1. Cardinality(F \cup S) = l
    BY <1>2, <1>3
  <2> QED BY <1>1, <1>4, <1>5, <1>6, <2>1
<1> QED BY <1>4, <1>7 DEF F, S, l

\* The stamps that are stale for the dropped query and still in its deque came
\* after the fresh one at its head, and are older.
LEMMA DropJustified ==
  ASSUME Inv, Inversions, NEW t \in Thread, Drop(t)
  PROVE  LET q == Evict(deques[held[t]], Cutoff(t))
         IN  Cardinality({i \in DOMAIN q : q[i] >= Cutoff(t)}) >= MaxQueries - Others
<1> DEFINE g == held[t]
           q == Evict(deques[g], Cutoff(t))
           c == Cutoff(t)
           m == Len(deques[g])
           n == Len(admitted[g])
           F == Cardinality({i \in DOMAIN q : q[i] >= c})
           S == Cardinality({i \in DOMAIN q : ~(q[i] >= c)})
<1>1. g \in 1 .. Len(deques) /\ now[t] \in Time
  BY DropTrims
<1>2. PICK k \in 0 .. m :
        /\ Trims(g, k, now[t] - WindowSeconds)
        /\ m - k >= MaxQueries /\ deques'[g] = q /\ Len(deques'[g]) = m - k
  BY DropTrims
<1>3. c = now[t] - WindowSeconds /\ c \in Int
  BY <1>1, LimiterAssumption DEF Cutoff, Time
<1>4. m \in Nat /\ n \in Nat /\ admitted[g] \in Seq(Time) /\ Len(admitted) = Len(deques)
  BY <1>1, DequeTypes DEF Inv
<1>5. m <= n /\ \A i \in 1 .. m : deques[g][i] = admitted[g][(n - m) + i]
  BY <1>1 DEF Inv, Suffix, Gone
<1>6. q \in Seq(Time)
  BY <1>1, <1>2, ElementOfSeq DEF Trims
<1>7. /\ Len(q) = m - k /\ (k < m => deques[g][k + 1] >= c)
      /\ \A i \in 1 .. m - k : q[i] = deques[g][k + i]
  BY <1>2, <1>3 DEF Trims
<1>8. MaxQueries \in Nat /\ Others \in Nat
  BY LimiterAssumption, ThreadCount
<1> HIDE DEF q, c
<1>9. F \in Nat /\ S \in Nat /\ F + S = Len(q)
  BY <1>3, <1>6, FreshCount
<1>10. n = Len(admitted[g])
  OBVIOUS
<1> HIDE DEF F, S, m, n, g
<1>11. S <= Others
  <2>1. CASE k = m
    BY <1>4, <1>7, <1>8, <1>9, <2>1
  <2>2. CASE k < m
    <3> DEFINE o == (n - m) + k
    <3>1. o \in Nat /\ n = o + (m - k) /\ m - k >= 1 /\ o + 1 \in 1 .. n
      BY <1>4, <1>5, <2>2
    <3>2. ASSUME NEW i \in 1 .. m - k PROVE q[i] = admitted[g][o + i]
      <4>1. k + i \in 1 .. m /\ (n - m) + (k + i) = o + i
        BY <1>4
      <4> QED BY <1>5, <1>7, <4>1
    <3>3. q[1] >= c
      <4>1. 1 \in 1 .. m - k
        BY <1>4, <3>1
      <4> QED BY <1>7, <2>2, <4>1
    <3> HIDE DEF o
    <3>4. S <= Cardinality(Overtaken(admitted[g], o + 1))
      <4>1. Len(admitted[g]) = o + Len(q) /\ Len(q) >= 1
        BY <1>7, <1>10, <3>1
      <4>2. \A i \in 1 .. Len(q) : q[i] = admitted[g][o + i]
        BY <1>7, <3>2
      <4> QED BY <1>3, <1>4, <1>6, <3>1, <3>3, <4>1, <4>2, StaleOvertaken DEF S
    <3>5. Cardinality(Overtaken(admitted[g], o + 1))
            + Cardinality(Pending(pc, now, admitted[g][o + 1] - 1)) <= Others
      BY <1>1, <1>4, <1>10, <3>1 DEF Inversions
    <3>6. /\ Cardinality(Pending(pc, now, admitted[g][o + 1] - 1)) \in Nat
          /\ Cardinality(Overtaken(admitted[g], o + 1)) \in Nat
      <4>1. o + 1 \in Int
        BY <3>1
      <4> QED BY <1>4, <4>1, PendingFinite, OvertakenFinite
    <3> QED BY <1>8, <1>9, <3>4, <3>5, <3>6
  <2> QED BY <1>4, <2>1, <2>2
<1>12. F >= MaxQueries - Others
  BY <1>2, <1>4, <1>7, <1>8, <1>9, <1>11
<1> QED BY <1>12 DEF F, q, c, g

\* A query is dropped only if all but Others of the stamps that fill its deque
\* are in its window or younger, in whatever order the threads came.
THEOREM DropsAreJustified == Spec => DropsJustified
<1>1. InitPools => Inv /\ Inversions
  BY InitInv, InitCounted DEF InitPools
<1>2. Inv /\ Inversions /\ [NextPools]_allVars => (Inv /\ Inversions)'
  BY StepLimits, StepInv, StepInversions
<1>3. Inv /\ Inversions =>
        [\A t \in Thread : Drop(t) =>
           LET q == Evict(deques[held[t]], Cutoff(t))
           IN  Cardinality({i \in DOMAIN q : q[i] >= Cutoff(t)}) >= MaxQueries - Others]_vars
  BY DropJustified
<1> QED BY <1>1, <1>2, <1>3, PTL DEF Spec, allVars, DropsJustified

-------------------------------------------------------------------------------
(* The pools.                                                              *)

\* What the listeners and the workers keep, and the limiter with them.
THEOREM TypeCorrect == Spec => []PoolTypeOK
<1> USE PoolAssumption
<1>1. InitPools => Inv /\ PoolInv
  <2> SUFFICES ASSUME InitPools PROVE PoolInv
    BY InitInv DEF InitPools
  <2>1. TypeOK
    BY InitInv DEF InitPools, Inv
  <2>2. received = <<0, 0>> /\ udpQueue = 0 /\ tcpQueue = 0
    BY DEF InitPools
  <2>3. \A t \in Thread : pc[t] = "idle"
    BY DEF InitPools, Init
  <2> QED BY <2>1, <2>2, <2>3 DEF InitPools, PoolInv, PoolTypeOK
<1>2. ASSUME Inv, PoolInv, [NextPools]_allVars PROVE (Inv /\ PoolInv)'
  <2>1. Inv' /\ TypeOK'
    BY <1>2, StepLimits, StepInv DEF Inv
  <2>2. /\ udpQueue \in 0 .. MaxUdp /\ tcpQueue \in 0 .. MaxTcp
        /\ received \in (0 .. MaxUdp) \X (0 .. MaxTcp)
        /\ received[1] \in 0 .. MaxUdp /\ received[2] \in 0 .. MaxTcp
        /\ stage \in [Thread -> {"free", "mute", "limiting", "handling"}]
        /\ \A t \in Thread : pc[t] # "idle" => stage[t] = "limiting"
        /\ udpQueue <= received[1] /\ tcpQueue <= received[2]
        /\ pc \in [Thread -> {"idle", "stamped", "holding"}]
    BY <1>2 DEF PoolInv, PoolTypeOK, TypeOK
  <2>3. CASE runUdpServer
    BY <2>1, <2>2, <2>3 DEF runUdpServer, PoolInv, PoolTypeOK, vars
  <2>4. CASE runTcpServer
    BY <2>1, <2>2, <2>4 DEF runTcpServer, PoolInv, PoolTypeOK, vars
  <2>5. ASSUME NEW t \in Thread, TakeDatagram(t) PROVE PoolInv'
    BY <2>1, <2>2, <2>5 DEF TakeDatagram, Goes, PoolInv, PoolTypeOK, vars
  <2>6. ASSUME NEW t \in Thread, TakeConnection(t) PROVE PoolInv'
    BY <2>1, <2>2, <2>6 DEF TakeConnection, Goes, PoolInv, PoolTypeOK, vars
  <2>7. ASSUME NEW t \in Thread, Answer(t) PROVE PoolInv'
    BY <2>1, <2>2, <2>7 DEF Answer, Goes, PoolInv, PoolTypeOK, vars
  <2>8. ASSUME NEW t \in Thread, Limit(t) PROVE PoolInv'
    <3>1. stage[t] = "limiting" /\ UNCHANGED <<udpQueue, tcpQueue, received>>
      BY <2>8 DEF Limit
    <3>2. stage' \in [Thread -> {"free", "mute", "limiting", "handling"}]
      BY <2>2, <2>8 DEF Limit, Goes
    <3>3. \A r \in Thread : pc'[r] # "idle" => stage'[r] = "limiting"
      <4>1. CASE (Stamp(t) \/ Lookup(t)) /\ UNCHANGED stage
        BY <2>2, <3>1, <4>1 DEF Stamp, Lookup
      <4>2. CASE (Admit(t) /\ Goes(t, "handling")) \/ (Drop(t) /\ Goes(t, "free"))
        BY <2>2, <4>2 DEF Admit, Drop, Leave, Goes
      <4> QED BY <2>8, <4>1, <4>2 DEF Limit
    <3> QED BY <2>1, <2>2, <3>1, <3>2, <3>3 DEF PoolInv, PoolTypeOK
  <2>9. CASE (reset \/ Tick) /\ UNCHANGED poolVars
    BY <2>1, <2>2, <2>9 DEF reset, Tick, poolVars, PoolInv, PoolTypeOK
  <2>10. CASE UNCHANGED allVars
    BY <2>1, <2>2, <2>10 DEF allVars, vars, poolVars, PoolInv, PoolTypeOK
  <2> QED BY <1>2, <2>1, <2>3, <2>4, <2>5, <2>6, <2>7, <2>8, <2>9, <2>10
         DEF NextPools, Work, handleRequest
<1>3. PoolInv => PoolTypeOK
  BY DEF PoolInv
<1> QED BY <1>1, <1>2, <1>3, PTL DEF Spec, allVars
================================================================================
