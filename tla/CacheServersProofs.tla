-------------------------- MODULE CacheServersProofs --------------------------
(***************************************************************************)
(* CacheServers for any names, values and capacities: both servers keep    *)
(* what an LRU cache should, and L2 serves each name as CacheEntry says.   *)
(*                                                                         *)
(* The lemmas are about the LRU class alone, with any capacity; the two    *)
(* servers then use them with theirs.                                      *)
(***************************************************************************)
EXTENDS CacheServers, SequenceTheorems, TLAPS

\* The LRU class with any capacity.
Lru(capacity) == INSTANCE LruCache WITH Capacity <- capacity

\* Sequence b is a without its i-th element and with e at the end.
Moves(a, b, i, e) ==
  /\ Len(b) = Len(a) /\ b[Len(a)] = e
  /\ \A j \in 1 .. Len(a) - 1 : b[j] = IF j < i THEN a[j] ELSE a[j + 1]

LEMMA CutMoves ==
  ASSUME NEW cap, NEW S, NEW s \in Seq(S), NEW i \in 1 .. Len(s), NEW e \in S
  PROVE  /\ Append(Lru(cap)!Cut(s, i), e) \in Seq(S)
         /\ Moves(s, Append(Lru(cap)!Cut(s, i), e), i, e)
<1> DEFINE c == Lru(cap)!Cut(s, i)
<1>1. Len(s) \in Nat /\ \A j \in 1 .. Len(s) : s[j] \in S
  BY LenProperties, ElementOfSeq
<1>2. /\ c \in Seq(S) /\ Len(c) = Len(s) - 1
      /\ \A j \in 1 .. Len(s) - 1 : c[j] = IF j < i THEN s[j] ELSE s[j + 1]
  BY <1>1 DEF Lru!Cut
<1> HIDE DEF c
<1>3. /\ Append(c, e) \in Seq(S) /\ Len(Append(c, e)) = Len(c) + 1
      /\ Append(c, e)[Len(c) + 1] = e /\ \A j \in 1 .. Len(c) : Append(c, e)[j] = c[j]
  BY <1>2, AppendProperties
<1>4. Moves(s, Append(c, e), i, e)
  BY <1>1, <1>2, <1>3 DEF Moves
<1> QED BY <1>3, <1>4 DEF c

Item == [key : Key, value : Value]

\* How many of the names in u a cache holds.
Fits(cap, u) == IF Len(u) < cap THEN Len(u) ELSE cap

\* The names in u are different and each was given a value, and c holds the
\* last of them.
Tidy(cap, c, u, st) ==
  /\ u \in Seq(Key) /\ \A i, j \in 1 .. Len(u) : u[i] = u[j] => i = j
  /\ st \in [Key -> Value \cup {NA}] /\ \A i \in 1 .. Len(u) : st[u[i]] \in Value
  /\ Lru(cap)!MostRecent(c, u, st)

\* MostRecent, entry by entry.
LEMMA TidyItems ==
  ASSUME NEW cap \in Nat \ {0}, NEW c, NEW u, NEW st, Tidy(cap, c, u, st)
  PROVE  /\ c \in Seq(Item) /\ Len(c) = Fits(cap, u) /\ DOMAIN c = 1 .. Len(c)
         /\ Len(c) \in Nat /\ Len(u) \in Nat /\ Len(c) <= Len(u) /\ Len(c) <= cap
         /\ Len(c) < cap => Len(c) = Len(u)
         /\ \A i \in 1 .. Len(c) :
              /\ Len(u) - Len(c) + i \in 1 .. Len(u)
              /\ c[i] = [key |-> u[Len(u) - Len(c) + i], value |-> st[u[Len(u) - Len(c) + i]]]
<1> DEFINE n == Fits(cap, u)
<1>1. Len(u) \in Nat /\ \A i \in 1 .. Len(u) : u[i] \in Key
  BY LenProperties, ElementOfSeq DEF Tidy
<1>2. n \in Nat /\ n <= Len(u) /\ n <= cap /\ (n < cap => n = Len(u))
  BY <1>1 DEF Fits
<1>3. c = [i \in 1 .. n |-> [key |-> u[Len(u) - n + i], value |-> st[u[Len(u) - n + i]]]]
  BY DEF Tidy, Lru!MostRecent, Fits
<1> HIDE DEF n
<1>4. \A i \in 1 .. n : Len(u) - n + i \in 1 .. Len(u)
  BY <1>1, <1>2
<1>5. \A i \in 1 .. n :
        /\ c[i] = [key |-> u[Len(u) - n + i], value |-> st[u[Len(u) - n + i]]]
        /\ c[i] \in Item
  BY <1>1, <1>3, <1>4 DEF Tidy, Item
<1>6. c \in Seq(Item) /\ Len(c) = n /\ DOMAIN c = 1 .. n
  BY <1>2, <1>3, <1>5
<1> QED BY <1>1, <1>2, <1>4, <1>5, <1>6 DEF n

LEMMA ItemsTidy ==
  ASSUME NEW cap \in Nat \ {0}, NEW c \in Seq(Item), NEW u, NEW st,
         u \in Seq(Key), \A i, j \in 1 .. Len(u) : u[i] = u[j] => i = j,
         st \in [Key -> Value \cup {NA}], \A i \in 1 .. Len(u) : st[u[i]] \in Value,
         Len(c) = Fits(cap, u),
         \A i \in 1 .. Len(c) :
           c[i] = [key |-> u[Len(u) - Len(c) + i], value |-> st[u[Len(u) - Len(c) + i]]]
  PROVE  Tidy(cap, c, u, st)
<1>1. c \in [1 .. Len(c) -> Item]
  BY LenProperties
<1>2. c = [i \in 1 .. Len(c) |->
             [key |-> u[Len(u) - Len(c) + i], value |-> st[u[Len(u) - Len(c) + i]]]]
  BY <1>1
<1>3. Lru(cap)!MostRecent(c, u, st)
  BY <1>2 DEF Lru!MostRecent, Fits
<1> QED BY <1>3 DEF Tidy

\* A use puts the name at the end, and takes it from where it was.
LEMMA UsedMoves ==
  ASSUME NEW cap, NEW u \in Seq(Key), NEW k \in Key
  PROVE  /\ Lru(cap)!Used(u, k) \in Seq(Key)
         /\ \/ \E p \in 1 .. Len(u) : u[p] = k /\ Moves(u, Lru(cap)!Used(u, k), p, k)
            \/ /\ \A p \in 1 .. Len(u) : u[p] # k
               /\ Lru(cap)!Used(u, k) = Append(u, k)
<1>1. DOMAIN u = 1 .. Len(u)
  BY LenProperties
<1>2. CASE \E p \in 1 .. Len(u) : u[p] = k
  <2> DEFINE p == CHOOSE i \in DOMAIN u : u[i] = k
  <2>1. p \in 1 .. Len(u) /\ u[p] = k
    BY <1>1, <1>2
  <2>2. Lru(cap)!Used(u, k) = Append(Lru(cap)!Cut(u, p), k)
    BY <1>1, <1>2 DEF Lru!Used
  <2> HIDE DEF p
  <2> QED BY <2>1, <2>2, CutMoves
<1>3. CASE ~\E p \in 1 .. Len(u) : u[p] = k
  <2>1. Lru(cap)!Used(u, k) = Append(u, k)
    BY <1>1, <1>3 DEF Lru!Used
  <2> QED BY <1>3, <2>1, AppendProperties
<1> QED BY <1>2, <1>3

LEMMA AtEndMoves ==
  ASSUME NEW cap, NEW c \in Seq(Item), NEW k \in Key, NEW v \in Value, Lru(cap)!Has(c, k)
  PROVE  /\ Lru(cap)!AtEnd(c, k, v) \in Seq(Item)
         /\ \E p \in 1 .. Len(c) :
              /\ p = Lru(cap)!Place(c, k) /\ c[p].key = k
              /\ Moves(c, Lru(cap)!AtEnd(c, k, v), p, [key |-> k, value |-> v])
<1> DEFINE e == [key |-> k, value |-> v]
           p == Lru(cap)!Place(c, k)
<1>1. DOMAIN c = 1 .. Len(c) /\ e \in Item
  BY LenProperties DEF Item
<1>2. p \in 1 .. Len(c) /\ c[p].key = k
  BY <1>1 DEF Lru!Has, Lru!Place
<1>3. Lru(cap)!AtEnd(c, k, v) = Append(Lru(cap)!Cut(c, p), e)
  BY DEF Lru!AtEnd, Lru!Without
<1> HIDE DEF p, e
<1>4. Append(Lru(cap)!Cut(c, p), e) \in Seq(Item) /\ Moves(c, Append(Lru(cap)!Cut(c, p), e), p, e)
  BY <1>1, <1>2, CutMoves
<1> QED BY <1>2, <1>3, <1>4 DEF p, e

\* A use leaves the names different, and each with a value.
LEMMA UsedDiffer ==
  ASSUME NEW cap, NEW u \in Seq(Key), NEW k \in Key, NEW v \in Value,
         \A i, j \in 1 .. Len(u) : u[i] = u[j] => i = j,
         NEW st \in [Key -> Value \cup {NA}], \A i \in 1 .. Len(u) : st[u[i]] \in Value
  PROVE  LET w == Lru(cap)!Used(u, k)
         IN  /\ \A i, j \in 1 .. Len(w) : w[i] = w[j] => i = j
             /\ \A i \in 1 .. Len(w) : [st EXCEPT ![k] = v][w[i]] \in Value
<1> DEFINE w == Lru(cap)!Used(u, k)
           n == Len(u)
<1>1. n \in Nat /\ \A i \in 1 .. n : u[i] \in Key
  BY LenProperties, ElementOfSeq
<1>2. CASE \E p \in 1 .. Len(u) : u[p] = k /\ Moves(u, w, p, k)
  <2>1. PICK p \in 1 .. n : u[p] = k /\ Moves(u, w, p, k)
    BY <1>2
  <2> DEFINE from(i) == IF i = n THEN p ELSE IF i < p THEN i ELSE i + 1
  <2>2. Len(w) = n /\ \A i \in 1 .. n : w[i] = u[from(i)]
    BY <1>1, <2>1 DEF Moves
  <2>3. \A i \in 1 .. n : from(i) \in 1 .. n
    BY <1>1, <2>1
  <2>4. \A i, j \in 1 .. n : from(i) = from(j) => i = j
    BY <1>1, <2>1
  <2> HIDE DEF from, w
  <2>5. \A i, j \in 1 .. n : w[i] = w[j] => i = j
    BY <2>2, <2>3, <2>4
  <2>6. \A i \in 1 .. n : [st EXCEPT ![k] = v][w[i]] \in Value
    BY <1>1, <2>2, <2>3
  <2> QED BY <2>2, <2>5, <2>6 DEF w
<1>3. CASE (\A p \in 1 .. Len(u) : u[p] # k) /\ w = Append(u, k)
  <2>1. Len(w) = n + 1 /\ w[n + 1] = k /\ \A i \in 1 .. n : w[i] = u[i]
    BY <1>3, AppendProperties
  <2> HIDE DEF w
  <2>2. \A i \in 1 .. n + 1 : i \in 1 .. n \/ i = n + 1
    BY <1>1
  <2>3. \A i, j \in 1 .. n + 1 : w[i] = w[j] => i = j
    BY <1>3, <2>1, <2>2
  <2>4. \A i \in 1 .. n + 1 : [st EXCEPT ![k] = v][w[i]] \in Value
    BY <1>1, <1>3, <2>1, <2>2
  <2> QED BY <2>1, <2>3, <2>4 DEF w
<1>4. \/ \E p \in 1 .. Len(u) : u[p] = k /\ Moves(u, w, p, k)
      \/ (\A p \in 1 .. Len(u) : u[p] # k) /\ w = Append(u, k)
  BY UsedMoves
<1> QED BY <1>2, <1>3, <1>4

\* A name in the cache goes to the end of it and of u alike.
LEMMA SetCached ==
  ASSUME NEW cap \in Nat \ {0}, NEW c, NEW u, NEW st, Tidy(cap, c, u, st),
         NEW k \in Key, NEW v \in Value, Lru(cap)!Has(c, k)
  PROVE  /\ Lru(cap)!set(c, k, v) = Lru(cap)!AtEnd(c, k, v)
         /\ Tidy(cap, Lru(cap)!set(c, k, v), Lru(cap)!Used(u, k), [st EXCEPT ![k] = v])
<1> DEFINE d == Lru(cap)!AtEnd(c, k, v)
           w == Lru(cap)!Used(u, k)
           t == [st EXCEPT ![k] = v]
           n == Len(c)
           o == Len(u) - Len(c)
<1>0. n \in Nat /\ o \in Nat /\ Len(u) \in Nat /\ Len(u) = o + n /\ (n < cap => o = 0)
  BY TidyItems
<1>1. /\ c \in Seq(Item) /\ n = Fits(cap, u) /\ n \in Nat /\ Len(u) \in Nat /\ n <= cap
      /\ o \in Nat /\ Len(u) = o + n
      /\ \A i \in 1 .. n : /\ o + i \in 1 .. Len(u)
                           /\ c[i] = [key |-> u[o + i], value |-> st[u[o + i]]]
  BY TidyItems
<1>2. /\ u \in Seq(Key) /\ \A i, j \in 1 .. Len(u) : u[i] = u[j] => i = j
      /\ st \in [Key -> Value \cup {NA}] /\ \A i \in 1 .. Len(u) : st[u[i]] \in Value
  BY DEF Tidy
<1>3. /\ d \in Seq(Item)
      /\ \E p \in 1 .. n : c[p].key = k /\ Moves(c, d, p, [key |-> k, value |-> v])
  <2>1. c \in Seq(Item)
    BY <1>1
  <2> QED BY <2>1, AtEndMoves
<1>4. PICK p \in 1 .. n : c[p].key = k /\ Moves(c, d, p, [key |-> k, value |-> v])
  BY <1>3
<1>5. u[o + p] = k /\ o + p \in 1 .. Len(u)
  BY <1>1, <1>4
<1>6. w \in Seq(Key) /\ \E q \in 1 .. Len(u) : u[q] = k /\ Moves(u, w, q, k)
  <2>1. /\ w \in Seq(Key)
        /\ (\E q \in 1 .. Len(u) : u[q] = k /\ Moves(u, w, q, k))
             \/ \A q \in 1 .. Len(u) : u[q] # k
    BY <1>2, UsedMoves
  <2> QED BY <1>5, <2>1
<1>7. w \in Seq(Key) /\ Moves(u, w, o + p, k)
  BY <1>2, <1>5, <1>6
<1>8. /\ \A i, j \in 1 .. Len(w) : w[i] = w[j] => i = j
      /\ \A i \in 1 .. Len(w) : t[w[i]] \in Value
  BY <1>2, UsedDiffer
<1>9. Lru(cap)!set(c, k, v) = d
  <2>1. Len(d) = n
    BY <1>4 DEF Moves
  <2> QED BY <1>1, <2>1 DEF Lru!set, Lru!Pop
<1>10. t \in [Key -> Value \cup {NA}] /\ t[k] = v /\ \A x \in Key : x # k => t[x] = st[x]
  BY <1>2
<1>11. \A i \in 1 .. Len(u) : u[i] \in Key
  BY <1>2, ElementOfSeq
<1> HIDE DEF d, w, t, n, o
<1>12. Len(d) = n /\ Len(w) = o + n
  BY <1>1, <1>4, <1>7 DEF Moves, n
<1>13. ASSUME NEW i \in 1 .. n
       PROVE  d[i] = [key |-> w[o + i], value |-> t[w[o + i]]]
  <2>1. CASE i = n
    <3>1. d[i] = [key |-> k, value |-> v]
      BY <1>4, <2>1 DEF Moves, n
    <3>2. w[o + i] = k
      BY <1>1, <1>7, <2>1 DEF Moves
    <3> QED BY <1>10, <3>1, <3>2
  <2>2. CASE i < n /\ i < p
    <3>1. /\ i \in 1 .. n - 1 /\ o + i \in 1 .. Len(u) - 1 /\ o + i < o + p
          /\ o + i \in 1 .. Len(u) /\ o + i # o + p
      BY <1>0, <2>2
    <3>2. d[i] = c[i] /\ w[o + i] = u[o + i]
      BY <1>4, <1>7, <2>2, <3>1 DEF Moves, n
    <3>3. u[o + i] # k
      BY <1>2, <1>5, <3>1
    <3> DEFINE x == u[o + i]
    <3>4. x \in Key /\ c[i] = [key |-> x, value |-> st[x]]
      BY <1>1, <1>11
    <3>5. d[i] = c[i] /\ w[o + i] = x
      BY <3>2
    <3> HIDE DEF x
    <3> QED BY <1>10, <3>3, <3>4, <3>5 DEF x
  <2>3. CASE i < n /\ ~(i < p)
    <3>1. /\ i \in 1 .. n - 1 /\ o + i \in 1 .. Len(u) - 1 /\ ~(o + i < o + p)
          /\ i + 1 \in 1 .. n /\ o + (i + 1) = (o + i) + 1
          /\ o + (i + 1) \in 1 .. Len(u) /\ o + (i + 1) # o + p
      BY <1>0, <2>3
    <3>2. d[i] = c[i + 1] /\ w[o + i] = u[(o + i) + 1]
      BY <1>4, <1>7, <2>3, <3>1 DEF Moves, n
    <3>3. u[o + (i + 1)] # k
      BY <1>2, <1>5, <3>1
    <3> DEFINE x == u[o + (i + 1)]
    <3>4. x \in Key /\ c[i + 1] = [key |-> x, value |-> st[x]]
      BY <1>1, <1>11, <3>1
    <3>5. d[i] = c[i + 1] /\ w[o + i] = x
      BY <3>1, <3>2
    <3> HIDE DEF x
    <3> QED BY <1>10, <3>3, <3>4, <3>5 DEF x
  <2> QED BY <1>1, <2>1, <2>2, <2>3
<1>14. Fits(cap, w) = n /\ Len(w) - n = o
  BY <1>1, <1>12 DEF Fits
<1>15. Tidy(cap, d, w, t)
  <2>1. \A i \in 1 .. Len(d) : d[i] = [key |-> w[Len(w) - Len(d) + i],
                                       value |-> t[w[Len(w) - Len(d) + i]]]
    BY <1>12, <1>13, <1>14
  <2> QED BY <1>3, <1>7, <1>8, <1>10, <1>12, <1>14, <2>1, ItemsTidy
<1> QED BY <1>9, <1>15 DEF d, w, t

\* Another name is added at the end, and if there is no room for it the first
\* of the cache goes.
LEMMA SetAdded ==
  ASSUME NEW cap \in Nat \ {0}, NEW c, NEW u, NEW st, Tidy(cap, c, u, st),
         NEW k \in Key, NEW v \in Value, ~Lru(cap)!Has(c, k)
  PROVE  Tidy(cap, Lru(cap)!set(c, k, v), Lru(cap)!Used(u, k), [st EXCEPT ![k] = v])
<1> DEFINE e == [key |-> k, value |-> v]
           d == Lru(cap)!set(c, k, v)
           w == Lru(cap)!Used(u, k)
           t == [st EXCEPT ![k] = v]
           n == Len(c)
           o == Len(u) - Len(c)
<1>0. n \in Nat /\ o \in Nat /\ Len(u) \in Nat /\ Len(u) = o + n /\ (n < cap => o = 0)
  BY TidyItems
<1>1. /\ c \in Seq(Item) /\ n = Fits(cap, u) /\ n \in Nat /\ Len(u) \in Nat /\ n <= cap
      /\ o \in Nat /\ Len(u) = o + n /\ (n < cap => o = 0)
      /\ \A i \in 1 .. n : /\ o + i \in 1 .. Len(u)
                           /\ c[i] = [key |-> u[o + i], value |-> st[u[o + i]]]
  BY TidyItems
<1>2. /\ u \in Seq(Key) /\ \A i, j \in 1 .. Len(u) : u[i] = u[j] => i = j
      /\ st \in [Key -> Value \cup {NA}] /\ \A i \in 1 .. Len(u) : st[u[i]] \in Value
  BY DEF Tidy
<1>3. Lru(cap)!AtEnd(c, k, v) = Append(c, e) /\ \A i \in 1 .. n : c[i].key # k
  <2>1. c \in Seq(Item)
    BY <1>1
  <2> HIDE DEF e, n
  <2>2. \A p \in 1 .. Len(c) : c[p].key # k
    BY <2>1, LenProperties DEF Lru!Has
  <2>3. Lru(cap)!AtEnd(c, k, v) = Append(c, e)
    BY DEF Lru!AtEnd, Lru!Without, e
  <2> QED BY <2>2, <2>3 DEF n
<1>4. e \in Item
  BY DEF Item
<1>5. d = IF Len(Append(c, e)) > cap THEN Tail(Append(c, e)) ELSE Append(c, e)
  BY <1>3 DEF Lru!set, Lru!Pop
<1>6. /\ \A i, j \in 1 .. Len(w) : w[i] = w[j] => i = j
      /\ \A i \in 1 .. Len(w) : t[w[i]] \in Value
  BY <1>2, UsedDiffer
<1>7. w \in Seq(Key)
  BY <1>2, UsedMoves
<1>8. t \in [Key -> Value \cup {NA}] /\ t[k] = v /\ \A x \in Key : x # k => t[x] = st[x]
  BY <1>2
<1>9. \A i \in 1 .. Len(u) : u[i] \in Key
  BY <1>2, ElementOfSeq
<1>10. \A i \in 1 .. n : u[o + i] # k
  BY <1>1, <1>3
<1> HIDE DEF d, e, t
<1>11. /\ Append(c, e) \in Seq(Item) /\ Append(c, e) # <<>> /\ Len(Append(c, e)) = n + 1
       /\ Append(c, e)[n + 1] = e /\ \A i \in 1 .. n : Append(c, e)[i] = c[i]
  <2>1. c \in Seq(Item)
    BY <1>1
  <2> QED BY <1>4, <2>1, AppendProperties
\* The end of u after the use: what it was, moved by one if the cache is full.
<1>12. /\ Len(w) \in Nat /\ Len(w) >= n /\ w[Len(w)] = k
       /\ n < cap => Len(w) = n + 1 /\ \A i \in 1 .. n : w[i] = u[i]
       /\ n = cap => \A i \in 1 .. n - 1 : w[Len(w) - n + i] = u[o + (i + 1)]
  <2>1. CASE \E p \in 1 .. Len(u) : u[p] = k /\ Moves(u, w, p, k)
    <3>1. PICK p \in 1 .. Len(u) : u[p] = k /\ Moves(u, w, p, k)
      BY <2>1
    <3> HIDE DEF w, n, o
    <3>2. p <= o
      <4>1. p > o => p - o \in 1 .. n /\ o + (p - o) = p
        BY <1>0
      <4> QED BY <1>1, <1>10, <3>1, <4>1
    <3>3. n = cap
      BY <1>1, <3>2
    <3>4. Len(w) = o + n /\ w[o + n] = k
      BY <1>1, <3>1 DEF Moves
    <3>5. ASSUME NEW i \in 1 .. n - 1
          PROVE  w[o + i] = u[o + (i + 1)]
      <4>1. o + i \in 1 .. Len(u) - 1 /\ ~(o + i < p) /\ (o + i) + 1 = o + (i + 1)
        BY <1>0, <3>2
      <4> QED BY <3>1, <4>1 DEF Moves
    <3>6. Len(w) - n = o
      BY <1>0, <3>4
    <3>7. Len(w) \in Nat /\ Len(w) >= n /\ ~(n < cap)
      BY <1>0, <3>3, <3>4
    <3>8. \A i \in 1 .. n - 1 : w[Len(w) - n + i] = u[o + (i + 1)]
      BY <3>5, <3>6
    <3>9. w[Len(w)] = k
      BY <3>4
    <3> QED BY <3>7, <3>8, <3>9
  <2>2. CASE w = Append(u, k)
    <3>1. Len(w) = Len(u) + 1 /\ w[Len(u) + 1] = k /\ \A i \in 1 .. Len(u) : w[i] = u[i]
      BY <1>2, <2>2, AppendProperties
    <3> HIDE DEF w, n, o
    <3>2. \A i \in 1 .. n - 1 :
            Len(w) - n + i = o + (i + 1) /\ o + (i + 1) \in 1 .. Len(u)
      BY <1>0, <3>1
    <3>3. Len(w) \in Nat /\ Len(w) >= n /\ (n < cap => Len(w) = n + 1 /\ Len(u) = n)
      BY <1>1, <3>1
    <3>4. w[Len(w)] = k
      BY <3>1
    <3>5. n < cap => \A i \in 1 .. n : w[i] = u[i]
      BY <3>1, <3>3
    <3>6. \A i \in 1 .. n - 1 : w[Len(w) - n + i] = u[o + (i + 1)]
      BY <3>1, <3>2
    <3> QED BY <3>3, <3>4, <3>5, <3>6
  <2>3. \/ \E p \in 1 .. Len(u) : u[p] = k /\ Moves(u, w, p, k)
        \/ w = Append(u, k)
    BY <1>2, UsedMoves
  <2> QED BY <2>1, <2>2, <2>3
<1> HIDE DEF w, n, o
<1>13. CASE n < cap
  <2>1. d = Append(c, e) /\ Len(w) = n + 1 /\ Fits(cap, w) = n + 1 /\ o = 0
    BY <1>1, <1>5, <1>11, <1>12, <1>13 DEF Fits
  <2>2. ASSUME NEW i \in 1 .. n + 1
        PROVE  d[i] = [key |-> w[i], value |-> t[w[i]]]
    <3>1. CASE i = n + 1
      BY <1>8, <1>11, <1>12, <2>1, <3>1 DEF e
    <3>2. CASE i \in 1 .. n
      <4>1. o + i = i /\ o + i \in 1 .. Len(u)
        BY <1>0, <2>1, <3>2
      <4>2. d[i] = c[i] /\ w[i] = u[o + i] /\ u[o + i] \in Key
        BY <1>9, <1>11, <1>12, <1>13, <2>1, <3>2, <4>1
      <4> DEFINE x == u[o + i]
      <4>3. x \in Key /\ x # k /\ c[i] = [key |-> x, value |-> st[x]]
        BY <1>1, <1>10, <3>2, <4>2
      <4>4. d[i] = c[i] /\ w[i] = x
        BY <4>2
      <4> HIDE DEF x
      <4> QED BY <1>8, <4>3, <4>4
    <3> QED BY <1>0, <3>1, <3>2
  <2>3. Len(d) = n + 1 /\ \A i \in 1 .. n + 1 : Len(w) - Len(d) + i = i
    BY <1>1, <1>11, <2>1
  <2>4. \A i \in 1 .. Len(d) : d[i] = [key |-> w[Len(w) - Len(d) + i],
                                       value |-> t[w[Len(w) - Len(d) + i]]]
    BY <2>2, <2>3
  <2>5. Tidy(cap, d, w, t)
    BY <1>6, <1>7, <1>8, <1>11, <2>1, <2>3, <2>4, ItemsTidy
  <2> QED BY <2>5 DEF d, w, t
<1>14. CASE n = cap
  <2>1. d = Tail(Append(c, e)) /\ Fits(cap, w) = n
    <3>1. Len(Append(c, e)) > cap
      BY <1>11, <1>14
    <3>2. Len(w) \in Nat /\ Len(w) >= n
      BY <1>12, <1>14
    <3> QED BY <1>5, <1>14, <3>1, <3>2 DEF Fits
  <2>2. d \in Seq(Item) /\ Len(d) = n /\ \A i \in 1 .. n : d[i] = Append(c, e)[i + 1]
    <3> DEFINE a == Append(c, e)
    <3>1. a \in Seq(Item) /\ a # <<>> /\ Len(a) = n + 1 /\ n \in Nat
      BY <1>1, <1>11
    <3> HIDE DEF a
    <3>2. /\ Tail(a) \in Seq(Item) /\ Len(Tail(a)) = Len(a) - 1
          /\ \A i \in 1 .. Len(Tail(a)) : Tail(a)[i] = a[i + 1]
      BY <3>1, HeadTailProperties
    <3>3. Len(Tail(a)) = n
      BY <3>1, <3>2
    <3> QED BY <2>1, <3>2, <3>3 DEF a
  <2>3. ASSUME NEW i \in 1 .. n
        PROVE  d[i] = [key |-> w[Len(w) - n + i], value |-> t[w[Len(w) - n + i]]]
    <3>1. CASE i = n
      <4>1. Len(w) - n + i = Len(w)
        BY <1>0, <1>12, <3>1
      <4> QED BY <1>8, <1>11, <1>12, <2>2, <3>1, <4>1 DEF e
    <3>2. CASE i \in 1 .. n - 1
      <4>1. i + 1 \in 1 .. n
        BY <1>0, <3>2
      <4>2. d[i] = c[i + 1] /\ w[Len(w) - n + i] = u[o + (i + 1)] /\ u[o + (i + 1)] \in Key
        BY <1>1, <1>9, <1>11, <1>12, <1>14, <2>2, <3>2, <4>1
      <4> DEFINE x == u[o + (i + 1)]
      <4>3. x \in Key /\ x # k /\ c[i + 1] = [key |-> x, value |-> st[x]]
        BY <1>1, <1>10, <4>1, <4>2
      <4>4. d[i] = c[i + 1] /\ w[Len(w) - n + i] = x
        BY <4>2
      <4> HIDE DEF x
      <4> QED BY <1>8, <4>3, <4>4
    <3> QED BY <1>1, <3>1, <3>2
  <2>4. \A i \in 1 .. Len(d) : d[i] = [key |-> w[Len(w) - Len(d) + i],
                                       value |-> t[w[Len(w) - Len(d) + i]]]
    BY <2>2, <2>3
  <2>5. Tidy(cap, d, w, t)
    BY <1>6, <1>7, <1>8, <2>1, <2>2, <2>4, ItemsTidy
  <2> QED BY <2>5 DEF d, w, t
<1> QED BY <1>1, <1>13, <1>14

\* A SET, whether the name was cached or not.
LEMMA SetTidy ==
  ASSUME NEW cap \in Nat \ {0}, NEW c, NEW u, NEW st, Tidy(cap, c, u, st),
         NEW k \in Key, NEW v \in Value
  PROVE  Tidy(cap, Lru(cap)!set(c, k, v), Lru(cap)!Used(u, k), [st EXCEPT ![k] = v])
BY SetCached, SetAdded

\* What the cache has of a name is what was stored for it last.
LEMMA HasAt ==
  ASSUME NEW cap \in Nat \ {0}, NEW c, NEW u, NEW st, Tidy(cap, c, u, st), NEW k,
         Lru(cap)!Has(c, k)
  PROVE  Lru(cap)!At(c, k) = st[k] /\ st[k] \in Value
<1> DEFINE p == Lru(cap)!Place(c, k)
           x == Len(u) - Len(c) + p
<1>1. p \in 1 .. Len(c) /\ c[p].key = k
  BY TidyItems DEF Lru!Has, Lru!Place
<1>2. x \in 1 .. Len(u) /\ c[p] = [key |-> u[x], value |-> st[u[x]]]
  BY <1>1, TidyItems
<1>3. Lru(cap)!At(c, k) = c[p].value
  BY DEF Lru!At
<1> HIDE DEF p, x
<1>4. u[x] = k /\ c[p].value = st[u[x]]
  BY <1>1, <1>2
<1> QED BY <1>2, <1>3, <1>4 DEF Tidy

\* A hit is a SET of the value that is there.
LEMMA GetTidy ==
  ASSUME NEW cap \in Nat \ {0}, NEW c, NEW u, NEW st, Tidy(cap, c, u, st),
         NEW k \in Key, Lru(cap)!Has(c, k)
  PROVE  Tidy(cap, Lru(cap)!get(c, k), Lru(cap)!Used(u, k), st)
<1> DEFINE v == Lru(cap)!At(c, k)
<1>1. v = st[k] /\ v \in Value
  BY HasAt
<1>2. Lru(cap)!get(c, k) = Lru(cap)!AtEnd(c, k, v)
  BY DEF Lru!get
<1>3. [st EXCEPT ![k] = v] = st
  BY <1>1 DEF Tidy
<1> HIDE DEF v
<1> QED BY <1>1, <1>2, <1>3, SetCached

\* Moving a name to the end changes no other and loses none.
LEMMA AtEndHas ==
  ASSUME NEW cap, NEW c \in Seq(Item), NEW k \in Key, NEW v \in Value, Lru(cap)!Has(c, k)
  PROVE  \A x \in Key : Lru(cap)!Has(Lru(cap)!AtEnd(c, k, v), x) <=> Lru(cap)!Has(c, x)
<1> DEFINE d == Lru(cap)!AtEnd(c, k, v)
           n == Len(c)
<1>1. d \in Seq(Item) /\ n \in Nat /\ DOMAIN c = 1 .. n
  BY AtEndMoves, LenProperties
<1>2. PICK p \in 1 .. n : c[p].key = k /\ Moves(c, d, p, [key |-> k, value |-> v])
  BY AtEndMoves
<1>3. /\ DOMAIN d = 1 .. n /\ d[n].key = k
      /\ \A i \in 1 .. n - 1 : d[i] = IF i < p THEN c[i] ELSE c[i + 1]
  BY <1>1, <1>2, LenProperties DEF Moves
<1> HIDE DEF d, n
<1> SUFFICES ASSUME NEW x \in Key
             PROVE  Lru(cap)!Has(d, x) <=> Lru(cap)!Has(c, x)
  BY DEF d
<1>4. ASSUME NEW i \in 1 .. n, d[i].key = x
      PROVE  \E j \in 1 .. n : c[j].key = x
  <2>1. CASE i = n
    BY <1>2, <1>3, <1>4, <2>1
  <2>2. CASE i \in 1 .. n - 1
    <3>1. i \in 1 .. n /\ i + 1 \in 1 .. n
      BY <1>1, <2>2
    <3> QED BY <1>3, <1>4, <2>2, <3>1
  <2> QED BY <1>1, <2>1, <2>2
<1>5. ASSUME NEW i \in 1 .. n, c[i].key = x
      PROVE  \E j \in 1 .. n : d[j].key = x
  <2>1. CASE x = k
    BY <1>1, <1>2, <1>3, <2>1
  <2>2. CASE x # k /\ i < p
    <3>1. i \in 1 .. n - 1
      BY <1>1, <2>2
    <3> QED BY <1>3, <1>5, <2>2, <3>1
  <2>3. CASE x # k /\ ~(i < p)
    <3>1. i # p
      BY <1>2, <1>5, <2>3
    <3>2. i - 1 \in 1 .. n - 1 /\ ~(i - 1 < p) /\ (i - 1) + 1 = i /\ i - 1 \in 1 .. n
      BY <1>1, <2>3, <3>1
    <3>3. d[i - 1] = c[i]
      BY <1>3, <3>2
    <3> QED BY <1>5, <3>2, <3>3
  <2> QED BY <2>1, <2>2, <2>3
<1> QED BY <1>1, <1>3, <1>4, <1>5 DEF Lru!Has

\* A SET stores its name, and no other name comes into the cache by it.
LEMMA SetHas ==
  ASSUME NEW cap \in Nat \ {0}, NEW c, NEW u, NEW st, Tidy(cap, c, u, st),
         NEW k \in Key, NEW v \in Value
  PROVE  /\ Lru(cap)!Has(Lru(cap)!set(c, k, v), k)
         /\ \A x \in Key : x # k /\ Lru(cap)!Has(Lru(cap)!set(c, k, v), x) => Lru(cap)!Has(c, x)
<1>1. c \in Seq(Item) /\ Len(c) \in Nat /\ Len(c) <= cap /\ DOMAIN c = 1 .. Len(c)
  BY TidyItems
<1>2. CASE Lru(cap)!Has(c, k)
  <2>1. Lru(cap)!set(c, k, v) = Lru(cap)!AtEnd(c, k, v)
    BY <1>2, SetCached
  <2> QED BY <1>1, <1>2, <2>1, AtEndHas
<1>3. CASE ~Lru(cap)!Has(c, k)
  <2> DEFINE e == [key |-> k, value |-> v]
             a == Append(c, e)
             d == Lru(cap)!set(c, k, v)
             n == Len(c)
  <2>1. d = IF Len(a) > cap THEN Tail(a) ELSE a
    BY <1>3 DEF Lru!set, Lru!Pop, Lru!AtEnd, Lru!Without
  <2>2. e \in Item /\ e.key = k
    BY DEF Item
  <2> HIDE DEF e, d
  <2>3. /\ a \in Seq(Item) /\ a # <<>> /\ Len(a) = n + 1 /\ a[n + 1] = e
        /\ \A i \in 1 .. n : a[i] = c[i]
    BY <1>1, <2>2, AppendProperties
  <2> HIDE DEF a, n
  <2>4. CASE d = a
    <3>1. DOMAIN d = 1 .. n + 1 /\ n + 1 \in 1 .. n + 1
      BY <1>1, <2>3, <2>4, LenProperties DEF n
    <3>2. Lru(cap)!Has(d, k)
      BY <2>2, <2>3, <2>4, <3>1 DEF Lru!Has
    <3>3. ASSUME NEW x \in Key, x # k, NEW i \in 1 .. n + 1, d[i].key = x
          PROVE  \E j \in 1 .. n : c[j].key = x
      <4>1. i # n + 1
        BY <2>2, <2>3, <2>4, <3>3
      <4>2. i \in 1 .. n
        BY <1>1, <4>1 DEF n
      <4> QED BY <2>3, <2>4, <3>3, <4>2
    <3> QED BY <1>1, <3>1, <3>2, <3>3 DEF Lru!Has, d, n
  <2>5. CASE d = Tail(a) /\ n = cap
    <3>1. d \in Seq(Item) /\ Len(d) = n /\ \A i \in 1 .. n : d[i] = a[i + 1]
      BY <1>1, <2>3, <2>5, HeadTailProperties DEF n
    <3>2. DOMAIN d = 1 .. n /\ n \in 1 .. n /\ n \in Nat
      BY <1>1, <2>5, <3>1, LenProperties DEF n
    <3>3. Lru(cap)!Has(d, k)
      BY <2>2, <2>3, <3>1, <3>2 DEF Lru!Has
    <3>4. ASSUME NEW x \in Key, x # k, NEW i \in 1 .. n, d[i].key = x
          PROVE  \E j \in 1 .. n : c[j].key = x
      <4>1. d[i] = a[i + 1]
        BY <3>1
      <4>2. i # n
        BY <2>2, <2>3, <3>4, <4>1
      <4>3. i + 1 \in 1 .. n
        BY <3>2, <4>2
      <4> QED BY <2>3, <3>4, <4>1, <4>3
    <3> QED BY <1>1, <3>2, <3>3, <3>4 DEF Lru!Has, d, n
  <2>6. Len(a) > cap => n = cap
    <3>1. n \in Nat /\ n <= cap /\ Len(a) = n + 1
      BY <1>1, <2>3 DEF n
    <3> QED BY <3>1
  <2>7. d = a \/ (d = Tail(a) /\ n = cap)
    BY <2>1, <2>6
  <2> QED BY <2>4, <2>5, <2>7
<1> QED BY <1>2, <1>3

-------------------------------------------------------------------------------
(* The two servers.                                                        *)

\* The inductive invariant of the two servers.
ServersInv ==
  /\ Tidy(Capacity, cache, uses, stored)
  /\ Tidy(L1Capacity, l1cache, l1uses, l1stored)
  /\ lease \in [Key -> Int]

\* Both servers use the one LRU class.
LEMMA L2IsLru ==
  ASSUME NEW c, NEW u, NEW st, NEW k, NEW v
  PROVE  /\ Has(c, k) <=> Lru(Capacity)!Has(c, k)
         /\ At(c, k) = Lru(Capacity)!At(c, k)
         /\ get(c, k) = Lru(Capacity)!get(c, k)
         /\ set(c, k, v) = Lru(Capacity)!set(c, k, v)
         /\ Used(u, k) = Lru(Capacity)!Used(u, k)
         /\ MostRecent(c, u, st) <=> Lru(Capacity)!MostRecent(c, u, st)
BY DEF Has, At, Place, get, set, Pop,
       AtEnd, Without, Cut, Used, MostRecent,
       Lru!Has, Lru!At, Lru!Place, Lru!get, Lru!set, Lru!Pop,
       Lru!AtEnd, Lru!Without, Lru!Cut, Lru!Used, Lru!MostRecent

LEMMA L1IsLru ==
  ASSUME NEW c, NEW u, NEW st, NEW k, NEW v
  PROVE  /\ L1!Has(c, k) <=> Lru(L1Capacity)!Has(c, k)
         /\ L1!get(c, k) = Lru(L1Capacity)!get(c, k)
         /\ L1!set(c, k, v) = Lru(L1Capacity)!set(c, k, v)
         /\ L1!Used(u, k) = Lru(L1Capacity)!Used(u, k)
         /\ L1!MostRecent(c, u, st) <=> Lru(L1Capacity)!MostRecent(c, u, st)
BY DEF L1!Has, L1!At, L1!Place, L1!get, L1!set,
       L1!Pop, L1!AtEnd, L1!Without, L1!Cut,
       L1!Used, L1!MostRecent,
       Lru!Has, Lru!At, Lru!Place, Lru!get, Lru!set, Lru!Pop,
       Lru!AtEnd, Lru!Without, Lru!Cut, Lru!Used, Lru!MostRecent

LEMMA EmptyTidy ==
  ASSUME NEW cap \in Nat \ {0}
  PROVE  Tidy(cap, <<>>, <<>>, [k \in Key |-> NA])
<1>1. <<>> \in Seq(Item) /\ <<>> \in Seq(Key) /\ Len(<<>>) = 0
  BY EmptySeq
<1>2. Fits(cap, <<>>) = 0 /\ 1 .. 0 = {}
  BY <1>1 DEF Fits
<1>3. [k \in Key |-> NA] \in [Key -> Value \cup {NA}]
  OBVIOUS
<1> QED BY <1>1, <1>2, <1>3, ItemsTidy

LEMMA ServersInit == InitServers => ServersInv
BY EmptyTidy, CapacityAssumption, L1CapacityAssumption
   DEF ServersInv, InitServers, Init, NoLease

LEMMA ServersStep ==
  ASSUME ServersInv, [NextServers]_<<vars, l1Vars>>
  PROVE  ServersInv'
<1>1. Capacity \in Nat \ {0} /\ L1Capacity \in Nat \ {0}
  BY CapacityAssumption, L1CapacityAssumption
<1>2. CASE Next /\ UNCHANGED l1Vars
  <2>1. UNCHANGED <<l1cache, l1uses, l1stored>>
    BY <1>2 DEF l1Vars
  <2>2. ASSUME NEW k \in Key, GetHit(k)
        PROVE  Tidy(Capacity, cache', uses', stored')
    <3>1. /\ Lru(Capacity)!Has(cache, k) /\ stored' = stored
          /\ cache' = Lru(Capacity)!get(cache, k) /\ uses' = Lru(Capacity)!Used(uses, k)
      BY <2>2, L2IsLru DEF GetHit
    <3> QED BY <1>1, <3>1, GetTidy DEF ServersInv
  <2>3. ASSUME NEW k \in Key, NEW v \in Value, SET(k, v)
        PROVE  Tidy(Capacity, cache', uses', stored')
    <3>1. /\ stored' = [stored EXCEPT ![k] = v]
          /\ cache' = Lru(Capacity)!set(cache, k, v)
          /\ uses' = Lru(Capacity)!Used(uses, k)
      BY <2>3, L2IsLru DEF SET
    <3> QED BY <1>1, <3>1, SetTidy DEF ServersInv
  <2>4. ASSUME UNCHANGED <<cache, uses, stored>>
        PROVE  Tidy(Capacity, cache', uses', stored')
    BY <2>4 DEF ServersInv
  <2>5. Tidy(Capacity, cache', uses', stored')
    BY <1>2, <2>2, <2>3, <2>4
       DEF Next, process_command, Tick, GetGranted
  <2>6. lease' \in [Key -> Int]
    BY <1>2 DEF ServersInv, Next, process_command, Tick,
                GetGranted, GetHit, SET, Released,
                NoLease
  <2> QED BY <2>1, <2>5, <2>6 DEF ServersInv
<1>3. CASE L1!process_command /\ UNCHANGED vars
  <2>1. UNCHANGED <<cache, lease, uses, stored>>
    BY <1>3 DEF vars
  <2>2. ASSUME NEW k \in Key, L1!GetHit(k)
        PROVE  Tidy(L1Capacity, l1cache', l1uses', l1stored')
    <3>1. /\ Lru(L1Capacity)!Has(l1cache, k) /\ l1stored' = l1stored
          /\ l1cache' = Lru(L1Capacity)!get(l1cache, k)
          /\ l1uses' = Lru(L1Capacity)!Used(l1uses, k)
      BY <2>2, L1IsLru DEF L1!GetHit
    <3> QED BY <1>1, <3>1, GetTidy DEF ServersInv
  <2>3. ASSUME NEW k \in Key, NEW v \in Value, L1!SET(k, v)
        PROVE  Tidy(L1Capacity, l1cache', l1uses', l1stored')
    <3>1. /\ l1stored' = [l1stored EXCEPT ![k] = v]
          /\ l1cache' = Lru(L1Capacity)!set(l1cache, k, v)
          /\ l1uses' = Lru(L1Capacity)!Used(l1uses, k)
      BY <2>3, L1IsLru DEF L1!SET
    <3> QED BY <1>1, <3>1, SetTidy DEF ServersInv
  <2>4. Tidy(L1Capacity, l1cache', l1uses', l1stored')
    BY <1>3, <2>2, <2>3 DEF L1!process_command
  <2> QED BY <2>1, <2>4 DEF ServersInv
<1>4. CASE UNCHANGED <<vars, l1Vars>>
  BY <1>4 DEF vars, l1Vars, ServersInv
<1> QED BY <1>2, <1>3, <1>4 DEF NextServers

\* Whatever commands reach the two cache servers in whatever order, each holds
\* the names that were used last, as many as fit, with their last values.
THEOREM MostRecentKept == Spec => []KeepMostRecent
<1>1. InitServers => ServersInv
  BY ServersInit
<1>2. ServersInv /\ [NextServers]_<<vars, l1Vars>> => ServersInv'
  BY ServersStep
<1>3. ServersInv => KeepMostRecent
  BY L2IsLru, L1IsLru DEF ServersInv, Tidy, KeepMostRecent
<1> QED BY <1>1, <1>2, <1>3, PTL DEF Spec

\* What L2 has of name k.
Held(k) == IF Lru(Capacity)!Has(cache, k) THEN stored[k] ELSE NA

\* The entry of CacheEntry is Held.
LEMMA EntryIsHeld ==
  ASSUME NEW c, NEW u, NEW st, Tidy(Capacity, c, u, st), NEW k \in Key
  PROVE  (IF Has(c, k) THEN At(c, k) ELSE NA)
           = IF Lru(Capacity)!Has(c, k) THEN st[k] ELSE NA
<1>1. Capacity \in Nat \ {0}
  BY CapacityAssumption
<1>2. Lru(Capacity)!Has(c, k) => Lru(Capacity)!At(c, k) = st[k]
  BY <1>1, HasAt
<1>3. /\ Has(c, k) <=> Lru(Capacity)!Has(c, k)
      /\ At(c, k) = Lru(Capacity)!At(c, k)
  BY L2IsLru
<1> QED BY <1>2, <1>3

\* A step of CacheEntry, said of what L2 holds of the name.
LEMMA ServeHeld ==
  ASSUME ServersInv, ServersInv', NEW k \in Key,
         \/ /\ Held(k) = NA /\ Held(k)' = Held(k) /\ lease'[k] = 0
            /\ lease[k] = NoLease \/ lease[k] > LeaseTtl
         \/ Held(k)' \in Value /\ lease'[k] = NoLease
         \/ Held(k)' = NA /\ lease'[k] = lease[k]
         \/ /\ lease[k] \in 0 .. LeaseTtl /\ lease'[k] = lease[k] + 1
            /\ Held(k)' = Held(k)
         \/ Held(k)' = Held(k) /\ lease'[k] = lease[k]
  PROVE  Name(k)!Serve
<1> DEFINE e == IF Has(cache, k) THEN At(cache, k) ELSE NA
<1>1. e = Held(k)
  BY EntryIsHeld DEF ServersInv, Held
<1>2. e' = Held(k)'
  BY EntryIsHeld DEF ServersInv, Held
<1> QED BY <1>1, <1>2
       DEF Name!Serve, Name!Grant, Name!Fill, Name!Evict,
           Name!Age, Name!NoLease, NoLease

LEMMA ServersServe ==
  ASSUME ServersInv, ServersInv', Next, NEW k \in Key
  PROVE  Name(k)!Serve
<1>1. Capacity \in Nat \ {0} /\ Tidy(Capacity, cache, uses, stored)
  BY CapacityAssumption DEF ServersInv
<1>2. lease \in [Key -> Int] /\ stored \in [Key -> Value \cup {NA}]
  BY DEF ServersInv, Tidy
<1>3. ASSUME NEW x \in Key, GetHit(x)
      PROVE  Name(k)!Serve
  <2>1. /\ Lru(Capacity)!Has(cache, x) /\ cache' = Lru(Capacity)!get(cache, x)
        /\ lease' = [lease EXCEPT ![x] = NoLease] /\ stored' = stored
    BY <1>3, L2IsLru DEF GetHit, Released
  <2>2. stored[x] \in Value /\ Lru(Capacity)!At(cache, x) \in Value
    BY <1>1, <2>1, HasAt
  <2>3. cache' = Lru(Capacity)!AtEnd(cache, x, Lru(Capacity)!At(cache, x))
    BY <2>1 DEF Lru!get
  <2>4. cache \in Seq(Item)
    BY <1>1, TidyItems
  <2>5. Lru(Capacity)!Has(cache', k) <=> Lru(Capacity)!Has(cache, k)
    BY <2>1, <2>2, <2>3, <2>4, AtEndHas
  <2>6. Held(k)' = Held(k)
    BY <2>1, <2>5 DEF Held
  <2>7. CASE k = x
    <3>1. Held(k)' \in Value /\ lease'[k] = NoLease
      BY <1>2, <2>1, <2>2, <2>6, <2>7 DEF Held
    <3> QED BY <3>1, ServeHeld
  <2>8. CASE k # x
    <3>1. lease'[k] = lease[k]
      BY <1>2, <2>1, <2>8
    <3> QED BY <2>6, <3>1, ServeHeld
  <2> QED BY <2>7, <2>8
<1>4. ASSUME NEW x \in Key, GetGranted(x)
      PROVE  Name(k)!Serve
  <2>1. /\ ~Lru(Capacity)!Has(cache, x) /\ cache' = cache /\ stored' = stored
        /\ lease[x] = NoLease \/ lease[x] > LeaseTtl
        /\ lease' = [lease EXCEPT ![x] = 0]
    BY <1>4, L2IsLru DEF GetGranted
  <2>2. Held(k)' = Held(k)
    BY <2>1 DEF Held
  <2>3. CASE k = x
    <3>1. Held(k) = NA /\ lease'[k] = 0
      BY <1>2, <2>1, <2>3 DEF Held
    <3> QED BY <2>1, <2>2, <2>3, <3>1, ServeHeld
  <2>4. CASE k # x
    <3>1. lease'[k] = lease[k]
      BY <1>2, <2>1, <2>4
    <3> QED BY <2>2, <3>1, ServeHeld
  <2> QED BY <2>3, <2>4
<1>5. ASSUME NEW x \in Key, NEW v \in Value, SET(x, v)
      PROVE  Name(k)!Serve
  <2>1. /\ cache' = Lru(Capacity)!set(cache, x, v)
        /\ stored' = [stored EXCEPT ![x] = v]
        /\ lease' = [lease EXCEPT ![x] = NoLease]
    BY <1>5, L2IsLru DEF SET, Released
  <2>2. /\ Lru(Capacity)!Has(cache', x)
        /\ k # x /\ Lru(Capacity)!Has(cache', k) => Lru(Capacity)!Has(cache, k)
    BY <1>1, <2>1, SetHas
  <2>3. CASE k = x
    <3>1. Held(k)' \in Value /\ lease'[k] = NoLease
      BY <1>2, <2>1, <2>2, <2>3 DEF Held
    <3> QED BY <3>1, ServeHeld
  <2>4. CASE k # x
    <3>1. lease'[k] = lease[k] /\ stored'[k] = stored[k]
      BY <1>2, <2>1, <2>4
    <3>2. Held(k)' = Held(k) \/ Held(k)' = NA
      BY <2>2, <2>4, <3>1 DEF Held
    <3> QED BY <3>1, <3>2, ServeHeld
  <2> QED BY <2>3, <2>4
<1>6. ASSUME Tick
      PROVE  Name(k)!Serve
  <2>1. Held(k)' = Held(k)
    BY <1>6 DEF Held, Tick
  <2>2. lease'[k] = IF lease[k] \in 0 .. LeaseTtl THEN lease[k] + 1 ELSE lease[k]
    BY <1>6 DEF Tick
  <2> QED BY <2>1, <2>2, ServeHeld
<1> QED BY <1>3, <1>4, <1>5, <1>6 DEF Next, process_command

\* The L2 server with its one LRU and its one lease map is, for each name,
\* what CacheEntry says: commands about other names only push its entry out.
THEOREM NamesAreServedAlone == Spec => EachNameAlone
<1>1. InitServers => ServersInv
  BY ServersInit
<1>2. ServersInv /\ [NextServers]_<<vars, l1Vars>> => ServersInv'
  BY ServersStep
<1>3. InitServers => \A k \in Key : Name(k)!Init
  <2> SUFFICES ASSUME InitServers, NEW k \in Key
               PROVE  Name(k)!Init
    OBVIOUS
  <2>1. cache = <<>> /\ lease = [x \in Key |-> NoLease]
    BY DEF InitServers, Init
  <2>2. ~Has(cache, k)
    BY <2>1 DEF Has
  <2> QED BY <2>1, <2>2 DEF Name!Init, NoLease, Name!NoLease
<1>4. ServersInv /\ ServersInv' /\ [NextServers]_<<vars, l1Vars>>
        => [\A k \in Key : Name(k)!Serve]_vars
  <2> SUFFICES ASSUME ServersInv, ServersInv',
                      [NextServers]_<<vars, l1Vars>>
               PROVE  (\A k \in Key : Name(k)!Serve) \/ UNCHANGED vars
    OBVIOUS
  <2>1. CASE Next
    BY <2>1, ServersServe
  <2>2. CASE ~Next
    BY <2>2 DEF NextServers
  <2> QED BY <2>1, <2>2
<1> QED BY <1>1, <1>2, <1>3, <1>4, PTL DEF Spec, EachNameAlone

===============================================================================
