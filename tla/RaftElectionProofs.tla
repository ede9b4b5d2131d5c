-------------------------- MODULE RaftElectionProofs --------------------------
(***************************************************************************)
(* RaftElection for every set of addresses, every alphabet, every timeout  *)
(* and any number of crashes, restarts and losses: the types, the upward   *)
(* forwarding chain, the views a read sees, the node's own entry in its    *)
(* table, the single owner of every letter, and what a calm cluster keeps. *)
(***************************************************************************)
EXTENDS RaftElection, FiniteSetTheorems, TLAPS

-------------------------------------------------------------------------------
(* The slices of updateRecordSet, for every alphabet and cluster size:     *)
(* those of different ranks are disjoint, of ranks past the cluster size   *)
(* too, and of almost the same size.  That they cover the alphabet is in   *)
(* RecordRefreshProofs.                                                    *)

\* Integer division: TotalLetters = PerNode * l + Remainder, 0 <= Remainder < l.
LEMMA DivMod ==
  ASSUME NEW l \in Nat \ {0}
  PROVE  /\ PerNode(l) \in Nat
         /\ Remainder(l) \in 0 .. l - 1
         /\ TotalLetters = PerNode(l) * l + Remainder(l)
BY TotalLettersAssumption DEF PerNode, Remainder

\* Multiplication by a natural number is monotone.
LEMMA MultMonotone ==
  ASSUME NEW p \in Nat, NEW a \in Int, NEW b \in Int, a <= b
  PROVE  p * a <= p * b
OBVIOUS

LEMMA MultSucc ==
  ASSUME NEW p \in Int, NEW a \in Int
  PROVE  /\ p * (a - 1) + p = p * a
         /\ p * (a + 1) = p * a + p
         /\ p * a \in Int
OBVIOUS

\* No letter is owned by two ranks of the same cluster size: updateRecordSet
\* gives no domain two authoritative nodes.
THEOREM SlicesDisjoint == \A l \in Nat \ {0} : Disjoint(l)
<1>1. ASSUME NEW l \in Nat \ {0}, NEW r \in 1 .. l, NEW s \in 1 .. l, r < s
      PROVE  Slice(r, l) \cap Slice(s, l) = {}
  <2> DEFINE p == PerNode(l)
             m == Remainder(l)
  <2>1. /\ p \in Nat /\ m \in Nat /\ p * (r - 1) \in Int /\ p * (s - 1) \in Int
        /\ p * (r - 1) + p = p * r /\ p * r \in Int
    BY DivMod, MultSucc
  <2>2. p * r <= p * (s - 1)
    BY <1>1, <2>1, MultMonotone
  <2>3. /\ SliceStart(r, l) = p * (r - 1) + LongerBefore(r, l)
        /\ SliceStart(s, l) = p * (s - 1) + LongerBefore(s, l)
        /\ SliceSize(r, l) = p + (IF r <= m THEN 1 ELSE 0)
    BY DEF SliceStart, SliceSize
  <2>4. /\ LongerBefore(r, l) \in Int /\ LongerBefore(s, l) \in Int
        /\ LongerBefore(r, l) + (IF r <= m THEN 1 ELSE 0) <= LongerBefore(s, l)
    BY <1>1, <2>1 DEF LongerBefore
  <2> HIDE DEF p, m
  <2>5. /\ SliceStart(r, l) + SliceSize(r, l) <= SliceStart(s, l)
        /\ SliceStart(r, l) + SliceSize(r, l) \in Int /\ SliceStart(s, l) \in Int
    BY <2>1, <2>2, <2>3, <2>4
  <2> QED BY <2>5, TotalLettersAssumption DEF Slice, Alphabet
<1> SUFFICES ASSUME NEW l \in Nat \ {0}, NEW r \in 1 .. l, NEW s \in 1 .. l, r # s
             PROVE  Slice(r, l) \cap Slice(s, l) = {}
  BY DEF Disjoint
<1>2. CASE r < s
  BY <1>1, <1>2
<1>3. CASE s < r
  BY <1>1, <1>3
<1> QED BY <1>2, <1>3

\* No rank owns more than one letter more than another.
THEOREM SlicesBalanced == \A l \in Nat \ {0} : Balanced(l)
BY DivMod DEF Balanced, SliceSize

\* A rank above lastRank owns nothing: its slice starts past the alphabet.
LEMMA SlicePastEnd ==
  ASSUME NEW l \in Nat \ {0}, NEW r \in Nat, r > l
  PROVE  Slice(r, l) = {}
<1>1. /\ PerNode(l) \in Nat
      /\ Remainder(l) \in 0 .. l - 1
      /\ TotalLetters = PerNode(l) * l + Remainder(l)
      /\ PerNode(l) * l \in Int
      /\ PerNode(l) * (r - 1) \in Int
  BY DivMod, MultSucc
<1>2. PerNode(l) * l <= PerNode(l) * (r - 1)
  BY <1>1, MultMonotone
<1>3. SliceStart(r, l) = PerNode(l) * (r - 1) + Remainder(l)
  BY <1>1 DEF SliceStart, LongerBefore
<1>4. SliceStart(r, l) \in Int /\ SliceStart(r, l) >= TotalLetters
  BY <1>1, <1>2, <1>3
<1> QED BY <1>4, TotalLettersAssumption DEF Slice, Alphabet

\* Two different ranks share no letter, inside the cluster or past its end.
LEMMA SlicesApart ==
  ASSUME NEW l \in Nat \ {0}, NEW r \in Nat \ {0}, NEW s \in Nat \ {0}, r # s
  PROVE  Slice(r, l) \cap Slice(s, l) = {}
<1>1. CASE r \in 1 .. l /\ s \in 1 .. l
  BY <1>1, SlicesDisjoint DEF Disjoint
<1>2. CASE r > l
  BY <1>2, SlicePastEnd
<1>3. CASE s > l
  BY <1>3, SlicePastEnd
<1> QED BY <1>1, <1>2, <1>3

-------------------------------------------------------------------------------
(* The node table.                                                         *)

\* A table whose ranks are distinct, start at 1 and stay within m.
Numbered(view, m) ==
  /\ IsView(view)
  /\ m \in Nat
  /\ Cardinality(DOMAIN view) <= m
  /\ \A i \in DOMAIN view : 1 <= view[i] /\ view[i] <= m
  /\ \A i, j \in DOMAIN view : i # j => view[i] # view[j]

LEMMA SubsetsFinite ==
  ASSUME NEW S \in SUBSET Node
  PROVE  IsFiniteSet(S) /\ Cardinality(S) \in Nat
BY NodeAssumption, FS_Subset, FS_CardinalityType

\* Renumbering gives the members of a table the ranks 1 .. size, each to one.
LEMMA RenumberNumbers ==
  ASSUME NEW view, IsView(view),
         \A i, j \in DOMAIN view : i # j => view[i] # view[j]
  PROVE  /\ DOMAIN Renumber(view) = DOMAIN view
         /\ Numbered(Renumber(view), Cardinality(DOMAIN view))
<1> DEFINE D == DOMAIN view
           below(i) == {j \in D : view[j] <= view[i]}
           new == Renumber(view)
<1>1. /\ D \in SUBSET Node
      /\ \A i \in D : view[i] \in Nat
  BY DEF IsView
<1>2. /\ DOMAIN new = D
      /\ \A i \in D : new[i] = Cardinality(below(i))
  BY DEF Renumber
<1>3. \A i \in D : /\ below(i) \in SUBSET D
                   /\ below(i) # {}
                   /\ i \in below(i)
  BY <1>1
<1>4. IsFiniteSet(D) /\ Cardinality(D) \in Nat
  BY <1>1, SubsetsFinite
<1>5. ASSUME NEW i \in D
      PROVE  new[i] \in Nat /\ 1 <= new[i] /\ new[i] <= Cardinality(D)
  <2>1. IsFiniteSet(below(i)) /\ Cardinality(below(i)) <= Cardinality(D)
    BY <1>3, <1>4, FS_Subset
  <2>2. Cardinality(below(i)) \in Nat /\ Cardinality(below(i)) # 0
    BY <1>3, <2>1, FS_CardinalityType, FS_EmptySet
  <2> QED BY <1>2, <2>1, <2>2
<1>6. ASSUME NEW i \in D, NEW j \in D, view[i] < view[j]
      PROVE  new[i] # new[j]
  <2>1. below(i) \in SUBSET below(j)
    BY <1>1, <1>6
  <2>2. j \in below(j) /\ j \notin below(i)
    BY <1>1, <1>6
  <2>3. IsFiniteSet(below(j))
    BY <1>3, <1>4, FS_Subset
  <2>4. Cardinality(below(j)) # Cardinality(below(i))
    BY <2>1, <2>2, <2>3, FS_Subset
  <2> QED BY <1>2, <2>4
<1>7. \A i, j \in D : i # j => new[i] # new[j]
  BY <1>1, <1>6
<1>8. new = [i \in D |-> new[i]]
  BY DEF Renumber
<1>9. IsView(new)
  BY <1>1, <1>2, <1>5, <1>8 DEF IsView
<1> QED BY <1>2, <1>4, <1>5, <1>7, <1>9 DEF Numbered

\* Discovery numbers what it finds.
LEMMA DiscoveredNumbers ==
  ASSUME NEW found \in SUBSET Node
  PROVE  /\ DOMAIN Discovered(found) = found
         /\ Numbered(Discovered(found), Cardinality(found))
<1> DEFINE files == [i \in found |-> FileRank[i]]
<1>1. /\ DOMAIN files = found
      /\ IsView(files)
      /\ \A i, j \in DOMAIN files : i # j => files[i] # files[j]
  BY FileRankAssumption DEF IsView
<1> QED BY <1>1, RenumberNumbers DEF Discovered

\* removeNode leaves a numbered table of one member less.
LEMMA RemovedNumbers ==
  ASSUME NEW view, NEW m, Numbered(view, m), NEW ip
  PROVE  /\ DOMAIN Removed(view, ip) = DOMAIN view \ {ip}
         /\ Numbered(Removed(view, ip), m)
         /\ Numbered(Removed(view, ip), Cardinality(DOMAIN view \ {ip}))
<1> DEFINE rest == [i \in DOMAIN view \ {ip} |-> view[i]]
<1>1. /\ DOMAIN rest = DOMAIN view \ {ip}
      /\ IsView(rest)
      /\ \A i, j \in DOMAIN rest : i # j => rest[i] # rest[j]
  BY DEF Numbered, IsView
<1>2. /\ DOMAIN Removed(view, ip) = DOMAIN view \ {ip}
      /\ Numbered(Removed(view, ip), Cardinality(DOMAIN view \ {ip}))
  BY <1>1, RenumberNumbers DEF Removed
<1>3. /\ Cardinality(DOMAIN view \ {ip}) <= Cardinality(DOMAIN view)
      /\ Cardinality(DOMAIN view) <= m
      /\ m \in Nat
      /\ Cardinality(DOMAIN view) \in Nat
      /\ Cardinality(DOMAIN view \ {ip}) \in Nat
  <2>1. DOMAIN view \in SUBSET Node /\ Cardinality(DOMAIN view) <= m /\ m \in Nat
    BY DEF Numbered, IsView
  <2>2. IsFiniteSet(DOMAIN view) /\ DOMAIN view \ {ip} \in SUBSET DOMAIN view
    BY <2>1, SubsetsFinite
  <2>3. Cardinality(DOMAIN view \ {ip}) <= Cardinality(DOMAIN view)
    BY <2>2, FS_Subset
  <2>4. DOMAIN view \ {ip} \in SUBSET Node
    BY <2>1
  <2> QED BY <2>1, <2>3, <2>4, SubsetsFinite
<1>4. \A i \in DOMAIN view \ {ip} : Removed(view, ip)[i] \in Nat
  BY <1>2 DEF Numbered, IsView
<1> QED BY <1>2, <1>3, <1>4 DEF Numbered

\* A newcomer takes the rank after the highest ever given, which is free.
LEMMA RegisteredNumbers ==
  ASSUME NEW view, NEW m, Numbered(view, m), NEW ip \in Node
  PROVE  /\ DOMAIN Registered(view, ip, m + 1) = DOMAIN view \cup {ip}
         /\ Numbered(Registered(view, ip, m + 1),
                     IF ip \in DOMAIN view THEN m ELSE m + 1)
<1> DEFINE D == DOMAIN view
           new == Registered(view, ip, m + 1)
<1>1. /\ D \in SUBSET Node
      /\ \A i \in D : view[i] \in Nat /\ 1 <= view[i] /\ view[i] <= m
      /\ m \in Nat
      /\ Cardinality(D) <= m
  BY DEF Numbered, IsView
<1>2. CASE ip \in D
  <2>1. new = view /\ D \cup {ip} = D
    BY <1>2 DEF Registered
  <2> QED BY <1>2, <2>1
<1>3. CASE ip \notin D
  <2>1. new = [i \in D \cup {ip} |-> IF i = ip THEN m + 1 ELSE view[i]]
    BY <1>3 DEF Registered
  <2>2. DOMAIN new = D \cup {ip}
    BY <2>1
  <2>3. \A i \in D \cup {ip} : new[i] \in Nat /\ 1 <= new[i] /\ new[i] <= m + 1
    BY <1>1, <1>3, <2>1
  <2>4. \A i, j \in D \cup {ip} : i # j => new[i] # new[j]
    BY <1>1, <1>3, <2>1 DEF Numbered
  <2>5. Cardinality(D \cup {ip}) <= m + 1
    BY <1>1, <1>3, SubsetsFinite, FS_AddElement
  <2>6. new \in [D \cup {ip} -> Nat] /\ D \cup {ip} \subseteq Node
    BY <1>1, <2>1, <2>3
  <2>7. IsView(new)
    BY <2>2, <2>6 DEF IsView
  <2>8. m + 1 \in Nat
    BY <1>1
  <2>9. Numbered(new, m + 1)
    BY <2>2, <2>3, <2>4, <2>5, <2>7, <2>8 DEF Numbered
  <2> QED BY <1>3, <2>2, <2>9
<1> QED BY <1>2, <1>3

\* A node in its own table has its rank there, a natural number.
LEMMA OwnRankType ==
  ASSUME NEW view, IsView(view), NEW n
  PROVE  OwnRank(view, n) \in Nat
BY DEF OwnRank, IsView

-------------------------------------------------------------------------------
(* The inductive invariant.                                                *)

\* A promotion is under way only in a node that is not leader, so the address
\* RemoveLeader takes out is never the node's own.
PromotingFollows == \A n \in Node : heart[n] # "loop" => n \notin leaders

\* Every table is numbered, and every cluster size in force or on its way is
\* positive.
TablesNumbered ==
  /\ \A n \in Node : Numbered(nodes[n], mLastRank[n]) /\ lastRank[n] >= 1
  /\ \A b \in beats \cup accepting : b.lastRank >= 1

\* A sender that was found to outrank the leader of a node outranks the node,
\* and goes on doing so while the leader changes before the assignment.
AcceptedAreHigher == \A b \in accepting : b.src > b.dst

Inv ==
  /\ TypeOK
  /\ ForwardsGoUp
  /\ PromotingFollows
  /\ KnowsItself
  /\ TablesNumbered
  /\ AcceptedAreHigher

LEMMA Members ==
  ASSUME NEW S \in SUBSET Node, NEW n \in S
  PROVE  Cardinality(S) \in Nat /\ Cardinality(S) >= 1
<1>1. IsFiniteSet(S) /\ Cardinality(S) \in Nat
  BY SubsetsFinite
<1>2. Cardinality(S) # 0
  BY <1>1, FS_EmptySet
<1> QED BY <1>1, <1>2

LEMMA InitInv == Init => Inv
<1> SUFFICES ASSUME Init PROVE Inv
  OBVIOUS
<1>1. PICK found \in Found :
        /\ nodes = [n \in Node |-> Discovered(found[n])]
        /\ rank = [n \in Node |-> OwnRank(Discovered(found[n]), n)]
        /\ lastRank = [n \in Node |-> Cardinality(found[n])]
        /\ mLastRank = [n \in Node |-> Cardinality(found[n])]
        /\ nodeCount = [n \in Node |-> Cardinality(found[n])]
        /\ followerCount = [n \in Node |-> Cardinality(found[n]) - 1]
  BY DEF Init
<1>2. \A n \in Node : n \in found[n] /\ found[n] \in SUBSET Node
  BY DEF Found
<1>3. \A n \in Node : Cardinality(found[n]) \in Nat /\ Cardinality(found[n]) >= 1
  BY <1>2, Members
<1>4. \A n \in Node : /\ DOMAIN Discovered(found[n]) = found[n]
                      /\ Numbered(Discovered(found[n]), Cardinality(found[n]))
                      /\ IsView(Discovered(found[n]))
  BY <1>2, DiscoveredNumbers DEF Numbered
<1>5. \A n \in Node : OwnRank(Discovered(found[n]), n) \in Nat
  BY <1>4, OwnRankType
<1>6. TypeOK
  BY <1>1, <1>3, <1>4, <1>5, LeaderDeadAssumption, FaultAssumption DEF Init, TypeOK
<1>7. ForwardsGoUp /\ PromotingFollows
  BY NodeAssumption DEF Init, ForwardsGoUp, PromotingFollows
<1>8. KnowsItself
  BY <1>1, <1>2, <1>4 DEF KnowsItself
<1>9. TablesNumbered /\ AcceptedAreHigher
  BY <1>1, <1>3, <1>4 DEF Init, TablesNumbered, AcceptedAreHigher
<1> QED BY <1>6, <1>7, <1>8, <1>9 DEF Inv

\* What sendBeat sends is well formed.
LEMMA BeatsType ==
  ASSUME Inv, NEW n \in Node
  PROVE  /\ Beats(n) \in SUBSET Beat
         /\ \A b \in Beats(n) : b.lastRank >= 1
<1>1. /\ IsView(nodes[n])
      /\ lastRank[n] \in Nat
      /\ lastRank[n] >= 1
  BY DEF Inv, TypeOK, TablesNumbered
<1> QED BY <1>1 DEF Beats, Beat, IsView

LEMMA HeartbeatInv ==
  ASSUME Inv, NEW n \in Node, Heartbeat(n)
  PROVE  Inv'
<1>1. TypeOK'
  BY BeatsType DEF Inv, TypeOK, Heartbeat, stateVars
<1>2. ForwardsGoUp' /\ PromotingFollows' /\ KnowsItself' /\ AcceptedAreHigher'
  BY DEF Inv, ForwardsGoUp, PromotingFollows, KnowsItself,
         AcceptedAreHigher, Heartbeat, stateVars
<1>3. TablesNumbered'
  BY BeatsType DEF Inv, TablesNumbered, Numbered, IsView, Heartbeat, stateVars
<1> QED BY <1>1, <1>2, <1>3 DEF Inv

LEMMA LeaderTimeoutInv ==
  ASSUME Inv, NEW n \in Node, LeaderTimeout(n)
  PROVE  Inv'
<1>1. TypeOK'
  BY DEF Inv, TypeOK, LeaderTimeout, stateVars
<1>2. ForwardsGoUp' /\ PromotingFollows' /\ KnowsItself' /\ AcceptedAreHigher'
  BY DEF Inv, TypeOK, ForwardsGoUp, PromotingFollows, KnowsItself,
         AcceptedAreHigher, LeaderTimeout, stateVars
<1>3. TablesNumbered'
  BY DEF Inv, TablesNumbered, Numbered, IsView, LeaderTimeout, stateVars
<1> QED BY <1>1, <1>2, <1>3 DEF Inv

\* The removed leader is another node, so the table keeps this one.
LEMMA RemoveLeaderInv ==
  ASSUME Inv, NEW n \in Node, RemoveLeader(n)
  PROVE  Inv'
<1> DEFINE view == Removed(nodes[n], leaderIp[n])
<1>0. TypeOK /\ Numbered(nodes[n], mLastRank[n]) /\ n \in DOMAIN nodes[n]
  BY DEF Inv, TablesNumbered, KnowsItself
<1>1. leaderIp[n] # n
  BY <1>0, NodeAssumption DEF Inv, TypeOK, ForwardsGoUp, PromotingFollows, RemoveLeader
<1>2. /\ DOMAIN view = DOMAIN nodes[n] \ {leaderIp[n]}
      /\ Numbered(view, mLastRank[n])
      /\ IsView(view)
  BY <1>0, RemovedNumbers DEF Numbered
<1>3. n \in DOMAIN view /\ DOMAIN view \in SUBSET Node
  BY <1>0, <1>1, <1>2 DEF IsView
<1>4. Cardinality(DOMAIN view) \in Nat /\ Cardinality(DOMAIN view) >= 1
  BY <1>3, Members
<1>5. OwnRank(view, n) \in Nat
  BY <1>2, OwnRankType
<1> HIDE DEF view
<1>6. \/ /\ nodes' = [nodes EXCEPT ![n] = view]
         /\ nodeCount' = [nodeCount EXCEPT ![n] = Cardinality(DOMAIN view)]
         /\ rank' = [rank EXCEPT ![n] = OwnRank(view, n)]
         /\ lastRank' = [lastRank EXCEPT ![n] = Cardinality(DOMAIN view)]
      \/ UNCHANGED <<nodes, nodeCount, rank, lastRank>>
  BY DEF RemoveLeader, removeNode, view
<1>7. TypeOK'
  BY <1>0, <1>2, <1>4, <1>5, <1>6 DEF TypeOK, RemoveLeader
<1>8. ForwardsGoUp' /\ PromotingFollows' /\ AcceptedAreHigher'
  BY <1>0 DEF Inv, TypeOK, ForwardsGoUp, PromotingFollows, AcceptedAreHigher, RemoveLeader
<1>9. KnowsItself'
  BY <1>0, <1>3, <1>6 DEF Inv, TypeOK, KnowsItself
<1>10. TablesNumbered'
  BY <1>0, <1>2, <1>4, <1>6 DEF Inv, TypeOK, TablesNumbered, RemoveLeader
<1> QED BY <1>7, <1>8, <1>9, <1>10 DEF Inv

LEMMA PointAtSelfInv ==
  ASSUME Inv, NEW n \in Node, PointAtSelf(n)
  PROVE  Inv'
<1>1. OwnRank(nodes[n], n) \in Nat
  BY OwnRankType DEF Inv, TypeOK
<1>2. TypeOK'
  BY <1>1 DEF Inv, TypeOK, PointAtSelf
<1>3. ForwardsGoUp' /\ PromotingFollows' /\ KnowsItself' /\ AcceptedAreHigher'
  BY NodeAssumption
     DEF Inv, TypeOK, ForwardsGoUp, PromotingFollows, KnowsItself,
         AcceptedAreHigher, PointAtSelf
<1>4. TablesNumbered'
  BY DEF Inv, TablesNumbered, Numbered, IsView, PointAtSelf
<1> QED BY <1>2, <1>3, <1>4 DEF Inv

LEMMA TakeLeadInv ==
  ASSUME Inv, NEW n \in Node, TakeLead(n)
  PROVE  Inv'
<1>1. TypeOK'
  BY BeatsType, LeaderDeadAssumption DEF Inv, TypeOK, TakeLead, stateVars
<1>2. ForwardsGoUp' /\ PromotingFollows' /\ KnowsItself' /\ AcceptedAreHigher'
  BY DEF Inv, TypeOK, ForwardsGoUp, PromotingFollows, KnowsItself,
         AcceptedAreHigher, TakeLead, stateVars
<1>3. TablesNumbered'
  BY BeatsType DEF Inv, TablesNumbered, Numbered, IsView, TakeLead, stateVars
<1> QED BY <1>1, <1>2, <1>3 DEF Inv

\* The sender is registered under a free rank, and is put down as the next leader
\* only if its address is higher than one that is at least the node's own.
LEMMA beatHandlerInv ==
  ASSUME Inv, NEW n \in Node, NEW b \in beats, beatHandler(n, b)
  PROVE  Inv'
<1> DEFINE view == Registered(nodes[n], b.src, mLastRank[n] + 1)
           m == IF b.src \in DOMAIN nodes[n] THEN mLastRank[n] ELSE mLastRank[n] + 1
<1>0. /\ TypeOK
      /\ Numbered(nodes[n], mLastRank[n])
      /\ n \in DOMAIN nodes[n]
      /\ b \in Beat
      /\ b.lastRank >= 1
  BY DEF Inv, TypeOK, TablesNumbered, KnowsItself
<1>1. /\ b.src \in Node
      /\ b.rank \in Nat
      /\ b.lastRank \in Nat
      /\ mLastRank[n] \in Nat
  BY <1>0 DEF Beat, TypeOK
<1>2. /\ DOMAIN view = DOMAIN nodes[n] \cup {b.src}
      /\ Numbered(view, m)
      /\ IsView(view)
  BY <1>0, <1>1, RegisteredNumbers DEF Numbered
<1>3. n \in DOMAIN view /\ DOMAIN view \in SUBSET Node
  BY <1>0, <1>2 DEF IsView
<1>4. /\ Cardinality(DOMAIN nodes[n] \cup {b.src}) \in Nat
      /\ Cardinality(DOMAIN nodes[n] \cup {b.src}) >= 1
  BY <1>2, <1>3, Members
<1>5. /\ nodes' = [nodes EXCEPT ![n] = view]
      /\ mLastRank' = [mLastRank EXCEPT ![n] = m]
  BY <1>0, <1>1 DEF beatHandler, TypeOK
<1>6. m \in Nat
  BY <1>1
<1> HIDE DEF view, m
<1>7. TypeOK'
  BY <1>0, <1>1, <1>2, <1>4, <1>5, <1>6, LeaderDeadAssumption DEF TypeOK, beatHandler
<1>8. ForwardsGoUp' /\ PromotingFollows'
  BY DEF Inv, ForwardsGoUp, PromotingFollows, beatHandler
<1>9. AcceptedAreHigher'
  <2>1. b.dst = n /\ leaderIp[n] >= n /\ leaderIp[n] \in Nat /\ n \in Nat
    BY <1>0, NodeAssumption DEF Inv, TypeOK, ForwardsGoUp, beatHandler
  <2>2. b.src \in Nat
    BY <1>1, NodeAssumption
  <2>3. Outranks(b, n) => b.src > b.dst
    BY <2>1, <2>2 DEF Outranks
  <2> QED BY <2>3 DEF Inv, AcceptedAreHigher, beatHandler
<1>10. KnowsItself'
  BY <1>0, <1>3, <1>5 DEF Inv, TypeOK, KnowsItself
<1>11. TablesNumbered'
  BY <1>0, <1>1, <1>2, <1>5 DEF Inv, TypeOK, TablesNumbered, beatHandler
<1> QED BY <1>7, <1>8, <1>9, <1>10, <1>11 DEF Inv

\* The node follows an address above its own, whichever of two beats comes last.
LEMMA AcceptLeaderInv ==
  ASSUME Inv, NEW n \in Node, NEW b \in accepting, AcceptLeader(n, b)
  PROVE  Inv'
<1>1. /\ b.src \in Node
      /\ b.rank \in Nat
      /\ b.lastRank \in Nat
      /\ b.lastRank >= 1
  BY DEF Inv, TypeOK, TablesNumbered, Beat
<1>2. b.src > n
  BY DEF Inv, AcceptedAreHigher, AcceptLeader
<1>3. TypeOK'
  BY <1>1 DEF Inv, TypeOK, AcceptLeader
<1>4. ForwardsGoUp'
  BY <1>1, <1>2, NodeAssumption DEF Inv, TypeOK, ForwardsGoUp, AcceptLeader
<1>5. PromotingFollows' /\ KnowsItself' /\ AcceptedAreHigher'
  BY DEF Inv, PromotingFollows, KnowsItself, AcceptedAreHigher, AcceptLeader
<1>6. TablesNumbered'
  BY <1>1 DEF Inv, TypeOK, TablesNumbered, AcceptLeader
<1> QED BY <1>3, <1>4, <1>5, <1>6 DEF Inv

LEMMA TickInv ==
  ASSUME Inv, Tick
  PROVE  Inv'
<1>1. TypeOK'
  BY LeaderDeadAssumption DEF Inv, TypeOK, Tick, stateVars
<1>2. ForwardsGoUp' /\ PromotingFollows' /\ KnowsItself' /\ AcceptedAreHigher'
  BY DEF Inv, ForwardsGoUp, PromotingFollows, KnowsItself, AcceptedAreHigher, Tick, stateVars
<1>3. TablesNumbered'
  BY DEF Inv, TablesNumbered, Numbered, IsView, Tick, stateVars
<1> QED BY <1>1, <1>2, <1>3 DEF Inv

\* A fault is counted under its kind and stays within the bound.
LEMMA FaultCounts ==
  ASSUME TypeOK, NEW kind \in AnyFault, Fault(kind)
  PROVE  faults' \in [AnyFault -> 0 .. MaxFaults]
<1>1. \A k \in AnyFault : faults[k] \in Nat /\ faults[k] <= MaxFaults
  BY FaultAssumption DEF TypeOK
<1>2. faults[kind] < MaxFaults
  BY <1>1, FaultAssumption DEF AnyFault, Fault, FaultCount
<1> QED BY <1>1, <1>2, FaultAssumption DEF TypeOK, Fault

LEMMA CrashInv ==
  ASSUME Inv, NEW n \in Node, Crash(n)
  PROVE  Inv'
<1>1. /\ DOMAIN Discovered(Node) = Node
      /\ Numbered(Discovered(Node), Cardinality(Node))
      /\ IsView(Discovered(Node))
  BY DiscoveredNumbers DEF Numbered
<1>2. Cardinality(Node) \in Nat /\ Cardinality(Node) >= 1
  BY Members
<1>3. OwnRank(Discovered(Node), n) \in Nat
  BY <1>1, OwnRankType
<1>4. beats' \in SUBSET beats /\ accepting' \in SUBSET accepting
  BY DEF Crash
<1>5. TypeOK'
  <2>1. faults' \in [AnyFault -> 0 .. MaxFaults]
    BY FaultCounts DEF Inv, Crash, AnyFault
  <2> QED
    BY <1>1, <1>2, <1>3, <1>4, <2>1, LeaderDeadAssumption DEF Inv, TypeOK, Crash
<1>6. ForwardsGoUp' /\ PromotingFollows' /\ AcceptedAreHigher'
  BY NodeAssumption DEF Inv, TypeOK, ForwardsGoUp, PromotingFollows, AcceptedAreHigher, Crash
<1>7. KnowsItself'
  BY <1>1 DEF Inv, TypeOK, KnowsItself, Crash
<1>8. TablesNumbered'
  BY <1>1, <1>2, <1>4 DEF Inv, TypeOK, TablesNumbered, Crash
<1> QED BY <1>5, <1>6, <1>7, <1>8 DEF Inv

LEMMA RestartInv ==
  ASSUME Inv, NEW n \in Node, Restart(n)
  PROVE  Inv'
<1>1. TypeOK'
  <2>1. faults' \in [AnyFault -> 0 .. MaxFaults]
    BY FaultCounts DEF Inv, Restart, AnyFault
  <2> QED BY <2>1 DEF Inv, TypeOK, Restart, stateVars, raftVars
<1>2. ForwardsGoUp' /\ PromotingFollows' /\ KnowsItself' /\ AcceptedAreHigher'
  BY DEF Inv, ForwardsGoUp, PromotingFollows, KnowsItself,
         AcceptedAreHigher, Restart, stateVars, raftVars
<1>3. TablesNumbered'
  BY DEF Inv, TablesNumbered, Numbered, IsView, Restart, stateVars, raftVars
<1> QED BY <1>1, <1>2, <1>3 DEF Inv

LEMMA LoseInv ==
  ASSUME Inv, NEW b \in beats, Lose(b)
  PROVE  Inv'
<1>1. TypeOK'
  <2>1. faults' \in [AnyFault -> 0 .. MaxFaults]
    BY FaultCounts DEF Inv, Lose, AnyFault
  <2> QED BY <2>1 DEF Inv, TypeOK, Lose, stateVars, raftVars
<1>2. ForwardsGoUp' /\ PromotingFollows' /\ KnowsItself' /\ AcceptedAreHigher'
  BY DEF Inv, ForwardsGoUp, PromotingFollows, KnowsItself,
         AcceptedAreHigher, Lose, stateVars, raftVars
<1>3. TablesNumbered'
  BY DEF Inv, TablesNumbered, Numbered, IsView, Lose, stateVars, raftVars
<1> QED BY <1>1, <1>2, <1>3 DEF Inv

LEMMA StepInv == Inv /\ [Next]_vars => Inv'
<1> SUFFICES ASSUME Inv, [Next]_vars PROVE Inv'
  OBVIOUS
<1>1. CASE UNCHANGED vars
  BY <1>1 DEF Inv, TypeOK, ForwardsGoUp, PromotingFollows, KnowsItself, TablesNumbered,
              AcceptedAreHigher, Numbered, IsView, vars, stateVars, raftVars
<1>2. CASE Tick
  BY <1>2, TickInv
<1>3. ASSUME NEW n \in Node, raftHeart(n) PROVE Inv'
  BY <1>3, HeartbeatInv, LeaderTimeoutInv, RemoveLeaderInv, PointAtSelfInv, TakeLeadInv
     DEF raftHeart
<1>4. ASSUME NEW n \in Node, handle_sync(n) PROVE Inv'
  BY <1>4, beatHandlerInv, AcceptLeaderInv DEF handle_sync
<1>5. ASSUME NEW n \in Node, Crash(n) \/ Restart(n) PROVE Inv'
  BY <1>5, CrashInv, RestartInv
<1>6. ASSUME NEW b \in beats, Lose(b) PROVE Inv'
  BY <1>6, LoseInv
<1> QED BY <1>1, <1>2, <1>3, <1>4, <1>5, <1>6 DEF Next

\* The strengthened invariant holds in every reachable state.
THEOREM Invariance == Spec => []Inv
BY InitInv, StepInv, PTL DEF Spec

-------------------------------------------------------------------------------
(* What follows.                                                           *)

\* Every field of States and Raft keeps its type through promotions, renumbering
\* and crashes; in particular no removal leaves a negative followerCount or a
\* heartbeat without a rank.
THEOREM TypeCorrect == Spec => []TypeOK
<1>1. Inv => TypeOK
  BY DEF Inv
<1> QED BY <1>1, Invariance, PTL

\* A follower's leaderIp is above its own address, so _forward_to_leader can
\* never send a read round in a circle of two or more nodes.
THEOREM ForwardingIsAcyclic == Spec => []ForwardsGoUp
<1>1. Inv => ForwardsGoUp
  BY DEF Inv
<1> QED BY <1>1, Invariance, PTL

\* What a step does to leader, leaderIp and the promotions, as a read sees it.
LEMMA StepViews == Inv /\ [Next]_vars => [Views!Next]_(Views!viewVars)
<1> DEFINE P == {m \in Node : heart[m] = "lead"}
<1> SUFFICES ASSUME Inv, [Next]_vars
             PROVE  Views!Next \/ UNCHANGED <<leaders, leaderIp, P>>
  BY DEF Views!viewVars
<1>1. TypeOK /\ heart \in [Node -> {"loop", "remove", "self", "lead"}]
  BY DEF Inv, TypeOK
<1>2. ASSUME UNCHANGED <<leaders, leaderIp, heart>>
      PROVE  UNCHANGED <<leaders, leaderIp, P>>
  BY <1>2
<1>3. ASSUME UNCHANGED <<leaders, leaderIp>>, NEW n \in Node, NEW l \in {"loop", "remove", "self"},
             heart' = [heart EXCEPT ![n] = l], heart[n] # "lead"
      PROVE  UNCHANGED <<leaders, leaderIp, P>>
  BY <1>1, <1>3
<1>4. ASSUME NEW n \in Node, PointAtSelf(n) PROVE Views!Promote(n)
  <2>1. heart[n] = "self" /\ n \notin leaders
    BY <1>4 DEF PointAtSelf, Inv, PromotingFollows
  <2>2. P' = P \cup {n}
    BY <1>1, <1>4 DEF PointAtSelf
  <2> QED BY <1>4, <2>1, <2>2 DEF PointAtSelf, Views!Promote
<1>5. ASSUME NEW n \in Node, TakeLead(n) PROVE Views!TakeLead(n)
  <2>1. P' = P \ {n} /\ n \in P
    BY <1>1, <1>5 DEF TakeLead
  <2> QED BY <1>5, <2>1 DEF TakeLead, stateVars, Views!TakeLead
<1>6. ASSUME NEW n \in Node, NEW b \in accepting, AcceptLeader(n, b) PROVE Views!Follow(n)
  <2>1. b.src \in Node /\ b.src > n
    BY <1>1, <1>6 DEF AcceptLeader, Inv, AcceptedAreHigher, TypeOK, Beat
  <2> QED BY <1>6, <2>1 DEF AcceptLeader, Views!Follow
<1>7. ASSUME NEW n \in Node, Crash(n) PROVE Views!Reset(n)
  <2>1. P' = P \ {n}
    BY <1>1, <1>7 DEF Crash
  <2> QED BY <1>7, <2>1 DEF Crash, Views!Reset
<1>8. ASSUME NEW n \in Node, raftHeart(n) \/ handle_sync(n) \/ Crash(n) \/ Restart(n)
      PROVE  Views!Next \/ UNCHANGED <<leaders, leaderIp, P>>
  <2>1. CASE Heartbeat(n) \/ Restart(n) \/ \E b \in beats : beatHandler(n, b)
    BY <1>2, <2>1 DEF Heartbeat, Restart, beatHandler, stateVars, raftVars
  <2>2. CASE LeaderTimeout(n)
    BY <1>3, <2>2 DEF LeaderTimeout, stateVars
  <2>3. CASE RemoveLeader(n)
    BY <1>3, <2>3 DEF RemoveLeader
  <2>4. CASE PointAtSelf(n) \/ TakeLead(n) \/ Crash(n) \/ \E b \in accepting : AcceptLeader(n, b)
    BY <1>4, <1>5, <1>6, <1>7, <2>4 DEF Views!Next
  <2> QED BY <1>8, <2>1, <2>2, <2>3, <2>4 DEF raftHeart, handle_sync
<1>9. CASE Tick \/ UNCHANGED vars \/ \E b \in beats : Lose(b)
  BY <1>2, <1>9 DEF Tick, Lose, vars, stateVars, raftVars
<1> QED BY <1>8, <1>9 DEF Next

\* The election implements LeaderViews: as far as leader and leaderIp go, every
\* step of a heartbeat, a timeout, a promotion or a crash is one of the steps that
\* LeaderViews lets the views make.  ReadPath takes these steps, but for a crash.
THEOREM ViewsImplemented == Spec => ViewsBehave
<1>1. Init => Views!Init
  BY DEF Init, Views!Init
<1> QED BY <1>1, StepViews, Invariance, PTL DEF Spec, ViewsBehave, Views!Spec

\* In every state of the election leader, leaderIp and the promotions under way
\* are ones that ReadPath starts a read with.  This is about leadership only: what
\* the tables and the shards are when a read begins, ReadPath leaves open itself.
THEOREM ViewsAreAllowed == Spec => []Views!Allowed
<1>1. Inv => Views!Allowed
  BY DEF Inv, TypeOK, ForwardsGoUp, PromotingFollows, Views!Allowed
<1> QED BY <1>1, Invariance, PTL

\* removeNode never takes a node out of its own table.
THEOREM SelfStaysListed == Spec => []KnowsItself
<1>1. Inv => KnowsItself
  BY DEF Inv
<1> QED BY <1>1, Invariance, PTL

\* The ranks a node hands out with sendBeat never give a letter to two nodes:
\* they are distinct through every removal and registration, and different
\* ranks have disjoint slices, past the cluster size too.
THEOREM SingleOwner == Spec => []OneOwnerPerLetter
<1>1. Inv => OneOwnerPerLetter
  <2> SUFFICES ASSUME Inv, NEW n \in Node, NEW d \in DOMAIN nodes[n],
                      NEW e \in DOMAIN nodes[n], d < e
               PROVE  Slice(nodes[n][d], lastRank[n])
                        \cap Slice(nodes[n][e], lastRank[n]) = {}
    BY DEF OneOwnerPerLetter
  <2>1. /\ nodes[n][d] \in Nat \ {0}
        /\ nodes[n][e] \in Nat \ {0}
        /\ d \in Node /\ e \in Node
    BY DEF Inv, TablesNumbered, Numbered, IsView
  <2>2. d # e
    BY <2>1, NodeAssumption
  <2>3. nodes[n][d] # nodes[n][e]
    BY <2>2 DEF Inv, TablesNumbered, Numbered
  <2>4. lastRank[n] \in Nat \ {0}
    BY DEF Inv, TypeOK, TablesNumbered
  <2> QED BY <2>1, <2>3, <2>4, SlicesApart
<1> QED BY <1>1, Invariance, PTL

-------------------------------------------------------------------------------
(* A calm cluster.                                                         *)

\* Of finitely many addresses one is the highest: numbered in their order, one
\* of them has the last number, and all the others are below it.
LEMMA HighestExists == Highest \in Node /\ \A m \in Node : m <= Highest
<1> DEFINE N == Cardinality(Node)
           view == [i \in Node |-> i]
           order == Renumber(view)
<1>1. /\ DOMAIN view = Node /\ IsView(view)
      /\ \A i, j \in DOMAIN view : i # j => view[i] # view[j]
  BY NodeAssumption DEF IsView
<1>2. DOMAIN order = Node /\ Numbered(order, N)
  BY <1>1, RenumberNumbers
<1>3. IsFiniteSet(Node) /\ N \in Nat /\ N >= 1
  BY NodeAssumption, Members
<1>4. order \in Injection(Node, 1 .. N)
  <2>1. order = [i \in Node |-> order[i]]
    BY DEF Renumber
  <2>2. \A i \in Node : order[i] \in 1 .. N
    BY <1>2, <1>3 DEF Numbered, IsView
  <2> QED BY <1>2, <2>1, <2>2 DEF Numbered, Injection, IsInjective
<1>5. IsFiniteSet(1 .. N) /\ Cardinality(1 .. N) = N
  BY <1>3, FS_Interval
<1>6. order \in Surjection(Node, 1 .. N)
  BY <1>4, <1>5, FS_Injection
<1>7. PICK top \in Node : order[top] = N
  BY <1>3, <1>6 DEF Surjection
<1>8. order[top] = Cardinality({j \in Node : j <= top})
  BY DEF Renumber
<1>9. {j \in Node : j <= top} = Node
  BY <1>3, <1>7, <1>8, FS_Subset
<1>10. \E n \in Node : \A m \in Node : m <= n
  BY <1>9
<1> QED BY <1>10 DEF Highest

\* A beat of the highest address is about to be sent to n, or is on its way.
BeatComing(n) == Highest \in due \/ \E b \in beats : b.src = Highest /\ b.dst = n

\* All nodes run, know each other as at discovery and have their own ranks, all
\* beats carry these ranks, and a node has missed no more beats of the highest
\* address than were lost, one that is still coming apart.
Calm ==
  /\ alive = Node
  /\ \A n \in Node :
       /\ heart[n] = "loop"
       /\ n \in leaders <=> leaderIp[n] = n
       /\ nodes[n] = Discovered(Node)
       /\ rank[n] = Discovered(Node)[n] /\ lastRank[n] = Cardinality(Node)
  /\ \A b \in beats \cup accepting :
       b.rank = Discovered(Node)[b.dst] /\ b.lastRank = Cardinality(Node)
  /\ \A n \in Node \ {Highest} :
       /\ age[n] <= faults["lose"] + 1
       /\ ~BeatComing(n) => age[n] <= faults["lose"]

StaysCalm == CalmCluster => Calm

LEMMA InitCalm == Init => StaysCalm
<1> SUFFICES ASSUME Init, CalmCluster PROVE Calm
  BY DEF StaysCalm
<1>1. PICK found \in Found :
        /\ nodes = [n \in Node |-> Discovered(found[n])]
        /\ rank = [n \in Node |-> OwnRank(Discovered(found[n]), n)]
        /\ lastRank = [n \in Node |-> Cardinality(found[n])]
        /\ nodeCount = [n \in Node |-> Cardinality(found[n])]
  BY DEF Init
<1>2. \A n \in Node : found[n] = Node
  <2>1. \A n \in Node : Cardinality(found[n]) = Cardinality(Node) /\ found[n] \in SUBSET Node
    BY <1>1 DEF CalmCluster, AllFound, Found
  <2> QED BY <2>1, NodeAssumption, FS_Subset
<1>3. \A n \in Node : OwnRank(Discovered(Node), n) = Discovered(Node)[n]
  BY DiscoveredNumbers DEF OwnRank
<1> QED BY <1>1, <1>2, <1>3 DEF Init, Calm, AnyFault

\* The highest address always leads in a calm cluster.
LEMMA HighestLeads == ASSUME Inv, Calm PROVE Highest \in leaders
<1>1. leaderIp[Highest] \in Node /\ leaderIp[Highest] >= Highest
  BY HighestExists DEF Inv, TypeOK, ForwardsGoUp
<1>2. leaderIp[Highest] = Highest
  <2>1. leaderIp[Highest] <= Highest /\ leaderIp[Highest] \in Nat /\ Highest \in Nat
    BY <1>1, HighestExists, NodeAssumption
  <2> QED BY <1>1, <2>1
<1> QED BY <1>2, HighestExists DEF Calm

\* What was calm after a step was calm before it: a removed leader is missed in
\* nodeCount for good, and a fault is not forgotten.
LEMMA CalmBefore == ASSUME Inv, [Next]_vars, CalmCluster' PROVE CalmCluster
<1>0. Cardinality(Node) \in Nat /\ Cardinality(Node) >= 1
  BY Members, NodeAssumption
<1>1. /\ faults["crash"] \in Nat /\ faults["lose"] \in Nat
  BY DEF Inv, TypeOK, AnyFault
<1>2. ASSUME NEW n \in Node, Crash(n) PROVE FALSE
  BY <1>1, <1>2 DEF Inv, TypeOK, AnyFault, Crash, Fault, CalmCluster
<1>3. faults'["crash"] >= faults["crash"] /\ faults'["lose"] >= faults["lose"]
  <2>1. faults' = faults \/ \E kind \in AnyFault : Fault(kind)
    BY <1>2 DEF AnyFault, Next, raftHeart, Heartbeat, LeaderTimeout, RemoveLeader,
       PointAtSelf, TakeLead, handle_sync, beatHandler, AcceptLeader, Tick, Restart, Lose,
       vars
  <2> QED BY <1>1, <2>1 DEF Inv, TypeOK, AnyFault, Fault
<1>4. ASSUME NEW n \in Node, RemoveLeader(n) PROVE nodeCount' = nodeCount
  <2>1. SUFFICES ASSUME leaderIp[n] \in DOMAIN nodes[n] PROVE FALSE
    BY <1>4 DEF RemoveLeader, removeNode
  <2>2. DOMAIN Removed(nodes[n], leaderIp[n]) = DOMAIN nodes[n] \ {leaderIp[n]}
    BY RemovedNumbers DEF Inv, TablesNumbered
  <2>3. nodeCount'[n] = Cardinality(DOMAIN nodes[n] \ {leaderIp[n]})
    BY <1>4, <2>1, <2>2 DEF RemoveLeader, removeNode, Inv, TypeOK
  <2>4. DOMAIN nodes[n] \in SUBSET Node
    BY DEF Inv, TypeOK, IsView
  <2>5. /\ Cardinality(DOMAIN nodes[n]) <= Cardinality(Node)
        /\ IsFiniteSet(DOMAIN nodes[n]) /\ Cardinality(DOMAIN nodes[n]) \in Nat
    BY <2>4, NodeAssumption, FS_Subset, SubsetsFinite
  <2>6. nodeCount'[n] = Cardinality(DOMAIN nodes[n]) - 1
    BY <2>1, <2>3, <2>5, FS_RemoveElement
  <2> QED BY <1>0, <2>5, <2>6 DEF CalmCluster, AllFound
<1>5. nodeCount' = nodeCount
  BY <1>2, <1>4 DEF Next, raftHeart, Heartbeat, LeaderTimeout, PointAtSelf, TakeLead,
     handle_sync, beatHandler, AcceptLeader, Tick, Restart, Lose, vars, stateVars
<1>6. /\ \A n \in Node : nodeCount'[n] = Cardinality(Node)
      /\ faults'["crash"] = 0 /\ faults'["lose"] < LeaderDead - 1
  BY DEF CalmCluster, AllFound
<1>7. faults'["lose"] \in Nat
  BY StepInv DEF Inv, TypeOK, AnyFault
<1>8. faults["crash"] = 0 /\ faults["lose"] < LeaderDead - 1
  BY <1>1, <1>3, <1>6, <1>7, LeaderDeadAssumption
<1> QED BY <1>5, <1>6, <1>8 DEF CalmCluster, AllFound

\* No follower of a calm cluster finds its leader timed out.
LEMMA NoTimeout ==
  ASSUME Inv, CalmCluster, Calm, NEW n \in Node, LeaderTimeout(n)
  PROVE  FALSE
<1>1. n # Highest
  BY HighestLeads DEF LeaderTimeout
<1>2. age[n] <= faults["lose"] + 1 /\ age[n] \in Nat /\ faults["lose"] \in Nat
  BY <1>1 DEF Calm, Inv, TypeOK, AnyFault
<1>3. age[n] < LeaderDead
  BY <1>2, LeaderDeadAssumption DEF CalmCluster
<1> QED BY <1>2, <1>3, LeaderDeadAssumption DEF LeaderTimeout, TimedOut

\* What a calm node sends are the ranks of discovery, to every other node.
LEMMA CalmBeats ==
  ASSUME Inv, Calm, NEW n \in Node
  PROVE  /\ \A b \in Beats(n) : /\ b.rank = Discovered(Node)[b.dst]
                                /\ b.lastRank = Cardinality(Node)
         /\ \A d \in Node \ {n} : \E b \in Beats(n) : b.src = n /\ b.dst = d
<1>1. DOMAIN nodes[n] = Node /\ alive = Node /\ lastRank[n] = Cardinality(Node)
      /\ nodes[n] = Discovered(Node)
  BY DiscoveredNumbers DEF Calm
<1>2. \A b \in Beats(n) : b.rank = nodes[n][b.dst] /\ b.lastRank = lastRank[n]
  BY DEF Beats
<1>3. ASSUME NEW d \in Node \ {n} PROVE \E b \in Beats(n) : b.src = n /\ b.dst = d
  <2>1. [src |-> n, dst |-> d, rank |-> nodes[n][d], lastRank |-> lastRank[n]] \in Beats(n)
    BY <1>1 DEF Beats
  <2> QED BY <2>1
<1> QED BY <1>1, <1>2, <1>3

LEMMA StepCalm == Inv /\ StaysCalm /\ [Next]_vars => StaysCalm'
<1> SUFFICES ASSUME Inv, StaysCalm, [Next]_vars, CalmCluster' PROVE Calm'
  BY DEF StaysCalm
<1>0. CalmCluster /\ Calm /\ TypeOK
  BY CalmBefore DEF StaysCalm, Inv
<1>1. ASSUME NEW n \in Node, Heartbeat(n) PROVE Calm'
  <2>1. \A b \in beats' : b.rank = Discovered(Node)[b.dst] /\ b.lastRank = Cardinality(Node)
    BY <1>0, <1>1, CalmBeats DEF Calm, Heartbeat
  <2>2. \A m \in Node \ {Highest} : BeatComing(m) => BeatComing(m)'
    <3>1. CASE n = Highest
      BY <1>0, <1>1, <3>1, CalmBeats, HighestLeads DEF BeatComing, Heartbeat, Highest
    <3>2. CASE n # Highest
      BY <1>1, <3>2 DEF BeatComing, Heartbeat, Highest
    <3> QED BY <3>1, <3>2
  <2> QED BY <1>0, <1>1, <2>1, <2>2 DEF Calm, Heartbeat, stateVars, Highest
<1>2. ASSUME NEW n \in Node, NEW b \in beats, beatHandler(n, b) PROVE Calm'
  <2>1. /\ b.src \in Node /\ b.dst = n
        /\ b.rank = Discovered(Node)[n] /\ b.lastRank = Cardinality(Node)
    BY <1>0, <1>2 DEF beatHandler, Calm, TypeOK, Beat
  <2>2. Registered(nodes[n], b.src, mLastRank[n] + 1) = nodes[n]
    BY <1>0, <2>1, DiscoveredNumbers DEF Calm, Registered
  <2>3. nodes' = nodes
    BY <1>0, <1>2, <2>2 DEF beatHandler, TypeOK
  <2>4. /\ \A m \in Node : rank'[m] = rank[m] /\ lastRank'[m] = lastRank[m]
        /\ beats' \cup accepting' \subseteq beats \cup accepting
    BY <1>0, <1>2, <2>1 DEF beatHandler, Calm, TypeOK
  <2>5. /\ age'[n] = 0
        /\ \A m \in Node \ {n} : age'[m] = age[m] /\ (BeatComing(m) => BeatComing(m)')
    BY <1>0, <1>2, <2>1 DEF beatHandler, TypeOK, BeatComing, Highest
  <2>6. faults' = faults /\ faults["lose"] \in Nat
    BY <1>0, <1>2 DEF beatHandler, TypeOK, AnyFault
  <2>7. \A m \in Node \ {Highest} : /\ age'[m] <= faults'["lose"] + 1
                                    /\ ~BeatComing(m)' => age'[m] <= faults'["lose"]
    BY <1>0, <2>5, <2>6 DEF Calm
  <2> QED BY <1>0, <1>2, <2>3, <2>4, <2>7 DEF Calm, beatHandler, Highest
<1>3. ASSUME NEW n \in Node, NEW b \in accepting, AcceptLeader(n, b) PROVE Calm'
  <2>1. /\ b.src \in Node /\ b.dst = n /\ b.src > n
        /\ b.rank = Discovered(Node)[n] /\ b.lastRank = Cardinality(Node)
    BY <1>0, <1>3 DEF AcceptLeader, Calm, TypeOK, Beat, Inv, AcceptedAreHigher
  <2>2. \A m \in Node : rank'[m] = rank[m] /\ lastRank'[m] = lastRank[m]
    BY <1>0, <1>3, <2>1 DEF AcceptLeader, Calm, TypeOK
  <2>3. \A m \in Node : m \in leaders' <=> leaderIp'[m] = m
    BY <1>0, <1>3, <2>1, NodeAssumption DEF AcceptLeader, Calm, TypeOK
  <2> QED BY <1>0, <1>3, <2>2, <2>3 DEF Calm, AcceptLeader, BeatComing, Highest
<1>4. CASE Tick
  <2>1. alive = Node /\ Highest \in Node /\ \A m \in Node : ~BeatComing(m)
    BY <1>0, <1>4, HighestExists DEF Calm, Tick, Quiet, BeatComing
  <2>2. \A m \in Node : BeatComing(m)'
    BY <1>4, <2>1 DEF Tick, BeatComing, Highest
  <2>3. \A m \in Node : age[m] \in Nat /\ age'[m] \in Nat /\ age'[m] <= age[m] + 1
    BY <1>0, <1>4, LeaderDeadAssumption DEF Tick, TypeOK
  <2>4. faults' = faults /\ faults["lose"] \in Nat
    BY <1>0, <1>4 DEF Tick, TypeOK, AnyFault
  <2>5. \A m \in Node \ {Highest} : age'[m] <= faults'["lose"] + 1
    BY <1>0, <2>1, <2>3, <2>4 DEF Calm
  <2> QED BY <1>0, <1>4, <2>2, <2>5 DEF Calm, Tick, stateVars, Highest
<1>5. ASSUME NEW b \in beats, Lose(b) PROVE Calm'
  <2>1. faults["lose"] \in Nat /\ faults'["lose"] = faults["lose"] + 1
    BY <1>0, <1>5 DEF Lose, Fault, TypeOK, AnyFault
  <2>2. \A m \in Node \ {Highest} : age'[m] <= faults'["lose"]
    BY <1>0, <1>5, <2>1 DEF Lose, Calm, raftVars
  <2>3. \A m \in Node \ {Highest} : age'[m] <= faults'["lose"] + 1
    BY <1>0, <2>1, <2>2, <1>5 DEF Lose, raftVars, TypeOK
  <2> QED BY <1>0, <1>5, <2>2, <2>3 DEF Calm, Lose, stateVars, raftVars, Highest
<1>6. ASSUME NEW n \in Node, \/ LeaderTimeout(n) \/ RemoveLeader(n) \/ PointAtSelf(n)
                             \/ TakeLead(n) \/ Crash(n) \/ Restart(n)
      PROVE  FALSE
  <2>1. ~Crash(n)
    BY <1>0 DEF Crash, Fault, CalmCluster, TypeOK, AnyFault
  <2> QED BY <1>0, <1>6, <2>1, NoTimeout
          DEF Calm, RemoveLeader, PointAtSelf, TakeLead, Restart
<1>7. CASE UNCHANGED vars
  BY <1>0, <1>7 DEF Calm, BeatComing, Highest, vars, stateVars, raftVars
<1> QED
  BY <1>1, <1>2, <1>3, <1>4, <1>5, <1>6, <1>7 DEF Next, raftHeart, handle_sync

\* With every node found, none crashed and fewer than LeaderDead - 1 beats lost,
\* no raftHeart ever starts a promotion, and a node leads exactly when it points
\* at itself: leaderDead leaves room for the misses of a leader that is alive,
\* for any number of nodes and any order of the beats.
THEOREM NoFalseFailovers == Spec => []NoFalseFailover
<1>1. StaysCalm => NoFalseFailover
  BY DEF StaysCalm, Calm, NoFalseFailover
<1> QED BY <1>1, InitInv, StepInv, InitCalm, StepCalm, PTL DEF Spec

\* In such a cluster every node keeps the shard whose records Reader loaded at
\* its start, whichever beats are applied in whatever order.
THEOREM ShardsStayLoaded == Spec => []OwnersHaveRecords
<1>1. ASSUME Inv, StaysCalm PROVE OwnersHaveRecords
  <2> SUFFICES ASSUME CalmCluster, NEW n \in Node
               PROVE  selfRecords(n)
                        = RecordSet(Cardinality(Node), Discovered(Node)[n], Cardinality(Node))
    BY DEF OwnersHaveRecords
  <2> QED BY <1>1 DEF StaysCalm, Calm, selfRecords, CalmCluster, AllFound
<1>2. Inv /\ StaysCalm => OwnersHaveRecords
  BY <1>1
<1> QED BY <1>2, InitInv, StepInv, InitCalm, StepCalm, PTL DEF Spec

================================================================================
