----------------------------- MODULE LeaderViews -----------------------------
(***************************************************************************)
(* What each node takes for the leader, abstractly: what a read, which     *)
(* follows leaderIp and asks Raft.leader, sees of leadership.              *)
(* RaftElection implements it; ReadPath takes its views and their changes  *)
(* from here, and leaves tables and shards open.                           *)
(***************************************************************************)
EXTENDS Naturals

CONSTANT Node

VARIABLES
  leaders,          \* the nodes whose Raft.leader is True
  leaderIp,         \* States.leaderIp
  promoting         \* the nodes between leaderIp = selfIp and leader = True

viewVars == <<leaders, leaderIp, promoting>>

\* The views a read may find: who does not lead has a higher leader, or is
\* about to lead.
Allowed ==
  /\ leaders \subseteq Node /\ promoting \subseteq Node \ leaders
  /\ leaderIp \in [Node -> Node]
  /\ \A n \in Node : /\ leaderIp[n] >= n
                     /\ n \notin leaders \cup promoting => leaderIp[n] > n

\* Every node starts as its own leader.
Init ==
  /\ leaders = Node
  /\ leaderIp = [n \in Node |-> n]
  /\ promoting = {}

\* The beat of a higher address is accepted, even in the midst of a promotion.
Follow(n) ==
  /\ leaders' = leaders \ {n}
  /\ \E h \in Node : h > n /\ leaderIp' = [leaderIp EXCEPT ![n] = h]
  /\ UNCHANGED promoting

\* A follower whose leader has timed out points at itself.
Promote(n) ==
  /\ n \notin leaders \cup promoting
  /\ leaderIp' = [leaderIp EXCEPT ![n] = n]
  /\ promoting' = promoting \cup {n}
  /\ UNCHANGED leaders

\* The promotion is completed, whatever leaderIp is by now.
TakeLead(n) ==
  /\ n \in promoting
  /\ leaders' = leaders \cup {n}
  /\ promoting' = promoting \ {n}
  /\ UNCHANGED leaderIp

\* The node goes down, and will start as its own leader.
Reset(n) ==
  /\ leaders' = leaders \cup {n}
  /\ leaderIp' = [leaderIp EXCEPT ![n] = n]
  /\ promoting' = promoting \ {n}

Next == \E n \in Node : Follow(n) \/ Promote(n) \/ TakeLead(n) \/ Reset(n)

Spec == Init /\ [][Next]_viewVars
===============================================================================
