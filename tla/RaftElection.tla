----------------------------- MODULE RaftElection -----------------------------
(***************************************************************************)
(* Leadership, membership and shard ranks of the data plane: the Raft      *)
(* object (data_plane/raft/_raft.py) of every node with the fields of its  *)
(* States object (data_plane/state.py) that the heartbeats change.         *)
(*                                                                         *)
(* Each node runs a raftHeart thread, which beats and times the leader     *)
(* out, and one sync-server thread per incoming heartbeat, which runs      *)
(* beatHandler.  They share the node's fields without a lock.  A heartbeat *)
(* whose sender is above leaderIp is handled in two steps, cut between     *)
(* that comparison and the assignments it leads to, so that two beats may  *)
(* be accepted at once.  A promotion takes four steps, cut where raftHeart *)
(* prints or writes states.txt and so lets another thread run:             *)
(*     LeaderTimeout  ->  RemoveLeader  ->  PointAtSelf  ->  TakeLead      *)
(*                                                                         *)
(* Time is counted in beat intervals.  An interval (100 s) dwarfs a TCP    *)
(* delivery, the 2 s socket timeout and the 1 s period of the raftHeart    *)
(* loop, so the clock ticks only when every beat of the interval has been  *)
(* sent and handled and every due timeout has been acted on; the order of  *)
(* all that inside an interval is free.                                    *)
(***************************************************************************)
EXTENDS Shards, FiniteSets

CONSTANTS
  Node,             \* IPv4 addresses, as numbers: beatHandler only compares them
  FileRank,         \* place of each node's self_ip_*.txt in the sorted listing
  LeaderDead,       \* leaderDead in beat intervals: 300 / 100
  MaxMissed,        \* bound: how often a file was not yet there when a node looked
  FaultKinds,       \* which of "crash", "restart" and "lose" may happen
  MaxFaults         \* bound: how many of them, altogether

ASSUME NodeAssumption == Node \subseteq Nat /\ IsFiniteSet(Node) /\ Node # {}
ASSUME FileRankAssumption ==
  /\ FileRank \in [Node -> Nat \ {0}]
  /\ \A m, n \in Node : FileRank[m] = FileRank[n] => m = n
ASSUME LeaderDeadAssumption == LeaderDead \in Nat \ {0}
AnyFault == {"crash", "restart", "lose"}

ASSUME FaultAssumption ==
  /\ MaxMissed \in Nat
  /\ FaultKinds \subseteq AnyFault
  /\ MaxFaults \in Nat

VARIABLES
  alive,            \* the nodes whose process runs
  leaders,          \* the nodes whose Raft.leader is True
  leaderIp,         \* States.leaderIp
  nodes,            \* States.nodes: ip -> rank
  rank,             \* States.rank
  lastRank,         \* States.lastRank
  mLastRank,        \* States.mLastRank
  nodeCount,        \* States.nodeCount
  followerCount,    \* Raft.followerCount
  age,              \* intervals since _last_beat_received, up to LeaderDead
  due,              \* the nodes whose next_beat_time has come
  heart,            \* where each raftHeart thread is
  beats,            \* heartbeats on their way to port 7001
  accepting,        \* beats found to be of a higher address, leaderIp not yet set
  faults            \* how many crashes, restarts and losses there were

stateVars == <<leaderIp, nodes, rank, lastRank, mLastRank, nodeCount>>
raftVars  == <<leaders, followerCount, age, due, heart>>
vars      == <<alive, stateVars, raftVars, beats, accepting, faults>>

\* nodes is a dict in insertion order.  Ranks grow along that order (discovery
\* numbers it, a newcomer gets mLastRank + 1, removeNode renumbers it), so the
\* ranks alone say what the order is.
IsView(view) == DOMAIN view \subseteq Node /\ view \in [DOMAIN view -> Nat]

Beat == [src : Node, dst : Node, rank : Nat, lastRank : Nat]

TypeOK ==
  /\ alive \in SUBSET Node
  /\ leaders \in SUBSET Node
  /\ leaderIp \in [Node -> Node]
  /\ nodes = [n \in Node |-> nodes[n]]
  /\ \A n \in Node : IsView(nodes[n])
  /\ rank \in [Node -> Nat]
  /\ lastRank \in [Node -> Nat]
  /\ mLastRank \in [Node -> Nat]
  /\ nodeCount \in [Node -> Nat]
  /\ followerCount \in [Node -> Nat]
  /\ age \in [Node -> 0 .. LeaderDead]
  /\ due \in SUBSET Node
  /\ heart \in [Node -> {"loop", "remove", "self", "lead"}]
  /\ beats \in SUBSET Beat
  /\ accepting \in SUBSET Beat
  /\ faults \in [AnyFault -> 0 .. MaxFaults]

-------------------------------------------------------------------------------
(* The node table.                                                         *)

\* enumerate(list(nodes.keys()), start=1): number the keys in their order.
Renumber(view) ==
  [i \in DOMAIN view |-> Cardinality({j \in DOMAIN view : view[j] <= view[i]})]

\* The ranks _register_and_load_nodes gives the files it found.
Discovered(found) == Renumber([i \in found |-> FileRank[i]])

\* Mutant: the newcomer gets len(nodes), counted before it is inserted.
RegisteredAtLen(view, ip, r) ==
  IF ip \in DOMAIN view THEN view
  ELSE [i \in DOMAIN view \cup {ip} |->
          IF i = ip THEN Cardinality(DOMAIN view) ELSE view[i]]

\* "if leaderIp not in nodes: nodes[leaderIp] = r".
Registered(view, ip, r) ==
  IF ip \in DOMAIN view THEN view
  ELSE [i \in DOMAIN view \cup {ip} |-> IF i = ip THEN r ELSE view[i]]

\* "del nodes[ip]" and the renumbering after it.
Removed(view, ip) == Renumber([i \in DOMAIN view \ {ip} |-> view[i]])

\* nodes.get(selfIp, 1).
OwnRank(view, n) == IF n \in DOMAIN view THEN view[n] ELSE 1

\* selfRecords, which every change of rank, lastRank and nodeCount recomputes.
selfRecords(n) == RecordSet(nodeCount[n], rank[n], lastRank[n])

-------------------------------------------------------------------------------
(* Start.                                                                  *)

\* The self_ip files the nodes may find when their four seconds are over: each
\* its own, written before its process starts, and those of the containers that
\* were quick enough.  If m was too late for n, and k for m, then k was too late
\* for n; and n was early enough for m.
Missed(found) == {p \in Node \X Node : p[2] \notin found[p[1]]}

Found ==
  {found \in [Node -> SUBSET Node] :
     /\ \A n \in Node : n \in found[n]
     /\ \A p, q \in Missed(found) : p[2] = q[1] => <<p[1], q[2]>> \in Missed(found)
     /\ Cardinality(Missed(found)) <= MaxMissed}

Init ==
  /\ \E found \in Found :
       /\ nodes = [n \in Node |-> Discovered(found[n])]
       /\ rank = [n \in Node |-> OwnRank(Discovered(found[n]), n)]
       /\ lastRank = [n \in Node |-> Cardinality(found[n])]
       /\ mLastRank = [n \in Node |-> Cardinality(found[n])]
       /\ nodeCount = [n \in Node |-> Cardinality(found[n])]
       /\ followerCount = [n \in Node |-> Cardinality(found[n]) - 1]
  /\ alive = Node
  /\ leaders = Node
  /\ leaderIp = [n \in Node |-> n]
  /\ age = [n \in Node |-> 0]
  /\ due = {}
  /\ heart = [n \in Node |-> "loop"]
  /\ beats = {}
  /\ accepting = {}
  /\ faults = [kind \in AnyFault |-> 0]

-------------------------------------------------------------------------------
(* The raftHeart thread.                                                   *)

\* Mutant: the sender puts its own rank into every message.
BeatsOwnRank(n) ==
  {[src |-> n, dst |-> d, rank |-> rank[n], lastRank |-> lastRank[n]] :
     d \in (DOMAIN nodes[n] \ {n}) \cap alive}

\* What sendBeat sends: to every other node of the table its rank there.  A
\* connection to a node that is down fails and is only reported.  The loop is one
\* step: ranks and lastRank are those of its beginning, though each message reads
\* lastRank anew, up to 2 s after the one before.
Beats(n) ==
  {[src |-> n, dst |-> d, rank |-> nodes[n][d], lastRank |-> lastRank[n]] :
     d \in (DOMAIN nodes[n] \ {n}) \cap alive}

\* next_beat_time has come: a leader beats, a follower only sets the next time.
Heartbeat(n) ==
  /\ n \in alive /\ n \in due /\ heart[n] = "loop"
  /\ due' = due \ {n}
  /\ beats' = IF n \in leaders THEN beats \cup Beats(n) ELSE beats
  /\ UNCHANGED <<alive, stateVars, leaders, followerCount, age, heart, accepting, faults>>

\* Mutant: the clock is rounded up, so that the last interval is not waited for.
TimedOutEarly(n) == age[n] + 1 >= LeaderDead

\* seconds_since_beat >= leaderDead.
TimedOut(n) == age[n] >= LeaderDead

\* Mutant: the follower calls itself the leader before it removes the old one.
LeaderTimeoutLeads(n) ==
  /\ n \in alive /\ heart[n] = "loop"
  /\ n \notin leaders
  /\ TimedOut(n)
  /\ heart' = [heart EXCEPT ![n] = "remove"]
  /\ leaders' = leaders \cup {n}
  /\ UNCHANGED <<alive, stateVars, followerCount, age, due, beats, accepting, faults>>

\* A follower finds that its leader has timed out.
LeaderTimeout(n) ==
  /\ n \in alive /\ heart[n] = "loop"
  /\ n \notin leaders
  /\ TimedOut(n)
  /\ heart' = [heart EXCEPT ![n] = "remove"]
  /\ UNCHANGED <<alive, stateVars, leaders, followerCount, age, due, beats,
                 accepting, faults>>

\* Mutant: lastRank is left at the size the cluster had.
removeNodeKeepsSize(n, ip) ==
  LET view == Removed(nodes[n], ip)
  IN  /\ nodes' = [nodes EXCEPT ![n] = view]
      /\ nodeCount' = [nodeCount EXCEPT ![n] = Cardinality(DOMAIN view)]
      /\ rank' = [rank EXCEPT ![n] = OwnRank(view, n)]
      /\ UNCHANGED lastRank

\* removeNode(ip) on node n; an address that is not in the table is ignored.
removeNode(n, ip) ==
  LET view == Removed(nodes[n], ip)
  IN  IF ip \in DOMAIN nodes[n]
      THEN /\ nodes' = [nodes EXCEPT ![n] = view]
           /\ nodeCount' = [nodeCount EXCEPT ![n] = Cardinality(DOMAIN view)]
           /\ rank' = [rank EXCEPT ![n] = OwnRank(view, n)]
           /\ lastRank' = [lastRank EXCEPT ![n] = Cardinality(DOMAIN view)]
      ELSE UNCHANGED <<nodes, nodeCount, rank, lastRank>>

\* Mutant: leaderIp is overwritten before removeNode is given its value.
RemoveLeaderLate(n) ==
  /\ n \in alive /\ heart[n] = "remove"
  /\ heart' = [heart EXCEPT ![n] = "self"]
  /\ removeNode(n, n)
  /\ UNCHANGED <<alive, leaderIp, mLastRank, leaders, followerCount, age, due,
                 beats, accepting, faults>>

\* Mutant: the dead leader's address is cleared along with its entry.
RemoveLeaderForgets(n) ==
  /\ n \in alive /\ heart[n] = "remove"
  /\ heart' = [heart EXCEPT ![n] = "self"]
  /\ removeNode(n, leaderIp[n])
  /\ leaderIp' = [leaderIp EXCEPT ![n] = 0]
  /\ UNCHANGED <<alive, mLastRank, leaders, followerCount, age, due, beats,
                 accepting, faults>>

\* removeNode(leaderIp), with whatever leaderIp is by now.
RemoveLeader(n) ==
  /\ n \in alive /\ heart[n] = "remove"
  /\ heart' = [heart EXCEPT ![n] = "self"]
  /\ removeNode(n, leaderIp[n])
  /\ UNCHANGED <<alive, leaderIp, mLastRank, leaders, followerCount, age, due,
                 beats, accepting, faults>>

\* leaderIp = selfIp, then updateRank with the node's own rank.
PointAtSelf(n) ==
  /\ n \in alive /\ heart[n] = "self"
  /\ heart' = [heart EXCEPT ![n] = "lead"]
  /\ leaderIp' = [leaderIp EXCEPT ![n] = n]
  /\ rank' = [rank EXCEPT ![n] = OwnRank(nodes[n], n)]
  /\ UNCHANGED <<alive, nodes, lastRank, mLastRank, nodeCount, leaders, followerCount,
                 age, due, beats, accepting, faults>>

\* leader = True, sendBeat, and both timers start again.
TakeLead(n) ==
  /\ n \in alive /\ heart[n] = "lead"
  /\ heart' = [heart EXCEPT ![n] = "loop"]
  /\ leaders' = leaders \cup {n}
  /\ beats' = beats \cup Beats(n)
  /\ due' = due \ {n}
  /\ age' = [age EXCEPT ![n] = 0]
  /\ UNCHANGED <<alive, stateVars, followerCount, accepting, faults>>

raftHeart(n) ==
  Heartbeat(n) \/ LeaderTimeout(n) \/ RemoveLeader(n) \/ PointAtSelf(n) \/ TakeLead(n)

-------------------------------------------------------------------------------
(* The sync server.                                                        *)

\* Mutants: the last sender leads; the lowest address leads.
LastWins(b, n)   == TRUE
LowestWins(b, n) == b.src < leaderIp[n]

\* "Higher IP wins leadership": does the beat's sender replace n's leader?
Outranks(b, n) == b.src > leaderIp[n]

\* beatHandler.  updateRank runs when the pair differs, which is to say that
\* rank and lastRank are the beat's afterwards - whoever sent it.  A sender that
\* is to be the leader is only put down as such: AcceptLeader does the rest.
beatHandler(n, b) ==
  /\ n \in alive /\ b.dst = n
  /\ beats' = beats \ {b}
  /\ age' = [age EXCEPT ![n] = 0]
  /\ nodes' = [nodes EXCEPT ![n] = Registered(nodes[n], b.src, mLastRank[n] + 1)]
  /\ mLastRank' = IF b.src \in DOMAIN nodes[n] THEN mLastRank
                  ELSE [mLastRank EXCEPT ![n] = @ + 1]
  /\ followerCount' =
       [followerCount EXCEPT ![n] = Cardinality(DOMAIN nodes[n] \cup {b.src}) - 1]
  /\ IF Outranks(b, n)
     THEN accepting' = accepting \cup {b} /\ UNCHANGED <<rank, lastRank>>
     ELSE /\ rank' = [rank EXCEPT ![n] = b.rank]
          /\ lastRank' = [lastRank EXCEPT ![n] = b.lastRank]
          /\ UNCHANGED accepting
  /\ UNCHANGED <<alive, leaders, leaderIp, nodeCount, due, heart, faults>>

\* leader = False, leaderIp = the sender, whatever leaderIp is by now; and the
\* shard.
AcceptLeader(n, b) ==
  /\ n \in alive /\ b.dst = n
  /\ accepting' = accepting \ {b}
  /\ leaders' = leaders \ {n}
  /\ leaderIp' = [leaderIp EXCEPT ![n] = b.src]
  /\ rank' = [rank EXCEPT ![n] = b.rank]
  /\ lastRank' = [lastRank EXCEPT ![n] = b.lastRank]
  /\ UNCHANGED <<alive, nodes, mLastRank, nodeCount, followerCount, age, due, heart,
                 beats, faults>>

handle_sync(n) == \/ \E b \in beats : beatHandler(n, b)
                  \/ \E b \in accepting : AcceptLeader(n, b)

-------------------------------------------------------------------------------
(* Time and faults.                                                        *)

\* Nothing is left to do in this interval.
Quiet ==
  /\ beats = {}
  /\ accepting = {}
  /\ \A n \in alive : /\ n \notin due
                      /\ heart[n] = "loop"
                      /\ n \notin leaders => age[n] < LeaderDead

\* A beat interval passes.
Tick ==
  /\ Quiet
  /\ due' = alive
  /\ age' = [n \in Node |-> IF n \in alive /\ age[n] < LeaderDead
                            THEN age[n] + 1 ELSE age[n]]
  /\ UNCHANGED <<alive, stateVars, leaders, followerCount, heart, beats, accepting, faults>>

FaultCount == faults["crash"] + faults["restart"] + faults["lose"]

Fault(kind) ==
  /\ kind \in FaultKinds
  /\ FaultCount < MaxFaults
  /\ faults' = [faults EXCEPT ![kind] = @ + 1]

\* A node's process ends.  Of the beats it was sending any part is out.  Its
\* memory is gone: it is shown at once as States() and Raft() will build it if
\* the node comes back, from the self_ip files, which are all there by then.
Crash(n) ==
  /\ n \in alive
  /\ Fault("crash")
  /\ alive' = alive \ {n}
  /\ \E unsent \in SUBSET {b \in beats : b.src = n} :
       beats' = {b \in beats : b.dst # n /\ b \notin unsent}
  /\ accepting' = {b \in accepting : b.dst # n}
  /\ leaders' = leaders \cup {n}
  /\ leaderIp' = [leaderIp EXCEPT ![n] = n]
  /\ nodes' = [nodes EXCEPT ![n] = Discovered(Node)]
  /\ rank' = [rank EXCEPT ![n] = OwnRank(Discovered(Node), n)]
  /\ lastRank' = [lastRank EXCEPT ![n] = Cardinality(Node)]
  /\ mLastRank' = [mLastRank EXCEPT ![n] = Cardinality(Node)]
  /\ nodeCount' = [nodeCount EXCEPT ![n] = Cardinality(Node)]
  /\ followerCount' = [followerCount EXCEPT ![n] = Cardinality(Node) - 1]
  /\ age' = [age EXCEPT ![n] = 0]
  /\ due' = due \ {n}
  /\ heart' = [heart EXCEPT ![n] = "loop"]

\* The node is started again.
Restart(n) ==
  /\ n \notin alive
  /\ Fault("restart")
  /\ alive' = alive \cup {n}
  /\ UNCHANGED <<stateVars, raftVars, beats, accepting>>

\* _send_raw fails on the way: the beat is reported and forgotten.
Lose(b) ==
  /\ Fault("lose")
  /\ beats' = beats \ {b}
  /\ UNCHANGED <<alive, stateVars, raftVars, accepting>>

-------------------------------------------------------------------------------
Next ==
  \/ \E n \in Node : raftHeart(n) \/ handle_sync(n) \/ Crash(n) \/ Restart(n)
  \/ \E b \in beats : Lose(b)
  \/ Tick

\* The threads run and the clock goes on; faults need never happen.
Fairness ==
  /\ \A n \in Node : WF_vars(raftHeart(n)) /\ WF_vars(handle_sync(n))
  /\ WF_vars(Tick)

Spec     == Init /\ [][Next]_vars
FairSpec == Spec /\ Fairness

-------------------------------------------------------------------------------
(* Safety.                                                                 *)

AllFound == \A n \in Node : nodeCount[n] = Cardinality(Node)

\* A node that is not leader points at a strictly higher address, save in the
\* moment of its own promotion when it points at itself.  _forward_to_leader
\* therefore passes a read only upwards: no set of two or more nodes can send
\* a read round in a circle, whatever beats are lost and whoever crashes.
ForwardsGoUp ==
  \A n \in Node : /\ leaderIp[n] >= n
                  /\ n \notin leaders /\ heart[n] # "lead" => leaderIp[n] > n

\* What the election lets a read see.
Views == INSTANCE LeaderViews WITH promoting <- {n \in Node : heart[n] = "lead"}

\* Whatever beats, timeouts and crashes do to leader and leaderIp, a read in the
\* midst of it sees steps of LeaderViews only: a node takes a higher address for
\* its leader or, if it does not lead, points at itself and then leads.  It never
\* leads before it has pointed at itself, nor follows a lower address because a
\* beat is assigned long after it was compared.
ViewsBehave == Views!Spec

\* The ranks a node would hand out in its next round of beats give no letter to
\* two nodes, however often members were removed, renumbered and registered
\* again since discovery.  It is about ranks: a node that counts itself alone
\* (nodeCount = 1) takes the whole alphabet whatever rank it is sent.
OneOwnerPerLetter ==
  \A n \in Node : \A d, e \in DOMAIN nodes[n] :
    d < e => Slice(nodes[n][d], lastRank[n]) \cap Slice(nodes[n][e], lastRank[n]) = {}

\* A node never drops out of its own table, so it always knows its own rank
\* there (removeNode is only ever given another node's address).
KnowsItself == \A n \in Node : n \in DOMAIN nodes[n]

\* Nothing but beats was lost, fewer than LeaderDead - 1 of them, and all nodes
\* found each other.
CalmCluster == AllFound /\ faults["crash"] = 0 /\ faults["lose"] < LeaderDead - 1

\* A calm cluster sees no follower promote itself, for leaderDead leaves room for
\* that many misses in a row from a leader that is alive; and a node in it leads
\* exactly when it points at itself, whatever beats are handled at once: leader
\* and leaderIp, which the code assigns separately, come apart only in a promotion.
NoFalseFailover ==
  CalmCluster => \A n \in Node : /\ heart[n] = "loop"
                                 /\ n \in leaders <=> leaderIp[n] = n

\* Reader loads the records of the shard a node has at its start, and nothing
\* loads others later.  In a calm cluster the beats, whoever sends them and in
\* whatever order they are applied, leave every node with that shard.
OwnersHaveRecords ==
  CalmCluster => \A n \in Node :
    selfRecords(n) = RecordSet(Cardinality(Node), Discovered(Node)[n], Cardinality(Node))

-------------------------------------------------------------------------------
(* Liveness.                                                               *)

Highest == CHOOSE n \in Node : \A m \in Node : m <= n

\* The highest address leads and everyone knows it.
Agreed == leaders = {Highest} /\ \A n \in Node : leaderIp[n] = Highest

\* All nodes start as leaders; without faults they settle on the highest
\* address for good, in whatever order the first beats cross.
Converges == <>[]Agreed \/ <>(FaultCount > 0)

\* Every live node follows the node d, which is down, and no beat is about to
\* change that.
AllFollow(d) ==
  /\ d \notin alive /\ beats = {} /\ accepting = {}
  /\ \A n \in alive : n \notin leaders /\ leaderIp[n] = d

\* The live nodes own the whole alphabet between them.
Covered == UNION {selfRecords(n) : n \in alive} = Alphabet

\* When the leader of a settled cluster in which all found each other goes down,
\* its letters are taken over: a timeout, removeNode and one round of beats leave
\* the survivors with the whole alphabet, unless there is a second fault.
FailoverCovers ==
  \A d \in Node :
    AllFollow(d) /\ AllFound ~> Covered \/ FaultCount > 1

-------------------------------------------------------------------------------
(* What the README says and the code does not do.                          *)

\* README: "followers that stop hearing heartbeats for 15 seconds promote
\* themselves".  A follower whose leader is down does not stay its follower.
FollowersLeaveDeadLeader ==
  \A n \in Node : (n \in alive \ leaders /\ leaderIp[n] \notin alive)
                    ~> ~(n \in alive \ leaders /\ leaderIp[n] \notin alive)
===============================================================================
