------------------------------- MODULE ReadPath -------------------------------
(***************************************************************************)
(* One read of the data plane: handle_read and what it calls in            *)
(* data_plane/server.py, sendRead in data_plane/raft/_raft.py and          *)
(* recordResponse in data_plane/read/_read.py.                             *)
(*                                                                         *)
(* The client asks one node.  A follower passes the read on to its leader  *)
(* over a connection of its own and waits ForwardTimeout for the reply; a  *)
(* leader asks the nodes of its own table in turn (PEER:), each for        *)
(* PeerTimeout, and then live DNS.  Every node on the way runs a thread, a *)
(* hop here, and a caller that gives up leaves the hops behind it running. *)
(*                                                                         *)
(* The views of the nodes and their changes in the middle of the read are  *)
(* those of LeaderViews, which RaftElection is shown to implement.  The    *)
(* tables, and who has the record, are left open: a table may lack nodes   *)
(* that are up (discovery missed them, a promotion removed them), and the  *)
(* shards may overlap or leave the domain out.                             *)
(*                                                                         *)
(* Time is counted in seconds and passes only while every hop waits; the   *)
(* rest of a promotion (TakeLead) takes none.  A node that hangs is silent *)
(* from some point of the connection on, and every operation before that   *)
(* takes no time, so a socket's timeout is spent once.                     *)
(***************************************************************************)
EXTENDS Integers, Sequences, FiniteSets

CONSTANTS
  Node,             \* IPv4 addresses, as numbers
  ForwardTimeout,   \* s.settimeout(5) in _forward_to_leader
  PeerTimeout,      \* s.settimeout(2) in sendRead
  MaxResolve,       \* bound: the longest time newRecord takes
  MaxFaulty,        \* bound: how many nodes are down or hang
  MaxChanges,       \* bound: new leaders, table entries and shards during the read
  MaxLeaders,       \* bound: those that answer and lead, or are promoted, when it begins
  MaxHolders,       \* bound: the nodes that have the record then
  Unlisted,         \* bound: <<n, m>>, m an entry the table of n may lack then
  MaxHops           \* bound: threads the read may occupy, enough for one on
                    \* every node (a node that forwards to itself needs more)

ASSUME ReadAssumption ==
  /\ Node \subseteq Nat \ {0} /\ IsFiniteSet(Node) /\ Node # {}
  /\ ForwardTimeout \in Nat \ {0} /\ PeerTimeout \in Nat \ {0} /\ MaxResolve \in Nat
  /\ MaxFaulty \in Nat /\ MaxChanges \in Nat /\ MaxLeaders \in Nat /\ MaxHolders \in Nat
  /\ Unlisted \subseteq Node \X Node
  /\ MaxHops \in Nat /\ MaxHops >= Cardinality(Node)

\* Bound: more than any part of a read may take.
MaxElapsed == Cardinality(Node) * PeerTimeout + MaxResolve + ForwardTimeout

VARIABLES
  down, hung,       \* nodes whose process is gone; nodes that do not answer
  leaders,          \* the nodes whose Raft.leader is True
  leaderIp,         \* States.leaderIp
  promoting,        \* the nodes between leaderIp = selfIp and leader = True
  nodes,            \* States.nodes: whom each node has in its table
  holds,            \* the nodes with the domain in their records and its letter
                    \* in their selfRecords
  hops,             \* the threads of the read, the client's node first
  elapsed,          \* time the client has waited, up to MaxElapsed
  changes           \* how often leaders, tables or shards changed during the read

views == <<leaders, leaderIp, promoting, nodes, holds, changes>>
fixed == <<down, hung>>
vars  == <<fixed, views, hops, elapsed>>

Views == INSTANCE LeaderViews

Reply == {"record", "live", "N/A"}

Hop == [node : Node, pc : {"lookup", "branch", "sendRead", "ask", "peer", "resolve",
                           "forward", "reply", "done"},
        left : SUBSET Node, wait : Nat, ans : Reply]

TypeOK ==
  /\ down \subseteq Node /\ hung \subseteq Node
  /\ leaders \subseteq Node /\ leaderIp \in [Node -> Node] /\ promoting \subseteq Node
  /\ nodes \in [Node -> SUBSET Node] /\ holds \subseteq Node
  /\ hops \in Seq(Hop) /\ Len(hops) \in 1 .. MaxHops
  /\ elapsed \in 0 .. MaxElapsed /\ changes \in 0 .. MaxChanges

Faulty == down \cup hung

\* A node in its promotion that would pass a read to itself.
AsksItself(n) == n \notin leaders /\ leaderIp[n] = n

\* So many hops are open that there may not be room for one on every node.
Crowded == Len(hops) + Cardinality(Node) > MaxHops

\* The thread handle_read runs in for a request without PEER:.
Arrived(n) == [node |-> n, pc |-> "lookup", left |-> {}, wait |-> 0, ans |-> "N/A"]

Init ==
  /\ down \in SUBSET Node
  /\ hung \in SUBSET (Node \ down)
  /\ Cardinality(Faulty) <= MaxFaulty
  /\ leaders \in SUBSET Node
  /\ promoting \in SUBSET (Node \ leaders)
  /\ leaderIp \in [Node -> Node]
  /\ Views!Allowed
  /\ \A n \in Faulty : n \in leaders /\ leaderIp[n] = n     \* nobody can tell
  /\ Cardinality((leaders \cup promoting) \ Faulty) <= MaxLeaders
  /\ \E S \in SUBSET Unlisted : nodes = [n \in Node |-> {m \in Node : <<n, m>> \notin S}]
  /\ holds \in {H \in SUBSET Node : Cardinality(H) <= MaxHolders}
  /\ \E n \in Node \ Faulty : hops = <<Arrived(n)>>
  /\ elapsed = 0
  /\ changes = 0

-------------------------------------------------------------------------------
(* A hop.                                                                  *)

\* Hop i goes on at label with w seconds to wait at most.
Goto(i, label, w) == hops' = [hops EXCEPT ![i].pc = label, ![i].wait = w]

\* Hop i sends its reply.
Finish(i, v) == hops' = [hops EXCEPT ![i].pc = "done", ![i].ans = v]

\* _local_lookup, which asks recordResponse: the shard first, then the record.
local_lookup(n) == IF n \in holds THEN "record" ELSE "N/A"

\* _resolve tries the local shard.
Lookup(i) ==
  /\ hops[i].pc = "lookup"
  /\ IF local_lookup(hops[i].node) # "N/A"
     THEN Finish(i, local_lookup(hops[i].node))
     ELSE Goto(i, "branch", 0)
  /\ UNCHANGED <<fixed, views, elapsed>>

\* Mutant: a leader forwards like everyone else.
BranchForward(i) ==
  /\ hops[i].pc = "branch"
  /\ Goto(i, "forward", 0)
  /\ UNCHANGED <<fixed, views, elapsed>>

\* "if self._raft.leader".  A node in its promotion forwards to itself, which
\* the bound cuts short: with many hops open it leads before it looks.
Branch(i) ==
  /\ hops[i].pc = "branch"
  /\ ~(AsksItself(hops[i].node) /\ Crowded)
  /\ Goto(i, IF hops[i].node \in leaders THEN "sendRead" ELSE "forward", 0)
  /\ UNCHANGED <<fixed, views, elapsed>>

\* sendRead asks again whether it leads and takes a copy of its table; if it does
\* not lead, its N/A sends _resolve on to newRecord.
sendRead(i) ==
  /\ hops[i].pc = "sendRead"
  /\ IF hops[i].node \in leaders
     THEN hops' = [hops EXCEPT ![i].pc = "ask", ![i].left = nodes[hops[i].node] \ {hops[i].node}]
     ELSE \E w \in 0 .. MaxResolve : Goto(i, "resolve", w)
  /\ UNCHANGED <<fixed, views, elapsed>>

\* Mutant: the first N/A ends the loop.
LeftAfterMiss(left, p) == {}

\* Mutant: a peer without an answer is asked again.
LeftAfterRetry(left, p) == left

\* The peers still to ask after p had no answer.
LeftAfter(left, p) == left \ {p}

\* The next peer.  Tables differ in their order, so any of them may be next.  A
\* hung peer costs a timeout; the others answer with their own _local_lookup.
AskPeer(i) ==
  /\ hops[i].pc = "ask"
  /\ \E p \in hops[i].left :
       LET left  == LeftAfter(hops[i].left, p)
           found == p \notin Faulty /\ local_lookup(p) # "N/A"
       IN  hops' = [hops EXCEPT ![i].left = left,
                                ![i].pc   = IF p \in hung THEN "peer"
                                            ELSE IF found THEN "done" ELSE "ask",
                                ![i].wait = IF p \in hung THEN PeerTimeout ELSE 0,
                                ![i].ans  = IF found THEN local_lookup(p) ELSE "N/A"]
  /\ UNCHANGED <<fixed, views, elapsed>>

PeerTimesOut(i) ==
  /\ hops[i].pc = "peer" /\ hops[i].wait = 0
  /\ Goto(i, "ask", 0)
  /\ UNCHANGED <<fixed, views, elapsed>>

\* No peer is left: newRecord.
AllAsked(i) ==
  /\ hops[i].pc = "ask" /\ hops[i].left = {}
  /\ \E w \in 0 .. MaxResolve : Goto(i, "resolve", w)
  /\ UNCHANGED <<fixed, views, elapsed>>

\* newRecord returns the address it has written, or N/A (WritePipeline).  holds
\* stays what the read found.
newRecord(i) ==
  /\ hops[i].pc = "resolve" /\ hops[i].wait = 0
  /\ Finish(i, "live") \/ Finish(i, "N/A")
  /\ UNCHANGED <<fixed, views, elapsed>>

\* _forward_to_leader up to its readline.  A node that is down refuses the
\* connection; one that hangs is waited for.
forward_to_leader(i) ==
  LET target == leaderIp[hops[i].node]
  IN  /\ hops[i].pc = "forward"
      /\ \/ target \in down /\ Finish(i, "N/A")
         \/ target \in hung /\ Goto(i, "reply", ForwardTimeout)
         \/ /\ target \notin Faulty
            /\ hops' = [hops EXCEPT ![i].pc = "reply", ![i].wait = ForwardTimeout]
                         \o <<Arrived(target)>>
      /\ UNCHANGED <<fixed, views, elapsed>>

Answered(i) == i < Len(hops) /\ hops[i + 1].pc = "done"

LeaderReplies(i) ==
  /\ hops[i].pc = "reply" /\ Answered(i)
  /\ Finish(i, hops[i + 1].ans)
  /\ UNCHANGED <<fixed, views, elapsed>>

\* Mutant: the socket has no timeout.
NoTimeout(i) == FALSE

\* Mutant: a forward waits no longer than a leader waits for one peer.
TimedOutEarly(i) == hops[i].pc = "reply" /\ hops[i].wait <= ForwardTimeout - PeerTimeout

\* The five seconds are over.
TimedOut(i) == hops[i].pc = "reply" /\ hops[i].wait = 0

ForwardFails(i) ==
  /\ TimedOut(i)
  /\ Finish(i, "N/A")
  /\ UNCHANGED <<fixed, views, elapsed>>

handle_read(i) ==
  \/ Lookup(i) \/ Branch(i) \/ forward_to_leader(i) \/ LeaderReplies(i) \/ ForwardFails(i)
  \/ sendRead(i) \/ AskPeer(i) \/ PeerTimesOut(i) \/ AllAsked(i) \/ newRecord(i)

-------------------------------------------------------------------------------
(* Around the read.                                                        *)

\* Hop i can do nothing before time passes.
Blocked(i) ==
  \/ hops[i].pc = "done"
  \/ hops[i].pc \in {"peer", "resolve"} /\ hops[i].wait > 0
  \/ hops[i].pc = "reply" /\ ~Answered(i) /\ ~TimedOut(i)

Tick ==
  /\ \A i \in DOMAIN hops : Blocked(i)
  /\ promoting = {}
  /\ \E i \in DOMAIN hops : hops[i].pc # "done"
  /\ hops' = [i \in DOMAIN hops |->
                [hops[i] EXCEPT !.wait = IF @ = 0 THEN 0 ELSE @ - 1]]
  /\ elapsed' = IF hops[1].pc = "done" \/ elapsed = MaxElapsed THEN elapsed
                ELSE elapsed + 1
  /\ UNCHANGED <<fixed, views>>

\* What updateRank, and a write that arrives, may do to what n has of the domain.
Reshards(n) == holds' \in {holds, holds \cup {n}, holds \ {n}}

\* A promotion is completed; updateRank before it may still give n other shards.
TakeLead(n) ==
  /\ Views!TakeLead(n)
  /\ \/ UNCHANGED <<holds, changes>>
     \/ changes < MaxChanges /\ changes' = changes + 1 /\ Reshards(n)
  /\ UNCHANGED <<fixed, nodes, hops, elapsed>>

\* Node n registers and accepts the beat of a higher address, or begins its
\* promotion, which removes the old leader; the bound keeps it from doing so when
\* it would pass the read on to itself and many hops are open.
NewLeader(n) ==
  /\ changes < MaxChanges
  /\ changes' = changes + 1
  /\ \/ Views!Follow(n) /\ nodes' = [nodes EXCEPT ![n] = @ \cup {leaderIp'[n]}]
     \/ /\ Views!Promote(n) /\ ~Crowded
        /\ nodes' = [nodes EXCEPT ![n] = @ \ {leaderIp[n]}]
  /\ Reshards(n)
  /\ UNCHANGED <<fixed, hops, elapsed>>

\* A beat that is registered and not followed, or a write of the domain.
Beat(n) ==
  /\ changes < MaxChanges
  /\ changes' = changes + 1
  /\ \E m \in Node : nodes' = [nodes EXCEPT ![n] = @ \cup {m}]
  /\ Reshards(n)
  /\ <<nodes, holds>>' # <<nodes, holds>>
  /\ UNCHANGED <<fixed, leaders, leaderIp, promoting, hops, elapsed>>

Next ==
  \/ \E i \in DOMAIN hops : handle_read(i)
  \/ Tick
  \/ \E n \in Node \ Faulty : TakeLead(n) \/ NewLeader(n) \/ Beat(n)

\* Threads run, time passes and promotions come to their end.
Fairness ==
  /\ WF_vars(\E i \in DOMAIN hops : handle_read(i)) /\ WF_vars(Tick)
  /\ \A n \in Node : WF_vars(TakeLead(n))

Spec     == Init /\ [][Next]_vars
FairSpec == Spec /\ Fairness

-------------------------------------------------------------------------------
(* Properties.                                                             *)

\* A node that answers and has the record is n itself or in its table.
Reaches(n) == \E m \in nodes[n] \cup {n} : m \in holds \ Faulty

\* If every leader, now or soon, has a node with the record in its table, no node's
\* leader is out of order, nothing changes during the read, and the peers that
\* hang can all time out before a forward does, the client is told the record,
\* whichever node it asks and whoever is being promoted: no forward times out on
\* a leader that is still waiting for peers, and no peer is passed over.
FindsRecord ==
  hops[1].pc = "done" /\ changes = 0
    /\ (\A n \in Node \ Faulty : leaderIp[n] \notin Faulty)
    /\ (\A n \in (leaders \cup promoting) \ Faulty : Reaches(n))
    /\ Cardinality(hung) * PeerTimeout < ForwardTimeout
    => hops[1].ans = "record"

\* README: "if not found anywhere, resolves via live DNS and writes it back".
\* A node asks live DNS only when it has no record and none of the nodes in its
\* table that answer has - in particular never because the wrong node gave up
\* first - unless leaders, tables or shards changed during the read, such as by a
\* heartbeat between "if self._raft.leader" and sendRead's own.
ResolvesOnlyUnfound ==
  changes = 0 => \A i \in DOMAIN hops : hops[i].pc = "resolve" => ~Reaches(hops[i].node)

\* A follower replies within ForwardTimeout, however many leaders the read is
\* passed along and whoever hangs; a leader within the time its loop over the
\* peers and newRecord may take.  The control plane waits 50 s.
AnsweredInTime ==
  \/ elapsed <= ForwardTimeout
  \/ Len(hops) = 1 /\ elapsed <= (Cardinality(Node) - 1) * PeerTimeout + MaxResolve

\* Every read is answered, whoever is down or hangs.
EveryReadAnswered == <>(hops[1].pc = "done")
===============================================================================
