----------------------------- MODULE WritePipeline -----------------------------
(***************************************************************************)
(* The write pipeline of the data plane: Writer (write/_writer.py), the    *)
(* sending half of Raft (raft/_raft.py) and the shard file in records/,    *)
(* which every node reads and rewrites through the same bind mount.        *)
(*                                                                         *)
(* handle_write and handle_read run one thread per connection and nothing  *)
(* takes a lock.  One write is a thread that goes through                  *)
(*     Begin -> TakeNumber -> sendLog -> OpenFile -> ReadFile -> Truncate  *)
(*           -> WriteBack                                                  *)
(* and may lose the processor between any two of these.  Leadership is     *)
(* settled here (RaftElection models how): Leader leads, the others know.  *)
(* The senders of type-1 messages may not: Batch and process.py send them  *)
(* to whatever leaderIp they find (RecordRefresh), so a write may enter at *)
(* a follower, which handles it as a leader would.                         *)
(*                                                                         *)
(* One shard file is modelled, so a domain stands for a line of it and a   *)
(* write is identified with the value it carries.  The records directory   *)
(* holds only A records, so the record type is left out.  Files of some MB *)
(* are read and written in buffers of 8 kB.  From open('w') to close the   *)
(* file holds any part of the lines, the last one cut, and rewrites that   *)
(* meet leave a mixture of their lines, joined ones and holes.  None of    *)
(* this is told apart: the file is then Jumble, of which nothing is known. *)
(***************************************************************************)
EXTENDS Integers, FiniteSets

CONSTANTS
  Node,         \* the data-plane nodes
  Leader,       \* the one whose Raft.leader is True and every leaderIp names
  Owner,        \* the node whose selfRecords holds the shard's letter
  Domain,       \* the domains of the shard
  Listed,       \* the domains the shard file lists at the start
  Write,        \* the writes, each with the value it carries
  DomainOf,     \* the domain of each write
  Entries,      \* the nodes type-1 messages are sent to
  Resolved,     \* the writes newRecord makes; the others arrive as type 1
  MaxActive,    \* how many writes may be in their threads at a time
  FaultKinds,   \* the kinds of fault that may happen, each at most once
  MaxFaults,    \* bound: how many of them, altogether
  Old,          \* the value of the domains listed at the start
  Torn,         \* whatever text a jumbled file has for a domain, none included
  NA            \* no value

\* A message is lost, the file cannot be opened, it cannot be written to its end,
\* a follower or the leader restarts.
AnyFault == {"lose", "disk", "full", "crash", "reset"}

ASSUME PipelineAssumption ==
  /\ IsFiniteSet(Node) /\ Leader \in Node /\ Owner \in Node
  /\ IsFiniteSet(Write) /\ Listed \subseteq Domain
  /\ DomainOf \in [Write -> Domain] /\ Entries \subseteq Node /\ Resolved \subseteq Write
  /\ MaxActive \in Nat /\ MaxFaults \in Nat
  /\ FaultKinds \subseteq AnyFault
  /\ {Old, Torn, NA} \cap Write = {} /\ Old # NA /\ Torn # NA /\ Torn # Old

VARIABLES
  entry,        \* the node each write enters at
  currLogNum,   \* Raft.currLogNum
  logs,         \* Writer.logs: number -> write
  logAck,       \* Writer.logAck, a defaultdict
  bound,        \* the nodes whose Writer._raft is set
  records,      \* States.records for the domains of the shard
  file,         \* the shard file: domain -> value
  pc,           \* where the thread of each write is
  num,          \* its local num
  lines,        \* its local lines: what it will put in the file
  update,       \* its local update: what commitHandler found under num
  msgs,         \* type-2 and type-3 messages on their way to port 9000
  quorum,       \* the writes for which the leader printed "Quorum reached"
  last,         \* history: the write of each domain that was finished last
  overlap,      \* history: a write began before the one before it ended
  sole,         \* history: the threads whose open file no other one has rewritten
  torn,         \* history: a rewrite met another one or a reader, or was cut short
  faults        \* the kinds of fault that have happened

nodeVars   == <<currLogNum, logs, logAck, bound, records>>
threadVars == <<pc, num, lines, update>>
history    == <<last, overlap, sole, torn>>
vars == <<entry, nodeVars, threadVars, file, msgs, quorum, history, faults>>

Num   == 1 .. Cardinality(Write)      \* a node never counts further than this
Value == Write \cup {Old, Torn, NA}
Entry == [type : {2}, src : Node, dst : Node, num : Num, write : Write]
Ack   == [type : {3}, src : Node, dst : Node, num : Num]

\* A file or a log is a function on part of its domain.
Partial(f, S, T) == DOMAIN f \subseteq S /\ f \in [DOMAIN f -> T]

Followers     == Node \ {Leader}
followerCount == Cardinality(Node) - 1

TypeOK ==
  /\ entry \in [Write -> Node]
  /\ currLogNum \in [Node -> Num \cup {0}]
  /\ DOMAIN logs = Node /\ \A n \in Node : Partial(logs[n], Num, Write)
  /\ logAck \in [Node -> [Num -> Nat]]
  /\ bound \in SUBSET Node
  /\ records \in [Node -> [Domain -> Value]]
  /\ Partial(file, Domain, Value \ {NA})
  /\ pc \in [Write -> {"idle", "number", "log", "commit", "read", "truncate", "write",
                       "done", "failed", "nxdomain", "killed"}]
  /\ num \in [Write -> Num \cup {0}]
  /\ DOMAIN lines = Write /\ \A w \in Write : Partial(lines[w], Domain, Value \ {NA})
  /\ update \in [Write -> Write \cup {NA}]
  /\ msgs \in SUBSET (Entry \cup Ack)
  /\ quorum \in SUBSET Write
  /\ last \in [Domain -> Value \ {Torn}]
  /\ overlap \in BOOLEAN
  /\ sole \in SUBSET Write
  /\ torn \in BOOLEAN
  /\ faults \in SUBSET FaultKinds

-------------------------------------------------------------------------------
\* What Reader.__init__ loads from the lines it finds: the owner's shard, nothing
\* for another node.
Loaded(n, ls) == [d \in Domain |-> IF n = Owner /\ d \in DOMAIN ls THEN ls[d] ELSE NA]

Empty  == [x \in {} |-> NA]
Jumble == [d \in Domain |-> Torn]

\* dict[k] = v.
Put(f, k, v) == [x \in DOMAIN f \cup {k} |-> IF x = k THEN v ELSE f[x]]

\* newRecord runs on the leader only.
Init ==
  /\ entry \in [Write -> Entries \cup {Leader}]
  /\ \A w \in Resolved : entry[w] = Leader
  /\ file = [d \in Listed |-> Old]
  /\ currLogNum = [n \in Node |-> 0]
  /\ logs = [n \in Node |-> Empty]
  /\ logAck = [n \in Node |-> [k \in Num |-> 0]]
  /\ bound = {}
  /\ records = [n \in Node |-> Loaded(n, file)]
  /\ pc = [w \in Write |-> "idle"]
  /\ num = [w \in Write |-> 0]
  /\ lines = [w \in Write |-> Empty]
  /\ update = [w \in Write |-> NA]
  /\ msgs = {}
  /\ quorum = {}
  /\ last = [d \in Domain |-> IF d \in Listed THEN Old ELSE NA]
  /\ overlap = FALSE
  /\ sole = {}
  /\ torn = FALSE
  /\ faults = {}

Running(w) == pc[w] \in {"number", "log", "commit", "read", "truncate", "write"}

\* The thread has emptied the file and not written all of its lines.
Rewriting(w) == pc[w] = "write"

\* The thread of w begins its work.
Start(w) ==
  /\ pc[w] = "idle"
  /\ Cardinality({v \in Write : Running(v)}) < MaxActive
  /\ overlap' = (overlap \/ \E v \in Write : Running(v))

-------------------------------------------------------------------------------
(* The thread of a write, on the node it arrived at.                       *)

\* Mutant: the increment is missing.
NoIncrement(w) == pc' = [pc EXCEPT ![w] = "number"] /\ UNCHANGED currLogNum

\* currLogNum += 1.
Increment(w) ==
  /\ currLogNum' = [currLogNum EXCEPT ![entry[w]] = @ + 1]
  /\ pc' = [pc EXCEPT ![w] = "number"]

\* writeHandler on a type-1 message.  Any node takes it, leader or not.
writeHandler1(w) ==
  /\ Start(w) /\ w \notin Resolved
  /\ bound' = bound \cup {entry[w]}
  /\ Increment(w)
  /\ UNCHANGED <<entry, logs, logAck, records, num, lines, update, file, msgs, quorum,
                 last, sole, torn, faults>>

\* newRecord when gethostbyname knows the domain.  Without _raft the next line
\* raises, and the caller is told N/A.
newRecord(w) ==
  /\ Start(w) /\ w \in Resolved
  /\ IF entry[w] \in bound
     THEN Increment(w)
     ELSE /\ pc' = [pc EXCEPT ![w] = "failed"]
          /\ UNCHANGED currLogNum
  /\ UNCHANGED <<entry, logs, logAck, bound, records, num, lines, update, file, msgs,
                 quorum, last, sole, torn, faults>>

\* newRecord when it does not.
Unresolvable(w) ==
  /\ Start(w) /\ w \in Resolved
  /\ pc' = [pc EXCEPT ![w] = "nxdomain"]
  /\ UNCHANGED <<entry, nodeVars, num, lines, update, file, msgs, quorum, last, sole,
                 torn, faults>>

\* Mutant: the node's own counter is the key.
LoggedUnderOwn(n, k, w) == [logs EXCEPT ![n] = Put(@, currLogNum[n], w)]

\* logs[num] = update.
Logged(n, k, w) == [logs EXCEPT ![n] = Put(@, k, w)]

\* num = str(currLogNum), and writeStarter's logs[num] = update.
TakeNumber(w) ==
  LET n == entry[w]
  IN  /\ pc[w] = "number"
      /\ num' = [num EXCEPT ![w] = currLogNum[n]]
      /\ logs' = Logged(n, currLogNum[n], w)
      /\ pc' = [pc EXCEPT ![w] = "log"]
      /\ UNCHANGED <<entry, currLogNum, logAck, bound, records, lines, update, file,
                     msgs, quorum, history, faults>>

\* sendLog: currLogNum = int(num), then a type-2 message to every other node.
sendLog(w) ==
  LET n == entry[w]
  IN  /\ pc[w] = "log"
      /\ currLogNum' = [currLogNum EXCEPT ![n] = num[w]]
      /\ msgs' = msgs \cup {[type |-> 2, src |-> n, dst |-> d, num |-> num[w], write |-> w] :
                              d \in Node \ {n}}
      /\ pc' = [pc EXCEPT ![w] = "commit"]
      /\ UNCHANGED <<entry, logs, logAck, bound, records, num, lines, update, file,
                     quorum, history, faults>>

\* Mutant: lines of other domains are not carried over.
OwnLineOnly(u) == Put(Empty, DomainOf[u], u)

\* The lines of the file with the domain's line replaced, or appended; to a file
\* in disorder perhaps in the middle of another line.
Edited(u) == IF file = Jumble THEN Jumble ELSE Put(file, DomainOf[u], u)

\* commitHandler looks the number up again and opens the file.
OpenFile(w) ==
  /\ pc[w] = "commit"
  /\ update' = [update EXCEPT ![w] = logs[entry[w]][num[w]]]
  /\ sole' = IF \E v \in Write : Rewriting(v) THEN sole ELSE sole \cup {w}
  /\ pc' = [pc EXCEPT ![w] = "read"]
  /\ UNCHANGED <<entry, nodeVars, num, lines, file, msgs, quorum, last, overlap, torn,
                 faults>>

\* It has read the lines and replaced its own or appended it.
ReadFile(w) ==
  /\ pc[w] = "read"
  /\ lines' = [lines EXCEPT ![w] = IF w \in sole THEN Edited(update[w]) ELSE Jumble]
  /\ torn' = (torn \/ w \notin sole)
  /\ sole' = sole \ {w}
  /\ pc' = [pc EXCEPT ![w] = "truncate"]
  /\ UNCHANGED <<entry, nodeVars, num, update, file, msgs, quorum, last, overlap, faults>>

\* open(filepath, 'w') empties the file, under whoever has it open, and writelines
\* fills it again one buffer after the other.
Truncate(w) ==
  /\ pc[w] = "truncate"
  /\ file' = Jumble
  /\ sole' = IF \E v \in Write : Rewriting(v) THEN {} ELSE {w}
  /\ pc' = [pc EXCEPT ![w] = "write"]
  /\ UNCHANGED <<entry, nodeVars, num, lines, update, msgs, quorum, last, overlap, torn,
                 faults>>

\* The file is closed: it holds the lines if no other thread had a hand in it.
\* Then the in-memory record, and the answer.
WriteBack(w) ==
  /\ pc[w] = "write"
  /\ file' = IF w \in sole THEN lines[w] ELSE Jumble
  /\ torn' = (torn \/ w \notin sole)
  /\ sole' = sole \ {w}
  /\ records' = [records EXCEPT ![entry[w]][DomainOf[update[w]]] = update[w]]
  /\ last' = [last EXCEPT ![DomainOf[w]] = w]
  /\ pc' = [pc EXCEPT ![w] = "done"]
  /\ lines' = [lines EXCEPT ![w] = Empty]
  /\ UNCHANGED <<entry, currLogNum, logs, logAck, bound, num, update, msgs, quorum, overlap,
                 faults>>

-------------------------------------------------------------------------------
(* Messages.  Each has a connection and a thread of its own, so they are   *)
(* handled in any order.                                                   *)

\* Mutant: the test is inverted.
NotInShard(n) == n # Owner

\* "dom[0].lower() in selfRecords".
InShard(n) == n = Owner

\* Mutant: the record type is stored for the address.
KeptType(n, w) == [records EXCEPT ![n][DomainOf[w]] = "A"]

\* records[(dom, t)] = ip.
Kept(n, w) == [records EXCEPT ![n][DomainOf[w]] = w]

\* Mutant: "if not self.leader: return".
sendAckLeader(n, k) ==
  {m \in {[type |-> 3, src |-> n, dst |-> Leader, num |-> k]} : n = Leader}

\* sendAck: nothing from a leader, from the others a type-3 to their leader.
sendAck(n, k) ==
  {m \in {[type |-> 3, src |-> n, dst |-> Leader, num |-> k]} : n # Leader}

\* Mutant: a majority of the nodes, the leader counted, is enough.
MajorityReached(acks) == acks + 1 > Cardinality(Node) \div 2

QuorumReached(acks) == followerCount > 0 /\ acks >= followerCount

\* writeHandler on a type-2 message: log it, keep the record if it is in this
\* node's shard, and sendAck, which a leader does not.
writeHandler2(m) ==
  LET n == m.dst
  IN  /\ m.type = 2
      /\ bound' = bound \cup {n}
      /\ logs' = Logged(n, m.num, m.write)
      /\ records' = IF InShard(n) THEN Kept(n, m.write) ELSE records
      /\ msgs' = (msgs \ {m}) \cup sendAck(n, m.num)
      /\ UNCHANGED <<entry, currLogNum, logAck, threadVars, file, quorum, history,
                     faults>>

\* writeHandler on a type-3 message: ackHandler.
ackHandler(m) ==
  LET n == m.dst
      acks == logAck[n][m.num] + 1
  IN  /\ m.type = 3
      /\ bound' = bound \cup {n}
      /\ logAck' = [logAck EXCEPT ![n][m.num] = acks]
      /\ quorum' = IF QuorumReached(acks)
                   THEN quorum \cup {w \in Write : m.num \in DOMAIN logs[n]
                                                   /\ logs[n][m.num] = w}
                   ELSE quorum
      /\ msgs' = msgs \ {m}
      /\ UNCHANGED <<entry, currLogNum, logs, records, threadVars, file, history,
                     faults>>

-------------------------------------------------------------------------------
(* Faults.                                                                 *)

Fault(kind) ==
  /\ kind \in FaultKinds \ faults
  /\ Cardinality(faults) < MaxFaults
  /\ faults' = faults \cup {kind}

\* _send_raw cannot connect.
Lose(m) ==
  /\ Fault("lose")
  /\ msgs' = msgs \ {m}
  /\ UNCHANGED <<entry, nodeVars, threadVars, file, quorum, history>>

\* open fails, for reading or for writing: the error is printed and the write
\* answered OK.
DiskError(w) ==
  /\ pc[w] \in {"commit", "read", "truncate"}
  /\ Fault("disk")
  /\ sole' = sole \ {w}
  /\ pc' = [pc EXCEPT ![w] = "done"]
  /\ UNCHANGED <<entry, nodeVars, num, lines, update, file, msgs, quorum, last, overlap,
                 torn>>

\* writelines or close fails: the write is answered OK too, and what is out by
\* then is all that is left of the file.
DiskFull(w) ==
  /\ Rewriting(w)
  /\ Fault("full")
  /\ torn' = TRUE
  /\ sole' = sole \ {w}
  /\ pc' = [pc EXCEPT ![w] = "done"]
  /\ UNCHANGED <<entry, nodeVars, num, lines, update, file, msgs, quorum, last, overlap>>

\* A node's process ends and is started again.  Its memory is built anew, its
\* threads are gone, and so is what was on its way to it; of what it was
\* sending any part is out.
Crash(n) ==
  /\ Fault(IF n = Leader THEN "reset" ELSE "crash")
  /\ currLogNum' = [currLogNum EXCEPT ![n] = 0]
  /\ logs' = [logs EXCEPT ![n] = Empty]
  /\ logAck' = [logAck EXCEPT ![n] = [k \in Num |-> 0]]
  /\ bound' = bound \ {n}
  /\ records' = [records EXCEPT ![n] = Loaded(n, file)]
  /\ torn' = (torn \/ \E w \in Write : Rewriting(w))
  /\ pc' = [w \in Write |-> IF Running(w) /\ entry[w] = n THEN "killed" ELSE pc[w]]
  /\ sole' = {w \in sole : entry[w] # n}
  /\ \E unsent \in SUBSET {m \in msgs : m.src = n} :
       msgs' = {m \in msgs : m.dst # n /\ m \notin unsent}
  /\ UNCHANGED <<entry, num, lines, update, file, quorum, last, overlap>>

-------------------------------------------------------------------------------
Thread(w) ==
  \/ writeHandler1(w) \/ newRecord(w) \/ Unresolvable(w)
  \/ TakeNumber(w) \/ sendLog(w) \/ OpenFile(w) \/ ReadFile(w)
  \/ Truncate(w) \/ WriteBack(w)

Deliver == \E m \in msgs : writeHandler2(m) \/ ackHandler(m)

Next ==
  \/ \E w \in Write : Thread(w) \/ DiskError(w) \/ DiskFull(w)
  \/ Deliver
  \/ \E m \in msgs : Lose(m)
  \/ \E n \in Node : Crash(n)

\* Threads run to their end and what was sent is received.
Fairness == WF_vars(Deliver) /\ \A w \in Write : WF_vars(Thread(w))

Spec     == Init /\ [][Next]_vars
FairSpec == Spec /\ Fairness

-------------------------------------------------------------------------------
(* Safety.                                                                 *)

Done(d)  == {w \in Write : pc[w] = "done" /\ DomainOf[w] = d}
AtRest   == msgs = {} /\ \A w \in Write : ~Running(w)

AtLeader == \A w \in Write : entry[w] = Leader

\* The writes came to the leader, one at a time, and it has not been restarted.
Orderly == AtLeader /\ ~overlap /\ "reset" \notin faults

\* A log number names one update: two nodes that hold an entry under the same
\* number hold the same one, as long as the leader's counter has not started
\* again from 0 and no two threads have raced for it.
LogMatching ==
  Orderly => \A m, n \in Node : \A k \in DOMAIN logs[m] \cap DOMAIN logs[n] :
               logs[m][k] = logs[n][k]

\* Whenever no thread is inside its rewrite, the file lists for every domain
\* the write that was finished last, and has lost no domain it listed before:
\* what commitHandler read is still what the file says when it writes it back.
FileIsCurrent ==
  (\A w \in Write : ~Rewriting(w))
    => file = [d \in {d \in Domain : last[d] # NA} |-> last[d]]

\* The same when every commitHandler has found its own write under its number and
\* no two have had the file open while one rewrote it: what a thread puts back is
\* not older than what the file says.
CommitsAreCurrent == (\A w \in Write : update[w] \in {w, NA}) /\ ~torn => FileIsCurrent

\* One write at a time does keep the file current, whatever messages are lost,
\* followers restarted or files refused by the disk, unless the disk fails after
\* open(filepath, 'w') has emptied the file.
SerialFileIsCurrent == Orderly /\ "full" \notin faults => FileIsCurrent

\* "Quorum reached" is printed only for an update that every follower has in
\* its log: acknowledgements counted under a number are about one update.
QuorumMeansReplicated ==
  Orderly /\ "crash" \notin faults
    => \A w \in quorum : \A f \in Followers : \E k \in DOMAIN logs[f] : logs[f][k] = w

\* Once everything sent has been handled, the owner of the shard answers reads
\* of a domain with one of the writes that finished for it, if there were any,
\* however the leader's threads raced for log numbers and the file.  The type-2
\* message carries the write itself; a leader that owns the shard keeps what it
\* finds under the number instead, which two threads may share, and is left out.
OwnerServesAWrite ==
  AtRest /\ AtLeader /\ faults = {} /\ Owner # Leader
    => \A d \in Domain : Done(d) # {} => records[Owner][d] \in Done(d)

\* The file holds for a domain what was never written for it only after two
\* threads have met in it or one was stopped while it rewrote it, and a node's
\* records do only if, besides, it owns the shard and was then restarted; in any
\* other race or failure every value stays with the domain of its write, although
\* threads commit what they find under a shared number and a follower numbers
\* the writes that enter there as if it were the leader.
OnlyWrittenValues ==
  LET Legal(d)     == {w \in Write : pc[w] # "idle" /\ DomainOf[w] = d}
                        \cup (IF d \in Listed THEN {Old} ELSE {})
      Restarted(n) == (IF n = Leader THEN "reset" ELSE "crash") \in faults
  IN  /\ torn \/ (\E w \in Write : Rewriting(w)) \/ \A d \in DOMAIN file : file[d] \in Legal(d)
      /\ \A n \in Node : \A d \in Domain :
           records[n][d] \in Legal(d) \cup {NA} \/ (torn /\ n = Owner /\ Restarted(n))

\* A write that is done has been or will be acknowledged by every follower,
\* unless something failed, writes overlapped or entered elsewhere: sendAck has
\* no retry.
QuorumInTheEnd ==
  \A w \in Write : pc[w] = "done" /\ AtLeader ~> (w \in quorum \/ overlap \/ faults # {})
===============================================================================
