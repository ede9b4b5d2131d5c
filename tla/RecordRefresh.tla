----------------------------- MODULE RecordRefresh -----------------------------
(***************************************************************************)
(* How records are kept fresh: Batch (data_plane/batch/_batch.py), which   *)
(* every node starts with, and control_plane/process.py, which an operator *)
(* runs at any time.  Both walk shard files, ask live DNS for every domain *)
(* and send a type-1 write for each address that has changed.  Batch takes *)
(* shards and leader from its node's memory, process.py from states.txt,   *)
(* the one file in which every node in turn writes its own view.           *)
(*                                                                         *)
(* main.py starts Batch before the write server listens, so a node's first *)
(* writes may be refused by the node itself, whose leaderIp is its own     *)
(* until the first beat.  All nodes have found each other here: beats then *)
(* change leaderIp and no shard (OwnersHaveRecords of RaftElection), so    *)
(* updateState runs only in States().                                      *)
(*                                                                         *)
(* Addresses are numbered in the order in which live DNS gives them.  A    *)
(* shard file has a line for each of its domains.  A scanner reads them a  *)
(* buffer at a time while it asks about those it has, for hours, and a     *)
(* commit, which takes the steps a scanner or another commit can tell      *)
(* apart (WritePipeline has the rest), rewrites the file under it.  From   *)
(* then on the letter is disturbed: what the scanner still finds in the    *)
(* file, and what the file says after commits have met, is left open.      *)
(***************************************************************************)
EXTENDS Shards, FiniteSets

CONSTANTS
  Node,         \* the data-plane nodes
  Highest,      \* the one with the highest address, whose beats all accept
  Rank,         \* the rank discovery gives each node
  Booted,       \* the nodes that have made their States() when a run starts
  Listed,       \* the domains that have a line in their shard file at the start
  Fresh,        \* others, which newRecord may add
  HeadOf,       \* the letter of each domain
  MaxLive,      \* bound: the highest address live DNS goes to
  MaxEvents,    \* bound: the failures, changes and new names of a run
  Process,      \* process.py, among the scanners
  Torn,         \* whatever a disturbed file has for a domain
  None          \* no node, no line, no address, no letter

Domain  == Listed \cup Fresh
Address == 0 .. MaxLive

\* Discovery gives the nodes different ranks (DiscoveredNumbers in
\* RaftElectionProofs).
ASSUME RefreshAssumption ==
  /\ IsFiniteSet(Node) /\ Highest \in Node /\ Process \notin Node /\ None \notin Node
  /\ Rank \in [Node -> 1 .. Cardinality(Node)]
  /\ \A m, n \in Node : Rank[m] = Rank[n] => m = n
  /\ Booted \subseteq Node
  /\ Listed \cap Fresh = {} /\ HeadOf \in [Domain -> Alphabet]
  /\ MaxLive \in Nat \ {0} /\ MaxEvents \in Nat
  /\ None \notin Alphabet /\ None \notin Address /\ Torn \notin Address /\ Torn # None

VARIABLES
  boot,         \* how far each node's main() is
  leaderIp,     \* States.leaderIp
  statesTxt,    \* states.txt: the node whose view it holds, or "absent", "empty",
                \* "garbled"
  target,       \* leader_ip of process.py, None before it has read states.txt
  todo,         \* the shards each scanner has yet to open
  open,         \* the one it has open, or None
  unread,       \* the domains of it whose lines are to come, if it is not disturbed
  chunk,        \* the lines it has read and not yet compared: domain -> address
  live,         \* the address live DNS gives for each domain
  file,         \* the address its shard file lists, None if it lists none
  writes,       \* type-1 messages a write server has accepted
  commits,      \* those in their threads, up to the end of reading the file
  rewriting,    \* those that have emptied the file and are filling it
  asked,        \* history: the domains some scanner has asked live DNS for
  disturbed,    \* history: the letters a commit met a scanner or another commit in
  spoiled,      \* history: the domains that something went wrong for
  trouble,      \* history: what else went wrong
  events        \* the failures, changes and new names so far

nodeVars == <<boot, leaderIp, statesTxt>>
scanVars == <<target, todo, open, unread, chunk, asked>>
fileVars == <<file, writes, commits, rewriting, disturbed>>
vars     == <<nodeVars, scanVars, fileVars, live, spoiled, trouble, events>>

Scanner == Node \cup {Process}
Message == [at : Node, dom : Domain, ip : Address]
Lines   == UNION {[S -> Address] : S \in SUBSET Domain}

\* "overlap": two nodes were inside updateState at once.  "unsaved": one could not
\* save its state.  "unread": a Batch ended at a file it could not read.
Trouble == {"overlap", "unsaved", "unread"}

TypeOK ==
  /\ boot \in [Node -> {"records", "recordsOpen", "state", "stateOpen", "loaded",
                        "batch", "serving"}]
  /\ leaderIp \in [Node -> Node]
  /\ statesTxt \in Node \cup {"absent", "empty", "garbled"}
  /\ target \in Node \cup {None}
  /\ todo \in [Scanner -> SUBSET Alphabet]
  /\ open \in [Scanner -> Alphabet \cup {None}]
  /\ unread \in [Scanner -> SUBSET Domain]
  /\ chunk \in [Scanner -> Lines]
  /\ live \in [Domain -> Address]
  /\ file \in [Domain -> Address \cup {Torn, None}]
  /\ writes \in SUBSET Message
  /\ commits \in SUBSET Message
  /\ rewriting \in SUBSET Message
  /\ asked \in SUBSET Domain
  /\ disturbed \in SUBSET Alphabet
  /\ spoiled \in SUBSET Domain
  /\ trouble \in SUBSET Trouble
  /\ events \in 0 .. MaxEvents

\* selfRecords of a node that found all the others.
selfRecords(n) == RecordSet(Cardinality(Node), Rank[n], Cardinality(Node))

NoLines == [d \in {} |-> None]

\* The files are those of an earlier run, or states.txt is not there; the last to
\* save is a node that has.
Init ==
  /\ boot = [n \in Node |-> IF n \in Booted THEN "loaded" ELSE "records"]
  /\ leaderIp = [n \in Node |-> n]
  /\ statesTxt \in IF Booted = {} THEN Node \cup {"absent"} ELSE Booted
  /\ target = None
  /\ todo = [s \in Scanner |-> {}]
  /\ open = [s \in Scanner |-> None]
  /\ unread = [s \in Scanner |-> {}]
  /\ chunk = [s \in Scanner |-> NoLines]
  /\ live \in [Domain -> 0 .. 1] /\ \A d \in Fresh : live[d] = 0
  /\ file = [d \in Domain |-> IF d \in Listed THEN 0 ELSE None]
  /\ writes = {}
  /\ commits = {}
  /\ rewriting = {}
  /\ asked = {}
  /\ disturbed = {}
  /\ spoiled = {}
  /\ trouble = {}
  /\ events = 0

\* One more of what MaxEvents bounds.
Event == events < MaxEvents /\ events' = events + 1

-------------------------------------------------------------------------------
(* main() of a node.                                                       *)

\* States() saves twice: at the end of updateRecordSet and of __init__.  (A node
\* that is alone leaves out the first.)
AfterOpen  == [records |-> "recordsOpen", state |-> "stateOpen"]
AfterWrite == [recordsOpen |-> "state", stateOpen |-> "loaded"]

Saving(n) == boot[n] \in DOMAIN AfterWrite

\* Mutant: the file is opened without being emptied.
KeptOpen(n) == UNCHANGED statesTxt

\* open('../states.txt', 'w').
Emptied(n) == statesTxt' = "empty"

\* updateState, first half.
OpenStates(n) ==
  /\ boot[n] \in DOMAIN AfterOpen
  /\ boot' = [boot EXCEPT ![n] = AfterOpen[boot[n]]]
  /\ Emptied(n)
  /\ trouble' = IF \E m \in Node : Saving(m) THEN trouble \cup {"overlap"} ELSE trouble
  /\ UNCHANGED <<leaderIp, scanVars, fileVars, live, spoiled, events>>

\* updateState, second half: the buffer reaches the file when it is closed.  Of
\* a longer view that was written since the file was opened a tail remains.
WriteStates(n) ==
  /\ Saving(n)
  /\ boot' = [boot EXCEPT ![n] = AfterWrite[boot[n]]]
  /\ \/ statesTxt' = n
     \/ statesTxt # "empty" /\ statesTxt' = "garbled"
  /\ UNCHANGED <<leaderIp, scanVars, fileVars, live, spoiled, trouble, events>>

\* OSError: the file cannot be opened and stays as it is, or it cannot be written
\* and keeps what is out.  A warning is printed and main() goes on.
SaveFails(n) ==
  /\ Event
  /\ \/ /\ boot[n] \in DOMAIN AfterOpen
        /\ boot' = [boot EXCEPT ![n] = AfterWrite[AfterOpen[boot[n]]]]
        /\ UNCHANGED statesTxt
     \/ /\ Saving(n)
        /\ boot' = [boot EXCEPT ![n] = AfterWrite[boot[n]]]
        /\ statesTxt' \in {statesTxt, "garbled"}
  /\ trouble' = trouble \cup {"unsaved"}
  /\ UNCHANGED <<leaderIp, scanVars, fileVars, live, spoiled>>

\* Batch(states, raft): the thread has the shards of this moment to scan.
StartBatch(n) ==
  /\ boot[n] = "loaded"
  /\ boot' = [boot EXCEPT ![n] = "batch"]
  /\ todo' = [todo EXCEPT ![n] = selfRecords(n)]
  /\ UNCHANGED <<leaderIp, statesTxt, target, open, unread, chunk, asked, fileVars, live,
                 spoiled, trouble, events>>

\* server.start(): the ports listen.
StartServer(n) ==
  /\ boot[n] = "batch"
  /\ boot' = [boot EXCEPT ![n] = "serving"]
  /\ UNCHANGED <<leaderIp, statesTxt, scanVars, fileVars, live, spoiled, trouble, events>>

main(n) == OpenStates(n) \/ WriteStates(n) \/ StartBatch(n) \/ StartServer(n)

\* The first beat of the highest address; states.txt is not written again.
Beat(n) ==
  /\ boot[n] = "serving" /\ boot[Highest] \in {"batch", "serving"}
  /\ leaderIp[n] # Highest
  /\ leaderIp' = [leaderIp EXCEPT ![n] = Highest]
  /\ UNCHANGED <<boot, statesTxt, scanVars, fileVars, live, spoiled, trouble, events>>

-------------------------------------------------------------------------------
(* The scanners.                                                           *)

\* process.py reads states.txt.  If it is not there or no JSON, process.py ends and
\* can be run again.
ReadStates ==
  /\ target = None
  /\ statesTxt \in Node
  /\ target' = statesTxt
  /\ todo' = [todo EXCEPT ![Process] = selfRecords(statesTxt)]
  /\ UNCHANGED <<nodeVars, open, unread, chunk, asked, fileVars, live, spoiled, trouble, events>>

\* The domains that have a line in the file of letter h.
LinesOf(h) == {d \in Domain : HeadOf[d] = h /\ file[d] # None}

\* The letters in S are disturbed from now on: of what their files list nothing
\* more is known.  The others are as in f.
Disturb(S, f) ==
  /\ disturbed' = disturbed \cup S
  /\ file' = [d \in Domain |-> IF HeadOf[d] \in disturbed' THEN Torn ELSE f[d]]

\* Mutant: a file is expected for every letter.
OpenShardBlank(s, h) ==
  /\ open[s] = None
  /\ h \in todo[s]
  /\ todo' = [todo EXCEPT ![s] = @ \ {h}]
  /\ open' = [open EXCEPT ![s] = h]
  /\ unread' = [unread EXCEPT ![s] = {d \in Domain : HeadOf[d] = h}]
  /\ Disturb({HeadOf[m.dom] : m \in rewriting} \cap {h}, file)
  /\ UNCHANGED <<nodeVars, target, chunk, asked, writes, commits, rewriting, live, spoiled,
                 trouble, events>>

\* Open the next shard file.  There may be no such file.
OpenShard(s, h) ==
  /\ open[s] = None
  /\ h \in todo[s]
  /\ todo' = [todo EXCEPT ![s] = @ \ {h}]
  /\ IF LinesOf(h) = {}
     THEN UNCHANGED <<open, unread>>
     ELSE /\ open' = [open EXCEPT ![s] = h]
          /\ unread' = [unread EXCEPT ![s] = LinesOf(h)]
  /\ Disturb({HeadOf[m.dom] : m \in rewriting} \cap {h}, file)
  /\ UNCHANGED <<nodeVars, target, chunk, asked, writes, commits, rewriting, live, spoiled,
                 trouble, events>>

\* The next lines are read.
ReadLines(s) ==
  /\ chunk[s] = NoLines
  /\ open[s] \notin disturbed
  /\ \E S \in (SUBSET unread[s]) \ {{}} :
       /\ unread' = [unread EXCEPT ![s] = @ \ S]
       /\ chunk' = [chunk EXCEPT ![s] = [d \in S |-> file[d]]]
  /\ UNCHANGED <<nodeVars, target, todo, open, asked, fileVars, live, spoiled, trouble, events>>

\* The end of the file, which a disturbed one may come to at any line.
CloseShard(s) ==
  /\ open[s] # None /\ chunk[s] = NoLines
  /\ unread[s] = {} \/ open[s] \in disturbed
  /\ open' = [open EXCEPT ![s] = None]
  /\ unread' = [unread EXCEPT ![s] = {}]
  /\ UNCHANGED <<nodeVars, target, todo, chunk, asked, fileVars, live, spoiled, trouble, events>>

\* A file cannot be read, and a Batch ends there.  process.py does so too, and at a
\* name in pieces that gethostbyname cannot encode, and may be stopped at any time.
Abort(s) ==
  /\ Event
  /\ todo[s] # {} \/ open[s] # None
  /\ todo' = [todo EXCEPT ![s] = {}]
  /\ open' = [open EXCEPT ![s] = None]
  /\ unread' = [unread EXCEPT ![s] = {}]
  /\ chunk' = [chunk EXCEPT ![s] = NoLines]
  /\ trouble' = IF s = Process THEN trouble ELSE trouble \cup {"unread"}
  /\ UNCHANGED <<nodeVars, target, asked, fileVars, live, spoiled>>

\* Port 9000 of n takes connections.
Accepts(n) == boot[n] = "serving"

\* Where s sends its writes.
Leader(s) == IF s = Process THEN target ELSE leaderIp[s]

\* The question about d is answered, and the line of d in hand dealt with.
Dealt(s, d) ==
  /\ asked' = asked \cup {d}
  /\ chunk' = [chunk EXCEPT ![s] = [e \in DOMAIN chunk[s] \ {d} |-> chunk[s][e]]]

\* Mutant: the writes go to port 8000, where no one takes them.
CompareReadPort(s) ==
  /\ \E d \in DOMAIN chunk[s] : Dealt(s, d)
  /\ UNCHANGED <<nodeVars, target, todo, open, unread, fileVars, live, spoiled, trouble, events>>

\* s asks live DNS for the next domain and, if the address differs, sends the write
\* to the node it takes for the leader.  A refused connection loses the update:
\* Batch prints "Failed to resolve", process.py "Failed to send".
Compare(s) ==
  /\ \E d \in DOMAIN chunk[s] :
       /\ Dealt(s, d)
       /\ IF chunk[s][d] = live[d]
          THEN UNCHANGED <<writes, spoiled>>
          ELSE IF Accepts(Leader(s))
          THEN /\ writes' = writes \cup {[at |-> Leader(s), dom |-> d, ip |-> live[d]]}
               /\ UNCHANGED spoiled
          ELSE spoiled' = spoiled \cup {d} /\ UNCHANGED writes
  /\ UNCHANGED <<nodeVars, target, todo, open, unread, file, commits, rewriting, disturbed,
                 live, trouble, events>>

\* gethostbyname fails: the scanner goes on with the next line.
Unresolvable(s) ==
  /\ Event
  /\ \E d \in DOMAIN chunk[s] : Dealt(s, d) /\ spoiled' = spoiled \cup {d}
  /\ UNCHANGED <<nodeVars, target, todo, open, unread, fileVars, live, trouble>>

\* A line of a disturbed file, or a piece of one taken for a line: a write for
\* whatever name it has may go out.
Misread(s) ==
  /\ Event
  /\ open[s] \in disturbed
  /\ Accepts(Leader(s))
  /\ \E d \in Domain : writes' = writes \cup {[at |-> Leader(s), dom |-> d, ip |-> live[d]]}
  /\ UNCHANGED <<nodeVars, scanVars, file, commits, rewriting, disturbed, live, spoiled,
                 trouble>>

Scan(s) == (\E h \in todo[s] : OpenShard(s, h)) \/ ReadLines(s) \/ CloseShard(s) \/ Compare(s)

-------------------------------------------------------------------------------
(* The write servers.                                                      *)

\* A read that no node could answer ends at a leader in newRecord, which adds the
\* name to its shard file.
newRecord(n, d) ==
  /\ Event
  /\ Accepts(n) /\ leaderIp[n] = n
  /\ file[d] = None /\ ~\E m \in writes \cup commits \cup rewriting : m.dom = d
  /\ writes' = writes \cup {[at |-> n, dom |-> d, ip |-> live[d]]}
  /\ UNCHANGED <<nodeVars, scanVars, file, commits, rewriting, disturbed, live, spoiled,
                 trouble>>

\* The commits that are under way in the shard of m.
Sharing(m) == {o \in commits \cup rewriting : HeadOf[o.dom] = HeadOf[m.dom]}

\* Threads of one node that may get the same log number as m.
Numbering(m) == {o \in commits : o.at = m.at}

\* A thread takes a log number, sends the log and reads the shard file.  If another
\* commit is under way in the shard, neither can be relied on to put back the lines
\* of the other.  If another thread of the node has the same number, the two commit
\* the same one of their updates.
Begin(m) ==
  /\ m \in writes
  /\ writes' = writes \ {m}
  /\ commits' = commits \cup {m}
  /\ LET met == {HeadOf[o.dom] : o \in Sharing(m)} IN
       \/ Disturb(met, file)
       \/ Numbering(m) # {} /\ Disturb({HeadOf[o.dom] : o \in Numbering(m) \cup {m}} \cup met, file)
  /\ UNCHANGED <<nodeVars, scanVars, rewriting, live, spoiled, trouble, events>>

\* open(filepath, 'w'): the file is emptied, under the scanners that have it open.
Empty(m) ==
  /\ m \in commits
  /\ commits' = commits \ {m}
  /\ rewriting' = rewriting \cup {m}
  /\ Disturb({open[s] : s \in Scanner} \cap {HeadOf[m.dom]}, file)
  /\ UNCHANGED <<nodeVars, scanVars, writes, live, spoiled, trouble, events>>

\* The lines are written and the file is closed.
Finish(m) ==
  /\ m \in rewriting
  /\ rewriting' = rewriting \ {m}
  /\ Disturb({}, [file EXCEPT ![m.dom] = m.ip])
  /\ UNCHANGED <<nodeVars, scanVars, writes, commits, live, spoiled, trouble, events>>

\* OSError: nothing was touched yet, or the file is what was written of it.
CommitFails(m) ==
  /\ Event
  /\ \/ m \in commits /\ Disturb({}, file)
     \/ m \in rewriting /\ Disturb({HeadOf[m.dom]}, file)
  /\ commits' = commits \ {m}
  /\ rewriting' = rewriting \ {m}
  /\ spoiled' = spoiled \cup {m.dom}
  /\ UNCHANGED <<nodeVars, scanVars, writes, live, trouble>>

Commit == \/ \E m \in writes : Begin(m)
          \/ \E m \in commits : Empty(m)
          \/ \E m \in rewriting : Finish(m)

\* The owner of d moves it.
Change(d) ==
  /\ Event
  /\ live[d] < MaxLive
  /\ live' = [live EXCEPT ![d] = @ + 1]
  /\ spoiled' = spoiled \cup {d}
  /\ UNCHANGED <<nodeVars, scanVars, fileVars, trouble>>

-------------------------------------------------------------------------------

Next ==
  \/ \E n \in Node : main(n) \/ SaveFails(n) \/ Beat(n) \/ \E d \in Fresh : newRecord(n, d)
  \/ ReadStates
  \/ \E s \in Scanner : Scan(s) \/ Abort(s) \/ Unresolvable(s) \/ Misread(s)
  \/ Commit
  \/ \E m \in commits \cup rewriting : CommitFails(m)
  \/ \E d \in Listed : Change(d)

\* As long as main(), a scanner or a commit somewhere can go on, one of them does:
\* less than what the schedulers of the nodes grant every thread.  Nobody need run
\* process.py, and beats are not counted on.
Fairness == WF_vars((\E n \in Node : main(n)) \/ (\E s \in Scanner : Scan(s)) \/ Commit)

Spec     == Init /\ [][Next]_vars
FairSpec == Spec /\ Fairness

-------------------------------------------------------------------------------
(* Properties.                                                             *)

\* The Batch of every node has gone through its shards.
BatchesThrough == \A n \in Node : boot[n] = "serving" /\ todo[n] = {} /\ open[n] = None

\* When every Batch is through, live DNS has been asked about every record: the
\* slices leave no letter out, and a record is passed over only in a file that was
\* rewritten under a scanner or by two commits at once, or that could not be read.
EveryRecordChecked ==
  BatchesThrough /\ "unread" \notin trouble
    => \A d \in Listed : d \in asked \/ HeadOf[d] \in disturbed

\* Once a node has saved its state and nobody is about to, process.py can read
\* states.txt, and finds there the view of one node of this cluster, unless two
\* nodes were inside updateState at once or the disk refused one of them.
StatesReadable ==
  (trouble \cap {"overlap", "unsaved"} = {} /\ (\E n \in Node : boot[n] # "records")
                                            /\ (\A n \in Node : ~Saving(n)))
    => statesTxt \in Node

\* Every record ends up with the address live DNS gives, whichever node each
\* scanner took for the leader and whatever else is written, unless its address
\* changed or did not resolve, its write was refused or failed, or its file was
\* rewritten under a scanner or by two commits at once, or could not be read.
RefreshedInTheEnd ==
  <>[](\A d \in Listed : \/ file[d] = live[d]
                         \/ d \in spoiled \/ HeadOf[d] \in disturbed \/ "unread" \in trouble)
===============================================================================
